------------------------------- MODULE Vault --------------------------------
(***************************************************************************)
(* The accounts a passer leaves behind: backend/handlers/accounts.go.      *)
(*                                                                         *)
(* An account's password is encrypted and decrypted by the crypto service, *)
(* which module UserKeys stands for (UserKeyStore implements it); it asks  *)
(* for a user id that is a string.  Passwords are encrypted under the      *)
(* passer's id as the request spells it, and decrypted under the spelling  *)
(* the database's uuid type prints.  Calls and statements take place one   *)
(* by one; any of them may fail, and the replica may die.                  *)
(***************************************************************************)
CONSTANTS
    User,       \* users.id, spelled as pgtype.UUID prints it
    Spelling,   \* strings toPGUUID accepts (capitals, braces, no dashes)
    canonical,  \* the user each of them is read as
    Password,
    AccountId,  \* accounts.id, a SERIAL
    Key,        \* key pairs of the crypto service
    Request     \* requests for accounts that may run at a time

ASSUME VaultAssumption ==
    /\ User \subseteq Spelling
    /\ canonical \in [Spelling -> User]
    /\ \A u \in User : canonical[u] = u

VARIABLES
    accounts,   \* the accounts table
    keyOf,      \* the crypto service: the key pair of each user id
    issued,     \* the crypto service: the ciphertexts it made
    pc,         \* how far each request is
    ask,        \* what it asks
    sealed,     \* the ciphertext Encrypt returned to it
    rows,       \* the rows it has yet to turn into responses
    shown,      \* the passwords of the responses it has made, by account
    stored      \* history variable: every row the accounts table ever had

crypto   == <<keyOf, issued>>
requests == <<pc, ask, sealed, rows, shown>>
vars     == <<accounts, crypto, requests, stored>>

\* The crypto service, as its callers may rely on it.
Crypto == INSTANCE UserKeys WITH User <- Spelling

\* A stored password: its ciphertext opens under this key pair.  The user id it
\* was asked for is not part of what is stored, and only properties look at it.
Text == [user : Spelling, key : Key, password : Password]

Account == [passer : User, text : Text]
Stored  == [id : AccountId, passer : User, text : Text]

Ask ==
    [op : {"list"}, passer : User]
    \cup [op : {"create"}, passer : Spelling, password : Password]
    \cup [op : {"update"}, passer : Spelling, password : Password, id : AccountId]

Working == {"encrypt", "insert", "get", "update", "select", "decrypt"}

\* A request that is answered leaves nothing behind, unless the answer is that
\* a password could not be decrypted.
Place == Working \cup {"idle", "unreadable"}

\* The places a request of each kind comes to, before accountToResponse.
Path(op) ==
    CASE op = "list"   -> {"select"}
      [] op = "create" -> {"encrypt", "insert"}
      [] op = "update" -> {"encrypt", "get", "update"}

Passer(r) == canonical[ask[r].passer]

Put(f, k, v) == [x \in DOMAIN f \cup {k} |-> IF x = k THEN v ELSE f[x]]
Drop(f, k)   == [x \in DOMAIN f \ {k} |-> f[x]]
Empty        == [x \in {} |-> x]

Init ==
    /\ accounts = Empty
    /\ Crypto!Init
    /\ pc = [r \in Request |-> "idle"]
    /\ ask = Empty /\ sealed = Empty /\ rows = Empty /\ shown = Empty
    /\ stored = {}

-----------------------------------------------------------------------------
(* A request and its locals                                                *)

\* A request that parses: a password is required, and its passer is a uuid.  (An
\* empty passer is let through, and no row can have it or match it.)
Receive(r, request) ==
    /\ pc[r] \notin Working
    /\ pc' = [pc EXCEPT ![r] = IF request.op = "list" THEN "select" ELSE "encrypt"]
    /\ ask' = Put(ask, r, request)
    /\ UNCHANGED <<accounts, crypto, sealed, rows, shown, stored>>

\* The handler returns, and with it go its locals.
Return(r) ==
    /\ sealed' = Drop(sealed, r)
    /\ rows' = Drop(rows, r)
    /\ shown' = Drop(shown, r)

Answered(r) ==
    /\ pc' = [pc EXCEPT ![r] = "idle"]
    /\ ask' = Drop(ask, r)
    /\ Return(r)

\* The handler goes on to accountToResponse with the rows it got.
Respond(r, found) ==
    /\ pc' = [pc EXCEPT ![r] = "decrypt"]
    /\ rows' = Put(rows, r, found)
    /\ shown' = Put(shown, r, Empty)
    /\ UNCHANGED <<ask, sealed>>

-----------------------------------------------------------------------------
(* The crypto service                                                      *)

\* The user ids a request may ask it for next.
CalledFor(r) ==
    CASE pc[r] = "encrypt" -> {ask[r].passer}
      [] pc[r] = "decrypt" -> {rows[r][id].passer : id \in DOMAIN rows[r]}
      [] OTHER             -> {}

\* Fault: a key pair per call.
ChooseAnew(u, k) ==
    /\ \A v \in DOMAIN keyOf : keyOf[v] # k
    /\ keyOf' = Put(keyOf, u, k)
    /\ UNCHANGED issued

Choose(u, k) == Crypto!Choose(u, k)

\* Encrypt and Decrypt make the user's key pair on first use.
GetOrCreateUserKey(r) ==
    /\ \E u \in CalledFor(r), k \in Key : Choose(u, k)
    /\ UNCHANGED <<accounts, requests, stored>>

Encrypt(r) ==
    LET u == ask[r].passer IN
    /\ pc[r] = "encrypt"
    /\ Crypto!Encrypt(u)
    /\ sealed' = Put(sealed, r, [user |-> u, key |-> keyOf[u], password |-> ask[r].password])
    /\ pc' = [pc EXCEPT ![r] = IF ask[r].op = "create" THEN "insert" ELSE "get"]
    /\ UNCHANGED <<accounts, ask, rows, shown, stored>>

\* Decrypt is asked under the passer of the row.
Opens(row) == row.text.key = keyOf[row.passer]

\* accountToResponse, one row after the other; the first password that does
\* not open ends the request.
Decrypt(r) ==
    /\ pc[r] = "decrypt"
    /\ \E id \in DOMAIN rows[r] :
         LET row == rows[r][id] IN
         /\ row.passer \in DOMAIN keyOf
         /\ \/ /\ Opens(row)
               /\ shown' = [shown EXCEPT ![r] = Put(@, id, row.text.password)]
               /\ rows' = [rows EXCEPT ![r] = Drop(@, id)]
               /\ UNCHANGED <<pc, ask, sealed>>
            \/ /\ ~Opens(row)
               /\ pc' = [pc EXCEPT ![r] = "unreadable"]
               /\ Return(r)
               /\ UNCHANGED ask
    /\ UNCHANGED <<accounts, crypto, stored>>

\* All rows are responses: 200.
Reply(r) ==
    /\ pc[r] = "decrypt"
    /\ DOMAIN rows[r] = {}
    /\ Answered(r)
    /\ UNCHANGED <<accounts, crypto, stored>>

-----------------------------------------------------------------------------
(* The statements                                                          *)

\* A row is written.
Write(id, row) ==
    /\ accounts' = Put(accounts, id, row)
    /\ stored' = stored \cup {[id |-> id, passer |-> row.passer, text |-> row.text]}

\* SELECT ... WHERE passer_id = $1, the caller's.
ListAccounts(r) ==
    LET own == {id \in DOMAIN accounts : accounts[id].passer = Passer(r)} IN
    /\ pc[r] = "select"
    /\ Respond(r, [id \in own |-> accounts[id]])
    /\ UNCHANGED <<accounts, crypto, stored>>

\* INSERT INTO accounts, under an id that no row ever had.
InsertAccount(r, id) ==
    /\ \A s \in stored : s.id # id
    /\ Write(id, [passer |-> Passer(r), text |-> sealed[r]])

CreateAccount(r) ==
    /\ pc[r] = "insert"
    /\ \E id \in AccountId :
         /\ InsertAccount(r, id)
         /\ Respond(r, Put(Empty, id, accounts'[id]))
    /\ UNCHANGED crypto

\* Update reads the row and looks only at whether it is there.
GetAccount(r) ==
    /\ pc[r] = "get"
    /\ \/ /\ ask[r].id \in DOMAIN accounts
          /\ pc' = [pc EXCEPT ![r] = "update"]
          /\ UNCHANGED <<ask, sealed, rows, shown>>
       \/ /\ ask[r].id \notin DOMAIN accounts
          /\ Answered(r)
    /\ UNCHANGED <<accounts, crypto, stored>>

\* Fault: the WHERE clause has the id only, as that of UpdateDevice.
MatchesId(r) == ask[r].id \in DOMAIN accounts

\* WHERE id = $1 AND passer_id = $12.
Matches(r) ==
    /\ ask[r].id \in DOMAIN accounts
    /\ accounts[ask[r].id].passer = Passer(r)

\* UPDATE accounts SET enc_password, and not passer_id.
OverwriteAccount(r) ==
    /\ Matches(r)
    /\ Write(ask[r].id, [accounts[ask[r].id] EXCEPT !.text = sealed[r]])

\* Fault: the response is made of the row that Update read first.
RowBefore(r) == accounts[ask[r].id]

\* RETURNING the row as it is now.
RowAfter(r) == accounts'[ask[r].id]

UpdateAccount(r) ==
    /\ pc[r] = "update"
    /\ \/ /\ OverwriteAccount(r)
          /\ Respond(r, Put(Empty, ask[r].id, RowAfter(r)))
       \/ /\ ~Matches(r)
          /\ Answered(r)
          /\ UNCHANGED <<accounts, stored>>
    /\ UNCHANGED crypto

\* A call or a statement fails (an INSERT whose trust there is not, too), or
\* the replica dies; a write may be committed all the same.
Fail(r) ==
    /\ pc[r] \in Working
    /\ \/ UNCHANGED <<accounts, stored>>
       \/ pc[r] = "insert" /\ \E id \in AccountId : InsertAccount(r, id)
       \/ pc[r] = "update" /\ OverwriteAccount(r)
    /\ Answered(r)
    /\ UNCHANGED crypto

\* DELETE /accounts, one statement: WHERE id = $1 AND passer_id = $2.
DeleteAccount(id, u) ==
    /\ id \in DOMAIN accounts
    /\ accounts[id].passer = u
    /\ accounts' = Drop(accounts, id)
    /\ UNCHANGED <<crypto, requests, stored>>

-----------------------------------------------------------------------------
Next ==
    \/ \E r \in Request, request \in Ask : Receive(r, request)
    \/ \E r \in Request :
          \/ GetOrCreateUserKey(r) \/ Encrypt(r) \/ Decrypt(r) \/ Reply(r)
          \/ ListAccounts(r) \/ CreateAccount(r) \/ GetAccount(r) \/ UpdateAccount(r)
          \/ Fail(r)
    \/ \E id \in AccountId, u \in User : DeleteAccount(id, u)

Spec == Init /\ [][Next]_vars

-----------------------------------------------------------------------------
(* What must hold                                                          *)

\* Type invariant.  A request has exactly the locals of its place.
TypeOK ==
    /\ DOMAIN accounts \subseteq AccountId
    /\ accounts \in [DOMAIN accounts -> Account]
    /\ DOMAIN keyOf \subseteq Spelling
    /\ keyOf \in [DOMAIN keyOf -> Key]
    /\ issued \subseteq [user : Spelling, key : Key]
    /\ pc \in [Request -> Place]
    /\ DOMAIN ask = {r \in Request : pc[r] # "idle"}
    /\ ask \in [DOMAIN ask -> Ask]
    /\ \A r \in DOMAIN ask : pc[r] \in Path(ask[r].op) \cup {"decrypt", "unreadable"}
    /\ DOMAIN sealed = {r \in DOMAIN ask : /\ ask[r].op # "list"
                                           /\ pc[r] \in Working \ {"encrypt"}}
    /\ sealed \in [DOMAIN sealed -> Text]
    /\ DOMAIN rows = {r \in Request : pc[r] = "decrypt"}
    /\ \A r \in DOMAIN rows :
          /\ DOMAIN rows[r] \subseteq AccountId
          /\ rows[r] \in [DOMAIN rows[r] -> Account]
    /\ DOMAIN shown = DOMAIN rows
    /\ \A r \in DOMAIN shown :
          /\ DOMAIN shown[r] \subseteq AccountId
          /\ shown[r] \in [DOMAIN shown[r] -> Password]
    /\ stored \subseteq Stored

\* No password is lost: each one ever stored is under the key pair its user id
\* still has, and under nobody else's.
NothingLost ==
    \A s \in stored : \A u \in DOMAIN keyOf :
        /\ s.text.user \in DOMAIN keyOf
        /\ (keyOf[u] = s.text.key) <=> (u = s.text.user)

\* A response shows what its account was given, by a request about the same
\* passer, and never a password saved under another spelling; that of an
\* update or a creation shows what was asked, whatever others write meanwhile.
ShownWasSaved ==
    \A r \in DOMAIN shown : \A id \in DOMAIN shown[r] :
        /\ \E s \in stored : /\ s.id = id
                             /\ s.passer = Passer(r)
                             /\ s.text.user = s.passer
                             /\ s.text.password = shown[r][id]
        /\ ask[r].op # "list" => shown[r][id] = ask[r].password

\* The only password Decrypt refuses is one that was saved under another
\* spelling of its passer's id: nothing else makes a list fail.
UnreadableIfMisspelt ==
    \A r \in Request :
        pc[r] = "unreadable" =>
            \E s \in stored : s.passer = Passer(r) /\ s.text.user # s.passer

\* What a row says to its passer, now.
Plain(row) ==
    [passer   |-> row.passer,
     password |-> row.text.password,
     legible  |-> row.passer \in DOMAIN keyOf /\ Opens(row)]

\* What r will have shown when it is answered: the rows it has turned into
\* responses, and those it has yet to.
WillShow(r) ==
    [id \in DOMAIN rows[r] \cup DOMAIN shown[r] |->
        IF id \in DOMAIN rows[r]
        THEN Plain(rows[r][id])
        ELSE [passer |-> Passer(r), password |-> shown[r][id], legible |-> TRUE]]

BookNow    == [id \in DOMAIN accounts |-> Plain(accounts[id])]
UsedNow    == {s.id : s \in stored}
ViewNow    == [r \in DOMAIN rows |-> WillShow(r)]
RefusedNow == {r \in Request : pc[r] = "unreadable"}

Book == INSTANCE PasswordBook
            WITH book <- BookNow, used <- UsedNow, view <- ViewNow, refused <- RefusedNow

\* The handlers, their statements and their calls of the crypto service implement
\* the book: key pairs that are made, requests that fail halfway and writes
\* between a statement and the calls that follow it change nothing of what an
\* account says, or of what a request will show.
ImplementsBook == Book!Spec

-----------------------------------------------------------------------------
(* Why it holds                                                            *)

KeysDiffer == \A u, v \in DOMAIN keyOf : keyOf[u] = keyOf[v] => u = v

\* A ciphertext that Decrypt turns back, if asked under the right user id.
Sound(text) == text.user \in DOMAIN keyOf /\ text.key = keyOf[text.user]

TextsAreSound ==
    /\ \A s \in stored : Sound(s.text)
    /\ \A r \in DOMAIN sealed : /\ Sound(sealed[r])
                                /\ sealed[r].user = ask[r].passer
                                /\ sealed[r].password = ask[r].password

WasStored(id, row) == [id |-> id, passer |-> row.passer, text |-> row.text] \in stored

RowsWereStored ==
    /\ \A id \in DOMAIN accounts : WasStored(id, accounts[id])
    /\ \A r \in DOMAIN rows : \A id \in DOMAIN rows[r] :
          /\ WasStored(id, rows[r][id])
          /\ rows[r][id].passer = Passer(r)
          /\ ask[r].op # "list" => rows[r][id].text.password = ask[r].password

\* The inductive invariant: no two user ids share a key pair, every ciphertext
\* is under the key pair its user id has now, and every row in hand was stored.
IInv ==
    /\ TypeOK
    /\ KeysDiffer
    /\ TextsAreSound
    /\ RowsWereStored
    /\ ShownWasSaved
    /\ UnreadableIfMisspelt
=============================================================================
