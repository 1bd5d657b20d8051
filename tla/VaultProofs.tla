----------------------------- MODULE VaultProofs -----------------------------
(***************************************************************************)
(* Proofs about Vault, for every number of users, spellings, passwords,    *)
(* accounts, key pairs and requests.                                       *)
(***************************************************************************)
EXTENDS Vault, TLAPS

-----------------------------------------------------------------------------
(* The type invariant                                                      *)

\* What TypeOK says of the requests.
RequestsType ==
    /\ pc \in [Request -> Place]
    /\ DOMAIN ask = {r \in Request : pc[r] # "idle"}
    /\ ask \in [DOMAIN ask -> Ask]
    /\ \A r \in DOMAIN ask : pc[r] \in Path(ask[r].op) \cup {"decrypt", "unreadable"}
    /\ DOMAIN sealed = {r \in DOMAIN ask : /\ ask[r].op # "list"
                                           /\ pc[r] \in Working \ {"encrypt"}}
    /\ sealed \in [DOMAIN sealed -> Text]
    /\ DOMAIN rows = {r \in Request : pc[r] = "decrypt"}
    /\ \A r \in DOMAIN rows :
          /\ DOMAIN rows[r] \subseteq AccountId
          /\ rows[r] \in [DOMAIN rows[r] -> Account]
    /\ DOMAIN shown = DOMAIN rows
    /\ \A r \in DOMAIN shown :
          /\ DOMAIN shown[r] \subseteq AccountId
          /\ shown[r] \in [DOMAIN shown[r] -> Password]

\* What TypeOK says of the tables.
TablesType ==
    /\ DOMAIN accounts \subseteq AccountId
    /\ accounts \in [DOMAIN accounts -> Account]
    /\ DOMAIN keyOf \subseteq Spelling
    /\ keyOf \in [DOMAIN keyOf -> Key]
    /\ issued \subseteq [user : Spelling, key : Key]
    /\ stored \subseteq Stored

LEMMA TypeParts == TypeOK <=> TablesType /\ RequestsType
  BY DEF TypeOK, TablesType, RequestsType

LEMMA AskType ==
    ASSUME RequestsType, NEW r \in DOMAIN ask
    PROVE  /\ r \in Request
           /\ ask[r].op \in {"list", "create", "update"}
           /\ ask[r].passer \in Spelling
           /\ Passer(r) \in User
           /\ ask[r].op # "list" => ask[r].password \in Password
           /\ ask[r].op = "update" => ask[r].id \in AccountId
  BY VaultAssumption DEF RequestsType, Ask, Passer

\* A request that has been answered is of its type, whatever the answer.
LEMMA ReturnType ==
    ASSUME RequestsType, NEW r \in Request, Return(r),
           \/ pc' = [pc EXCEPT ![r] = "idle"] /\ ask' = Drop(ask, r)
           \/ pc' = [pc EXCEPT ![r] = "unreadable"] /\ pc[r] # "idle" /\ ask' = ask
    PROVE  RequestsType'
<1>1. /\ DOMAIN sealed' = DOMAIN sealed \ {r} /\ sealed' \in [DOMAIN sealed' -> Text]
      /\ \A q \in DOMAIN sealed' : sealed'[q] = sealed[q]
  BY DEF Return, Drop, RequestsType
<1>2. /\ DOMAIN rows' = DOMAIN rows \ {r}
      /\ \A q \in DOMAIN rows' : rows'[q] = rows[q]
  BY DEF Return, Drop
<1>3. /\ DOMAIN shown' = DOMAIN shown \ {r}
      /\ \A q \in DOMAIN shown' : shown'[q] = shown[q]
  BY DEF Return, Drop
<1>4. PICK p \in {"idle", "unreadable"} : pc' = [pc EXCEPT ![r] = p]
  OBVIOUS
<1>5. /\ DOMAIN ask' = {q \in Request : pc'[q] # "idle"}
      /\ ask' \in [DOMAIN ask' -> Ask]
      /\ \A q \in DOMAIN ask' : q \in DOMAIN ask /\ ask'[q] = ask[q]
  <2>1. CASE pc' = [pc EXCEPT ![r] = "idle"] /\ ask' = Drop(ask, r)
    BY <2>1 DEF Drop, RequestsType
  <2>2. CASE pc' = [pc EXCEPT ![r] = "unreadable"] /\ pc[r] # "idle" /\ ask' = ask
    BY <2>2 DEF RequestsType
  <2>3. QED
    BY <2>1, <2>2
<1>6. pc' \in [Request -> Place]
  BY <1>4 DEF RequestsType, Place
<1>7. \A q \in DOMAIN ask' : pc'[q] \in Path(ask'[q].op) \cup {"decrypt", "unreadable"}
  BY <1>4, <1>5 DEF RequestsType
<1>8. DOMAIN sealed' = {q \in DOMAIN ask' : /\ ask'[q].op # "list"
                                            /\ pc'[q] \in Working \ {"encrypt"}}
  <2>1. \A q \in Request \ {r} : q \in DOMAIN ask <=> q \in DOMAIN ask'
    BY <1>4, <1>5 DEF RequestsType
  <2>2. pc'[r] \notin Working
    BY <1>4 DEF RequestsType, Working
  <2>3. QED
    BY <1>1, <1>4, <1>5, <2>1, <2>2 DEF RequestsType
<1>9. DOMAIN rows' = {q \in Request : pc'[q] = "decrypt"}
  BY <1>2, <1>4 DEF RequestsType
<1>10. QED
  BY <1>1, <1>2, <1>3, <1>5, <1>6, <1>7, <1>8, <1>9 DEF RequestsType

LEMMA AnsweredType ==
    ASSUME RequestsType, NEW r \in Request, Answered(r)
    PROVE  RequestsType'
  BY ReturnType DEF Answered

\* A request that has its rows has nothing shown yet.
LEMMA RespondType ==
    ASSUME RequestsType, NEW r \in Request, NEW found, Respond(r, found),
           pc[r] \in {"select", "insert", "update"},
           DOMAIN found \subseteq AccountId, found \in [DOMAIN found -> Account]
    PROVE  RequestsType'
<1>1. /\ pc' = [pc EXCEPT ![r] = "decrypt"] /\ UNCHANGED <<ask, sealed>>
  BY DEF Respond
<1>2. /\ DOMAIN rows' = DOMAIN rows \cup {r} /\ rows'[r] = found
      /\ \A q \in DOMAIN rows \ {r} : rows'[q] = rows[q]
  BY DEF Respond, Put
<1>3. /\ DOMAIN shown' = DOMAIN shown \cup {r} /\ shown'[r] = Empty
      /\ \A q \in DOMAIN shown \ {r} : shown'[q] = shown[q]
  BY DEF Respond, Put
<1>4. DOMAIN Empty = {} /\ Empty \in [DOMAIN Empty -> Password]
  BY DEF Empty
<1>5. pc' \in [Request -> Place] /\ DOMAIN ask' = {q \in Request : pc'[q] # "idle"}
  BY <1>1 DEF RequestsType, Place, Working
<1>6. \A q \in DOMAIN ask' : pc'[q] \in Path(ask'[q].op) \cup {"decrypt", "unreadable"}
  BY <1>1 DEF RequestsType
<1>7. DOMAIN sealed' = {q \in DOMAIN ask' : /\ ask'[q].op # "list"
                                            /\ pc'[q] \in Working \ {"encrypt"}}
  <2>1. pc[r] \in Working \ {"encrypt"} /\ pc'[r] \in Working \ {"encrypt"}
    BY <1>1 DEF RequestsType, Working
  <2>2. QED
    BY <1>1, <2>1 DEF RequestsType
<1>8. DOMAIN rows' = {q \in Request : pc'[q] = "decrypt"}
  BY <1>1, <1>2 DEF RequestsType
<1>9. \A q \in DOMAIN rows' :
          /\ DOMAIN rows'[q] \subseteq AccountId
          /\ rows'[q] \in [DOMAIN rows'[q] -> Account]
  BY <1>2 DEF RequestsType
<1>10. \A q \in DOMAIN shown' :
          /\ DOMAIN shown'[q] \subseteq AccountId
          /\ shown'[q] \in [DOMAIN shown'[q] -> Password]
  BY <1>3, <1>4 DEF RequestsType
<1>11. QED
  BY <1>1, <1>2, <1>3, <1>5, <1>6, <1>7, <1>8, <1>9, <1>10 DEF RequestsType

LEMMA ReceiveType ==
    ASSUME RequestsType, NEW r \in Request, NEW request \in Ask, Receive(r, request)
    PROVE  RequestsType'
<1>1. PICK p \in {"select", "encrypt"} :
        /\ pc' = [pc EXCEPT ![r] = p]
        /\ p \in Path(request.op)
  BY DEF Receive, Ask, Path
<1>2. /\ DOMAIN ask' = DOMAIN ask \cup {r} /\ ask'[r] = request
      /\ \A q \in DOMAIN ask \ {r} : ask'[q] = ask[q]
      /\ ask' \in [DOMAIN ask' -> Ask]
  BY DEF Receive, Put, RequestsType
<1>3. pc[r] \notin Working /\ UNCHANGED <<sealed, rows, shown>>
  BY DEF Receive
<1>4. pc' \in [Request -> Place] /\ DOMAIN ask' = {q \in Request : pc'[q] # "idle"}
  BY <1>1, <1>2 DEF RequestsType, Place, Working
<1>5. \A q \in DOMAIN ask' : pc'[q] \in Path(ask'[q].op) \cup {"decrypt", "unreadable"}
  BY <1>1, <1>2 DEF RequestsType
<1>6. DOMAIN sealed' = {q \in DOMAIN ask' : /\ ask'[q].op # "list"
                                            /\ pc'[q] \in Working \ {"encrypt"}}
  <2>1. r \notin DOMAIN sealed
    BY <1>3 DEF RequestsType
  <2>2. pc'[r] = "encrypt" \/ ask'[r].op = "list"
    BY <1>1, <1>2 DEF RequestsType, Receive
  <2>3. QED
    BY <1>1, <1>2, <1>3, <2>1, <2>2 DEF RequestsType
<1>7. DOMAIN rows' = {q \in Request : pc'[q] = "decrypt"}
  BY <1>1, <1>3 DEF RequestsType, Working
<1>8. QED
  BY <1>2, <1>3, <1>4, <1>5, <1>6, <1>7 DEF RequestsType

LEMMA EncryptType ==
    ASSUME TypeOK, NEW r \in Request, Encrypt(r)
    PROVE  TypeOK'
<1>1. /\ pc[r] = "encrypt" /\ r \in DOMAIN ask
      /\ ask[r].op \in {"create", "update"}
      /\ ask[r].passer \in DOMAIN keyOf
      /\ UNCHANGED <<accounts, keyOf, ask, rows, shown, stored>>
  BY AskType, TypeParts DEF Encrypt, Crypto!Encrypt, TypeOK, Path
<1>2. [user |-> ask[r].passer, key |-> keyOf[ask[r].passer],
       password |-> ask[r].password] \in Text
  BY <1>1, AskType, TypeParts DEF Text, TypeOK
<1>3. issued' \subseteq [user : Spelling, key : Key]
  BY <1>1, AskType, TypeParts DEF Encrypt, Crypto!Encrypt, TypeOK
<1>4. DOMAIN sealed' = DOMAIN sealed \cup {r} /\ sealed' \in [DOMAIN sealed' -> Text]
  BY <1>2 DEF Encrypt, Put, TypeOK
<1>5. PICK p \in {"insert", "get"} :
        pc' = [pc EXCEPT ![r] = p] /\ p \in Path(ask[r].op)
  BY <1>1 DEF Encrypt, Path
<1>6. /\ pc' \in [Request -> Place]
      /\ DOMAIN ask' = {q \in Request : pc'[q] # "idle"}
      /\ DOMAIN rows' = {q \in Request : pc'[q] = "decrypt"}
  BY <1>1, <1>5 DEF TypeOK, Place, Working
<1>7. \A q \in DOMAIN ask' : pc'[q] \in Path(ask'[q].op) \cup {"decrypt", "unreadable"}
  BY <1>1, <1>5 DEF TypeOK
<1>8. DOMAIN sealed' = {q \in DOMAIN ask' : /\ ask'[q].op # "list"
                                            /\ pc'[q] \in Working \ {"encrypt"}}
  BY <1>1, <1>4, <1>5 DEF TypeOK, Working
<1>9. QED
  BY <1>1, <1>3, <1>4, <1>6, <1>7, <1>8 DEF TypeOK

LEMMA DecryptType ==
    ASSUME TypeOK, NEW r \in Request, Decrypt(r)
    PROVE  TypeOK'
<1>1. TablesType' /\ r \in DOMAIN rows
  BY TypeParts DEF Decrypt, crypto, TablesType, TypeOK
<1>2. PICK id \in DOMAIN rows[r] :
        \/ /\ shown' = [shown EXCEPT ![r] = Put(@, id, rows[r][id].text.password)]
           /\ rows' = [rows EXCEPT ![r] = Drop(@, id)]
           /\ UNCHANGED <<pc, ask, sealed>>
        \/ /\ pc' = [pc EXCEPT ![r] = "unreadable"]
           /\ Return(r)
           /\ UNCHANGED ask
  BY DEF Decrypt
<1>3. CASE /\ shown' = [shown EXCEPT ![r] = Put(@, id, rows[r][id].text.password)]
           /\ rows' = [rows EXCEPT ![r] = Drop(@, id)]
           /\ UNCHANGED <<pc, ask, sealed>>
  <2>1. /\ id \in AccountId /\ rows[r][id] \in Account
        /\ rows[r][id].text.password \in Password
    BY <1>1 DEF TypeOK, Account, Text
  <2>2. /\ DOMAIN rows' = DOMAIN rows
        /\ \A q \in DOMAIN rows \ {r} : rows'[q] = rows[q]
        /\ rows'[r] = Drop(rows[r], id)
    BY <1>1, <1>3
  <2>3. DOMAIN rows'[r] \subseteq AccountId /\ rows'[r] \in [DOMAIN rows'[r] -> Account]
    BY <1>1, <2>2 DEF Drop, TypeOK
  <2>4. /\ DOMAIN shown' = DOMAIN shown
        /\ \A q \in DOMAIN shown \ {r} : shown'[q] = shown[q]
        /\ shown'[r] = Put(shown[r], id, rows[r][id].text.password)
    BY <1>1, <1>3 DEF TypeOK
  <2>5. DOMAIN shown'[r] \subseteq AccountId /\ shown'[r] \in [DOMAIN shown'[r] -> Password]
    BY <1>1, <2>1, <2>4 DEF Put, TypeOK
  <2>6. RequestsType'
    BY <1>3, <2>2, <2>3, <2>4, <2>5 DEF RequestsType, TypeOK
  <2>7. QED
    BY <1>1, <2>6, TypeParts DEF TypeOK, TablesType, RequestsType
<1>4. CASE /\ pc' = [pc EXCEPT ![r] = "unreadable"]
           /\ Return(r)
           /\ UNCHANGED ask
  <2>1. RequestsType' 
    BY <1>1, <1>4, ReturnType, TypeParts DEF Decrypt
  <2>2. QED
    BY <1>1, <2>1 DEF TypeOK, TablesType, RequestsType
<1>5. QED
  BY <1>2, <1>3, <1>4

\* A row that is written is an account, and its id an id.
LEMMA WriteType ==
    ASSUME TypeOK, NEW id \in AccountId, NEW row \in Account, Write(id, row)
    PROVE  /\ DOMAIN accounts' \subseteq AccountId
           /\ accounts' \in [DOMAIN accounts' -> Account]
           /\ accounts'[id] = row
           /\ id \in DOMAIN accounts'
           /\ stored' \subseteq Stored
<1>1. [id |-> id, passer |-> row.passer, text |-> row.text] \in Stored
  BY DEF Account, Stored
<1>2. QED
  BY <1>1 DEF Write, Put, TypeOK

\* The row a request inserts or overwrites, and that it may.
LEMMA InsertRow ==
    ASSUME TypeOK, NEW r \in Request, pc[r] = "insert"
    PROVE  /\ r \in DOMAIN ask /\ ask[r].op = "create" /\ r \in DOMAIN sealed
           /\ [passer |-> Passer(r), text |-> sealed[r]] \in Account
<1>1. r \in DOMAIN ask /\ ask[r].op = "create"
  BY AskType, TypeParts DEF TypeOK, Path
<1>2. r \in DOMAIN sealed /\ sealed[r] \in Text
  BY <1>1 DEF TypeOK, Working
<1>3. QED
  BY <1>1, <1>2, AskType, TypeParts DEF Account

LEMMA UpdateRow ==
    ASSUME TypeOK, NEW r \in Request, pc[r] = "update", Matches(r)
    PROVE  /\ r \in DOMAIN ask /\ ask[r].op = "update" /\ r \in DOMAIN sealed
           /\ ask[r].id \in AccountId
           /\ [accounts[ask[r].id] EXCEPT !.text = sealed[r]]
                = [passer |-> Passer(r), text |-> sealed[r]]
           /\ [passer |-> Passer(r), text |-> sealed[r]] \in Account
<1>1. r \in DOMAIN ask /\ ask[r].op = "update"
  BY AskType, TypeParts DEF TypeOK, Path
<1>2. r \in DOMAIN sealed /\ sealed[r] \in Text
  BY <1>1 DEF TypeOK, Working
<1>3. accounts[ask[r].id] \in Account /\ accounts[ask[r].id].passer = Passer(r)
  BY DEF Matches, TypeOK
<1>4. QED
  BY <1>1, <1>2, <1>3, AskType, TypeParts DEF Account

LEMMA StatementType ==
    ASSUME TypeOK, NEW r \in Request,
           ListAccounts(r) \/ CreateAccount(r) \/ UpdateAccount(r)
    PROVE  TypeOK'
<1>1. CASE ListAccounts(r)
  <2>1. PICK own \in SUBSET (DOMAIN accounts) :
          Respond(r, [id \in own |-> accounts[id]])
    BY <1>1 DEF ListAccounts
  <2>2. /\ DOMAIN [id \in own |-> accounts[id]] \subseteq AccountId
        /\ [id \in own |-> accounts[id]] \in [DOMAIN [id \in own |-> accounts[id]] -> Account]
    BY DEF TypeOK
  <2>3. RequestsType'
    BY <1>1, <2>1, <2>2, RespondType, TypeParts DEF ListAccounts
  <2>4. QED
    BY <1>1, <2>3 DEF ListAccounts, crypto, TypeOK, RequestsType
<1>2. CASE CreateAccount(r)
  <2> DEFINE row == [passer |-> Passer(r), text |-> sealed[r]]
  <2>1. PICK id \in AccountId : /\ InsertAccount(r, id)
                                /\ Respond(r, Put(Empty, id, accounts'[id]))
    BY <1>2 DEF CreateAccount
  <2>2. pc[r] = "insert" /\ row \in Account /\ UNCHANGED crypto
    BY <1>2, InsertRow DEF CreateAccount
  <2>3. /\ DOMAIN accounts' \subseteq AccountId
        /\ accounts' \in [DOMAIN accounts' -> Account]
        /\ accounts'[id] = row
        /\ stored' \subseteq Stored
    BY <2>1, <2>2, WriteType DEF InsertAccount
  <2>4. /\ DOMAIN Put(Empty, id, row) = {id}
        /\ Put(Empty, id, row) \in [{id} -> Account]
    BY <2>2 DEF Put, Empty
  <2>5. RequestsType'
    BY <2>1, <2>2, <2>3, <2>4, RespondType, TypeParts
  <2>6. QED
    BY <2>2, <2>3, <2>5 DEF crypto, TypeOK, RequestsType
<1>3. CASE UpdateAccount(r)
  <2> DEFINE id  == ask[r].id
             row == [passer |-> Passer(r), text |-> sealed[r]]
  <2>1. pc[r] = "update" /\ UNCHANGED crypto
    BY <1>3 DEF UpdateAccount
  <2>2. CASE OverwriteAccount(r) /\ Respond(r, Put(Empty, id, RowAfter(r)))
    <3>1. /\ id \in AccountId /\ row \in Account
          /\ Write(id, row)
      BY <2>1, <2>2, UpdateRow DEF OverwriteAccount
    <3>2. /\ DOMAIN accounts' \subseteq AccountId
          /\ accounts' \in [DOMAIN accounts' -> Account]
          /\ RowAfter(r) = row
          /\ stored' \subseteq Stored
      BY <3>1, WriteType DEF RowAfter
    <3>3. /\ DOMAIN Put(Empty, id, row) = {id}
          /\ Put(Empty, id, row) \in [{id} -> Account]
      BY <3>1 DEF Put, Empty
    <3>4. RequestsType'
      BY <2>1, <2>2, <3>1, <3>2, <3>3, RespondType, TypeParts
    <3>5. QED
      BY <2>1, <3>2, <3>4 DEF crypto, TypeOK, RequestsType
  <2>3. CASE Answered(r) /\ UNCHANGED <<accounts, stored>>
    <3>1. RequestsType'
      BY <2>3, AnsweredType, TypeParts
    <3>2. QED
      BY <2>1, <2>3, <3>1 DEF crypto, TypeOK, RequestsType
  <2>4. QED
    BY <1>3, <2>2, <2>3 DEF UpdateAccount
<1>4. QED
  BY <1>1, <1>2, <1>3

LEMMA GetType ==
    ASSUME TypeOK, NEW r \in Request, GetAccount(r)
    PROVE  TypeOK'
<1>1. pc[r] = "get" /\ UNCHANGED <<accounts, crypto, stored>>
  BY DEF GetAccount
<1>2. CASE pc' = [pc EXCEPT ![r] = "update"] /\ UNCHANGED <<ask, sealed, rows, shown>>
  <2>1. r \in DOMAIN ask /\ ask[r].op = "update"
    BY <1>1, AskType, TypeParts DEF TypeOK, Path
  <2>2. "update" \in Path(ask[r].op)
    BY <2>1 DEF Path
  <2>3. /\ pc' \in [Request -> Place]
        /\ DOMAIN ask' = {q \in Request : pc'[q] # "idle"}
        /\ DOMAIN rows' = {q \in Request : pc'[q] = "decrypt"}
    BY <1>1, <1>2 DEF TypeOK, Place, Working
  <2>4. \A q \in DOMAIN ask' : pc'[q] \in Path(ask'[q].op) \cup {"decrypt", "unreadable"}
    BY <1>2, <2>2 DEF TypeOK
  <2>5. DOMAIN sealed' = {q \in DOMAIN ask' : /\ ask'[q].op # "list"
                                              /\ pc'[q] \in Working \ {"encrypt"}}
    BY <1>1, <1>2 DEF TypeOK, Working
  <2>6. QED
    BY <1>1, <1>2, <2>3, <2>4, <2>5 DEF crypto, TypeOK
<1>3. CASE Answered(r)
  <2>1. RequestsType'
    BY <1>3, AnsweredType, TypeParts
  <2>2. QED
    BY <1>1, <2>1 DEF crypto, TypeOK, RequestsType
<1>4. QED
  BY <1>2, <1>3 DEF GetAccount

LEMMA FailType ==
    ASSUME TypeOK, NEW r \in Request, Fail(r)
    PROVE  TypeOK'
<1>1. RequestsType'
  BY AnsweredType, TypeParts DEF Fail
<1>2. /\ DOMAIN accounts' \subseteq AccountId
      /\ accounts' \in [DOMAIN accounts' -> Account]
      /\ stored' \subseteq Stored
  <2>1. CASE UNCHANGED <<accounts, stored>>
    BY <2>1 DEF TypeOK
  <2>2. CASE pc[r] = "insert" /\ \E id \in AccountId : InsertAccount(r, id)
    BY <2>2, InsertRow, WriteType DEF InsertAccount
  <2>3. CASE pc[r] = "update" /\ OverwriteAccount(r)
    BY <2>3, UpdateRow, WriteType DEF OverwriteAccount
  <2>4. QED
    BY <2>1, <2>2, <2>3 DEF Fail
<1>3. QED
  BY <1>1, <1>2 DEF Fail, crypto, TypeOK, RequestsType

LEMMA TypeStep == TypeOK /\ [Next]_vars => TypeOK'
<1> SUFFICES ASSUME TypeOK, [Next]_vars
             PROVE  TypeOK'
  OBVIOUS
<1>1. ASSUME NEW r \in Request, NEW request \in Ask, Receive(r, request)
      PROVE  TypeOK'
  <2>1. RequestsType'
    BY <1>1, ReceiveType, TypeParts
  <2>2. QED
    BY <1>1, <2>1 DEF Receive, crypto, TypeOK, RequestsType
<1>2. ASSUME NEW r \in Request, GetOrCreateUserKey(r)
      PROVE  TypeOK'
  <2>1. \A u \in CalledFor(r) : u \in Spelling
    <3>1. ASSUME pc[r] = "encrypt" PROVE ask[r].passer \in Spelling
      BY <3>1, AskType, TypeParts DEF TypeOK
    <3>2. ASSUME pc[r] = "decrypt", NEW id \in DOMAIN rows[r]
          PROVE  rows[r][id].passer \in Spelling
      BY <3>2, VaultAssumption DEF TypeOK, Account
    <3>3. QED
      BY <3>1, <3>2 DEF CalledFor
  <2>2. /\ DOMAIN keyOf' \subseteq Spelling
        /\ keyOf' \in [DOMAIN keyOf' -> Key]
        /\ issued' = issued
    BY <1>2, <2>1 DEF GetOrCreateUserKey, Choose, Crypto!Choose, TypeOK
  <2>3. QED
    BY <1>2, <2>2 DEF GetOrCreateUserKey, requests, TypeOK
<1>3. ASSUME NEW r \in Request, Reply(r)
      PROVE  TypeOK'
  <2>1. RequestsType'
    BY <1>3, AnsweredType, TypeParts DEF Reply
  <2>2. QED
    BY <1>3, <2>1 DEF Reply, crypto, TypeOK, RequestsType
<1>4. ASSUME NEW id \in AccountId, NEW u \in User, DeleteAccount(id, u)
      PROVE  TypeOK'
  BY <1>4 DEF DeleteAccount, Drop, crypto, requests, TypeOK
<1>5. CASE UNCHANGED vars
  BY <1>5 DEF vars, crypto, requests, TypeOK
<1>6. QED
  BY <1>1, <1>2, <1>3, <1>4, <1>5, EncryptType, DecryptType, StatementType,
     GetType, FailType DEF Next

-----------------------------------------------------------------------------
(* The inductive invariant                                                 *)

\* What IInv says of one request.
RequestSound(r) ==
    /\ r \in DOMAIN sealed => /\ Sound(sealed[r])
                              /\ sealed[r].user = ask[r].passer
                              /\ sealed[r].password = ask[r].password
    /\ r \in DOMAIN rows => \A id \in DOMAIN rows[r] :
          /\ WasStored(id, rows[r][id])
          /\ rows[r][id].passer = Passer(r)
          /\ ask[r].op # "list" => rows[r][id].text.password = ask[r].password
    /\ r \in DOMAIN shown => \A id \in DOMAIN shown[r] :
          /\ \E s \in stored : /\ s.id = id
                               /\ s.passer = Passer(r)
                               /\ s.text.user = s.passer
                               /\ s.text.password = shown[r][id]
          /\ ask[r].op # "list" => shown[r][id] = ask[r].password
    /\ pc[r] = "unreadable" =>
          \E s \in stored : s.passer = Passer(r) /\ s.text.user # s.passer

\* What IInv says of the tables.
TablesSound ==
    /\ KeysDiffer
    /\ \A s \in stored : Sound(s.text)
    /\ \A id \in DOMAIN accounts : WasStored(id, accounts[id])

AllSound == TypeOK /\ TablesSound /\ \A r \in Request : RequestSound(r)

LEMMA InvParts == IInv <=> AllSound
<1> DEFINE Requests == \A r \in Request : RequestSound(r)
<1>1. ASSUME TypeOK
      PROVE  /\ DOMAIN sealed \subseteq Request /\ DOMAIN rows \subseteq Request
             /\ DOMAIN shown \subseteq Request
  BY <1>1 DEF TypeOK
<1>2. ASSUME IInv PROVE TablesSound /\ Requests
  <2>1. TablesSound
    BY <1>2 DEF IInv, TablesSound, TextsAreSound, RowsWereStored
  <2>2. ASSUME NEW r \in Request PROVE RequestSound(r)
    BY <1>2 DEF IInv, RequestSound, TextsAreSound, RowsWereStored, ShownWasSaved,
                UnreadableIfMisspelt
  <2>3. QED
    BY <2>1, <2>2
<1>3. ASSUME TypeOK, TablesSound, Requests PROVE IInv
  <2>1. TextsAreSound
    BY <1>1, <1>3 DEF TablesSound, TextsAreSound, RequestSound
  <2>2. RowsWereStored
    BY <1>1, <1>3 DEF TablesSound, RowsWereStored, RequestSound
  <2>3. ShownWasSaved
    BY <1>1, <1>3 DEF ShownWasSaved, RequestSound
  <2>4. UnreadableIfMisspelt
    BY <1>3 DEF UnreadableIfMisspelt, RequestSound
  <2>5. QED
    BY <1>3, <2>1, <2>2, <2>3, <2>4 DEF IInv, TablesSound
<1>4. QED
  BY <1>2, <1>3 DEF IInv, AllSound

\* Key pairs and rows come, and none of them goes or changes.
Grows ==
    /\ \A u \in DOMAIN keyOf : u \in DOMAIN keyOf' /\ keyOf'[u] = keyOf[u]
    /\ stored \subseteq stored'

\* A step leaves the locals of r as they are, or drops them.
Keeps(r) ==
    /\ r \in DOMAIN sealed' => /\ r \in DOMAIN sealed /\ sealed'[r] = sealed[r]
                               /\ ask'[r] = ask[r]
    /\ r \in DOMAIN rows' => /\ r \in DOMAIN rows /\ rows'[r] = rows[r]
                             /\ ask'[r] = ask[r]
    /\ r \in DOMAIN shown' => /\ r \in DOMAIN shown /\ shown'[r] = shown[r]
                              /\ ask'[r] = ask[r]
    /\ pc'[r] = "unreadable" => pc[r] = "unreadable" /\ ask'[r] = ask[r]

LEMMA KeepsSound ==
    ASSUME NEW r, RequestSound(r), Grows, Keeps(r)
    PROVE  RequestSound(r)'
<1>1. r \in DOMAIN sealed' => /\ Sound(sealed[r])'
                              /\ sealed'[r].user = ask'[r].passer
                              /\ sealed'[r].password = ask'[r].password
  BY DEF RequestSound, Grows, Keeps, Sound
<1>2. r \in DOMAIN rows' => \A id \in DOMAIN rows'[r] :
          /\ WasStored(id, rows[r][id])'
          /\ rows'[r][id].passer = Passer(r)'
          /\ ask'[r].op # "list" => rows'[r][id].text.password = ask'[r].password
  BY DEF RequestSound, Grows, Keeps, WasStored, Passer
<1>3. r \in DOMAIN shown' => \A id \in DOMAIN shown'[r] :
          /\ \E s \in stored' : /\ s.id = id
                                /\ s.passer = Passer(r)'
                                /\ s.text.user = s.passer
                                /\ s.text.password = shown'[r][id]
          /\ ask'[r].op # "list" => shown'[r][id] = ask'[r].password
  BY DEF RequestSound, Grows, Keeps, Passer
<1>4. pc'[r] = "unreadable" =>
          \E s \in stored' : s.passer = Passer(r)' /\ s.text.user # s.passer
  BY DEF RequestSound, Grows, Keeps, Passer
<1>5. QED
  BY <1>1, <1>2, <1>3, <1>4 DEF RequestSound

\* A step of r does to another request nothing.
LEMMA OthersKeep ==
    ASSUME TypeOK, NEW r \in Request, NEW q \in Request, q # r,
           \/ Answered(r)
           \/ Return(r) /\ pc' = [pc EXCEPT ![r] = "unreadable"] /\ UNCHANGED ask
           \/ \E found : Respond(r, found)
    PROVE  Keeps(q)
<1>1. CASE Answered(r)
  BY <1>1 DEF Answered, Return, Drop, Keeps, TypeOK
<1>2. CASE Return(r) /\ pc' = [pc EXCEPT ![r] = "unreadable"] /\ UNCHANGED ask
  BY <1>2 DEF Return, Drop, Keeps, TypeOK
<1>3. CASE \E found : Respond(r, found)
  BY <1>3 DEF Respond, Put, Keeps, TypeOK
<1>4. QED
  BY <1>1, <1>2, <1>3

LEMMA AnsweredKeeps ==
    ASSUME TypeOK, NEW r \in Request, Answered(r)
    PROVE  Keeps(r)
  BY DEF Answered, Return, Drop, Keeps, TypeOK

\* The rows a request is about to respond with.
LEMMA RespondSound ==
    ASSUME TypeOK, NEW r \in Request, NEW found, Respond(r, found),
           RequestSound(r), Grows,
           \A id \in DOMAIN found :
              /\ [id |-> id, passer |-> found[id].passer, text |-> found[id].text]
                   \in stored'
              /\ found[id].passer = Passer(r)
              /\ ask[r].op # "list" => found[id].text.password = ask[r].password
    PROVE  RequestSound(r)'
<1>1. /\ ask' = ask /\ sealed' = sealed /\ pc'[r] = "decrypt"
      /\ r \in DOMAIN rows' /\ rows'[r] = found
      /\ r \in DOMAIN shown' /\ DOMAIN shown'[r] = {}
  BY DEF Respond, Put, Empty, TypeOK
<1>2. Passer(r)' = Passer(r)
  BY <1>1 DEF Passer
<1>3. r \in DOMAIN sealed' => /\ Sound(sealed[r])'
                              /\ sealed'[r].user = ask'[r].passer
                              /\ sealed'[r].password = ask'[r].password
  BY <1>1 DEF RequestSound, Grows, Sound
<1>4. \A id \in DOMAIN rows'[r] :
          /\ WasStored(id, rows[r][id])'
          /\ rows'[r][id].passer = Passer(r)'
          /\ ask'[r].op # "list" => rows'[r][id].text.password = ask'[r].password
  BY <1>1, <1>2 DEF WasStored
<1>5. QED
  BY <1>1, <1>3, <1>4 DEF RequestSound

\* An insertion or an overwriting stores a sound ciphertext of its request's.
LEMMA WriteSound ==
    ASSUME IInv, NEW r \in Request, r \in DOMAIN sealed,
           NEW id \in AccountId, Write(id, [passer |-> Passer(r), text |-> sealed[r]]),
           UNCHANGED keyOf
    PROVE  /\ TablesSound' /\ Grows
           /\ accounts'[id] = [passer |-> Passer(r), text |-> sealed[r]]
           /\ [id |-> id, passer |-> Passer(r), text |-> sealed[r]] \in stored'
           /\ sealed[r].user = ask[r].passer
           /\ sealed[r].password = ask[r].password
<1> DEFINE row   == [passer |-> Passer(r), text |-> sealed[r]]
           entry == [id |-> id, passer |-> Passer(r), text |-> sealed[r]]
<1>1. /\ Sound(sealed[r])
      /\ sealed[r].user = ask[r].passer /\ sealed[r].password = ask[r].password
  BY DEF IInv, TextsAreSound
<1>2. /\ stored' = stored \cup {entry}
      /\ DOMAIN accounts' = DOMAIN accounts \cup {id}
      /\ accounts'[id] = row
      /\ \A b \in DOMAIN accounts \ {id} : accounts'[b] = accounts[b]
  BY DEF Write, Put
<1>3. Grows
  BY <1>2 DEF Grows
<1>4. KeysDiffer'
  BY DEF IInv, KeysDiffer
<1>5. \A s \in stored' : Sound(s.text)'
  BY <1>1, <1>2 DEF IInv, TextsAreSound, Sound
<1>6. WasStored(id, accounts[id])'
  BY <1>2 DEF WasStored
<1>7. \A b \in DOMAIN accounts \ {id} : WasStored(b, accounts[b])'
  BY <1>2 DEF IInv, RowsWereStored, WasStored
<1>8. TablesSound'
  BY <1>2, <1>4, <1>5, <1>6, <1>7 DEF TablesSound
<1>9. QED
  BY <1>1, <1>2, <1>3, <1>8

\* The tables as they were are sound.
LEMMA TablesStay ==
    ASSUME IInv, UNCHANGED <<keyOf, accounts, stored>>
    PROVE  TablesSound' /\ Grows
<1>1. TablesSound
  BY InvParts DEF AllSound
<1>2. QED
  BY <1>1 DEF TablesSound, KeysDiffer, Sound, WasStored, Grows

LEMMA KeyStep ==
    ASSUME IInv, NEW r \in Request, GetOrCreateUserKey(r)
    PROVE  TablesSound' /\ \A q \in Request : RequestSound(q)'
<1>1. PICK u \in CalledFor(r), k \in Key :
        /\ u \notin DOMAIN keyOf
        /\ \A v \in DOMAIN keyOf : keyOf[v] # k
        /\ keyOf' = [v \in DOMAIN keyOf \cup {u} |-> IF v = u THEN k ELSE keyOf[v]]
  BY DEF GetOrCreateUserKey, Choose, Crypto!Choose
<1>2. UNCHANGED <<accounts, requests, stored>> /\ TablesSound
      /\ \A q \in Request : RequestSound(q)
  BY InvParts DEF GetOrCreateUserKey, AllSound
<1>3. Grows
  BY <1>1, <1>2 DEF Grows
<1>4. KeysDiffer'
  BY <1>1, <1>2 DEF TablesSound, KeysDiffer
<1>5. TablesSound'
  BY <1>2, <1>3, <1>4 DEF TablesSound, Grows, Sound, WasStored
<1>6. \A q \in Request : Keeps(q)
  BY <1>2 DEF requests, Keeps
<1>7. QED
  BY <1>2, <1>3, <1>5, <1>6, KeepsSound

LEMMA EncryptStep ==
    ASSUME IInv, NEW r \in Request, Encrypt(r)
    PROVE  TablesSound' /\ \A q \in Request : RequestSound(q)'
<1> DEFINE text == [user |-> ask[r].passer, key |-> keyOf[ask[r].passer],
                    password |-> ask[r].password]
<1>1. TypeOK /\ \A q \in Request : RequestSound(q)
  BY InvParts DEF AllSound
<1>2. /\ UNCHANGED <<accounts, keyOf, ask, rows, shown, stored>>
      /\ ask[r].passer \in DOMAIN keyOf
      /\ DOMAIN sealed' = DOMAIN sealed \cup {r} /\ sealed'[r] = text
      /\ \A q \in DOMAIN sealed \ {r} : sealed'[q] = sealed[q]
  BY DEF Encrypt, Crypto!Encrypt, Put
<1>3. /\ \A q \in Request \ {r} : pc'[q] = pc[q]
      /\ pc'[r] # "unreadable" /\ r \notin DOMAIN rows /\ r \notin DOMAIN shown
  BY <1>1 DEF Encrypt, TypeOK
<1>4. TablesSound' /\ Grows
  BY <1>2, TablesStay
<1>5. RequestSound(r)'
  BY <1>2, <1>3 DEF RequestSound, Sound
<1>6. \A q \in Request \ {r} : Keeps(q)
  BY <1>2, <1>3 DEF Keeps
<1>7. QED
  BY <1>1, <1>4, <1>5, <1>6, KeepsSound

\* A password that opens was encrypted under its passer's own id; one that
\* does not, was not.
LEMMA OpensIfWellSpelt ==
    ASSUME IInv, NEW r \in DOMAIN rows, NEW id \in DOMAIN rows[r],
           rows[r][id].passer \in DOMAIN keyOf
    PROVE  Opens(rows[r][id]) <=> rows[r][id].text.user = rows[r][id].passer
<1>1. WasStored(id, rows[r][id]) /\ KeysDiffer
  BY DEF IInv, RowsWereStored
<1>2. Sound(rows[r][id].text)
  BY <1>1 DEF IInv, TextsAreSound, WasStored
<1>3. QED
  BY <1>1, <1>2 DEF Opens, Sound, KeysDiffer

LEMMA DecryptStep ==
    ASSUME IInv, NEW r \in Request, Decrypt(r)
    PROVE  TablesSound' /\ \A q \in Request : RequestSound(q)'
<1>1. TypeOK /\ (\A q \in Request : RequestSound(q)) /\ r \in DOMAIN rows
  BY InvParts DEF Decrypt, TypeOK, AllSound
<1>2. TablesSound' /\ Grows /\ UNCHANGED <<accounts, keyOf, stored>>
  BY TablesStay DEF Decrypt, crypto
<1>3. PICK id \in DOMAIN rows[r] :
        /\ rows[r][id].passer \in DOMAIN keyOf
        /\ \/ /\ Opens(rows[r][id])
              /\ shown' = [shown EXCEPT ![r] = Put(@, id, rows[r][id].text.password)]
              /\ rows' = [rows EXCEPT ![r] = Drop(@, id)]
              /\ UNCHANGED <<pc, ask, sealed>>
           \/ /\ ~Opens(rows[r][id])
              /\ pc' = [pc EXCEPT ![r] = "unreadable"]
              /\ Return(r)
              /\ UNCHANGED ask
  BY DEF Decrypt
<1> DEFINE row   == rows[r][id]
           entry == [id |-> id, passer |-> row.passer, text |-> row.text]
<1>4. /\ entry \in stored /\ row.passer = Passer(r)
      /\ ask[r].op # "list" => row.text.password = ask[r].password
  BY <1>1 DEF RequestSound, WasStored
<1>5. Opens(row) <=> row.text.user = row.passer
  BY <1>1, <1>3, OpensIfWellSpelt
<1>6. CASE /\ Opens(row)
           /\ shown' = [shown EXCEPT ![r] = Put(@, id, row.text.password)]
           /\ rows' = [rows EXCEPT ![r] = Drop(@, id)]
           /\ UNCHANGED <<pc, ask, sealed>>
  <2>1. /\ DOMAIN rows' = DOMAIN rows
        /\ \A q \in DOMAIN rows \ {r} : rows'[q] = rows[q]
        /\ \A b \in DOMAIN rows'[r] : b \in DOMAIN rows[r] /\ rows'[r][b] = rows[r][b]
    BY <1>1, <1>6 DEF Drop
  <2>2. /\ DOMAIN shown' = DOMAIN shown /\ r \in DOMAIN shown
        /\ \A q \in DOMAIN shown \ {r} : shown'[q] = shown[q]
        /\ DOMAIN shown'[r] = DOMAIN shown[r] \cup {id}
        /\ shown'[r][id] = row.text.password
        /\ \A b \in DOMAIN shown[r] \ {id} : shown'[r][b] = shown[r][b]
    BY <1>1, <1>6 DEF Put, TypeOK
  <2>3. Passer(r)' = Passer(r) /\ pc[r] # "unreadable"
    BY <1>1, <1>6 DEF Passer, TypeOK
  <2>4. \A b \in DOMAIN rows'[r] :
          /\ WasStored(b, rows[r][b])'
          /\ rows'[r][b].passer = Passer(r)'
          /\ ask'[r].op # "list" => rows'[r][b].text.password = ask'[r].password
    BY <1>1, <1>2, <1>6, <2>1, <2>3 DEF RequestSound, WasStored
  <2>5. \A b \in DOMAIN shown'[r] :
          /\ \E s \in stored' : /\ s.id = b
                                /\ s.passer = Passer(r)'
                                /\ s.text.user = s.passer
                                /\ s.text.password = shown'[r][b]
          /\ ask'[r].op # "list" => shown'[r][b] = ask'[r].password
    <3>1. \E s \in stored : /\ s.id = id
                            /\ s.passer = Passer(r)
                            /\ s.text.user = s.passer
                            /\ s.text.password = row.text.password
      BY <1>4, <1>5, <1>6
    <3>2. QED
      BY <1>1, <1>2, <1>4, <1>6, <2>2, <2>3, <3>1 DEF RequestSound
  <2>6. RequestSound(r)'
    BY <1>1, <1>2, <1>6, <2>3, <2>4, <2>5 DEF RequestSound, Sound
  <2>7. \A q \in Request \ {r} : Keeps(q)
    BY <1>6, <2>1, <2>2 DEF Keeps
  <2>8. QED
    BY <1>1, <1>2, <2>6, <2>7, KeepsSound
<1>7. CASE /\ ~Opens(row)
           /\ pc' = [pc EXCEPT ![r] = "unreadable"]
           /\ Return(r)
           /\ UNCHANGED ask
  <2>1. \E s \in stored : s.passer = Passer(r) /\ s.text.user # s.passer
    BY <1>4, <1>5, <1>7
  <2>2. r \notin DOMAIN sealed' /\ r \notin DOMAIN rows' /\ r \notin DOMAIN shown'
    BY <1>7 DEF Return, Drop
  <2>3. RequestSound(r)'
    BY <1>2, <1>7, <2>1, <2>2 DEF RequestSound, Passer
  <2>4. \A q \in Request \ {r} : Keeps(q)
    BY <1>1, <1>7, OthersKeep
  <2>5. QED
    BY <1>1, <1>2, <2>3, <2>4, KeepsSound
<1>8. QED
  BY <1>3, <1>6, <1>7

LEMMA ListStep ==
    ASSUME IInv, NEW r \in Request, ListAccounts(r)
    PROVE  TablesSound' /\ \A q \in Request : RequestSound(q)'
<1>1. TypeOK /\ TablesSound /\ \A q \in Request : RequestSound(q)
  BY InvParts DEF AllSound
<1>2. TablesSound' /\ Grows /\ UNCHANGED <<accounts, stored>>
  BY TablesStay DEF ListAccounts, crypto
<1>3. ask[r].op = "list"
  BY <1>1, AskType, TypeParts DEF ListAccounts, TypeOK, Path
<1>4. PICK own \in SUBSET (DOMAIN accounts) :
        /\ Respond(r, [id \in own |-> accounts[id]])
        /\ \A id \in own : accounts[id].passer = Passer(r)
  BY DEF ListAccounts
<1> DEFINE found == [id \in own |-> accounts[id]]
<1>5. \A id \in DOMAIN found :
        [id |-> id, passer |-> found[id].passer, text |-> found[id].text] \in stored'
  BY <1>1, <1>2, <1>4 DEF TablesSound, WasStored
<1>6. RequestSound(r)'
  BY <1>1, <1>2, <1>3, <1>4, <1>5, RespondSound
<1>7. \A q \in Request \ {r} : Keeps(q)
  BY <1>1, <1>4, OthersKeep
<1>8. QED
  BY <1>1, <1>2, <1>6, <1>7, KeepsSound

LEMMA CreateStep ==
    ASSUME IInv, NEW r \in Request, CreateAccount(r)
    PROVE  TablesSound' /\ \A q \in Request : RequestSound(q)'
<1> DEFINE row == [passer |-> Passer(r), text |-> sealed[r]]
<1>1. TypeOK /\ \A q \in Request : RequestSound(q)
  BY InvParts DEF AllSound
<1>2. PICK id \in AccountId : /\ Write(id, row)
                              /\ Respond(r, Put(Empty, id, accounts'[id]))
  BY DEF CreateAccount, InsertAccount
<1>3. r \in DOMAIN sealed /\ UNCHANGED keyOf
  BY <1>1, InsertRow DEF CreateAccount, crypto
<1>4. /\ TablesSound' /\ Grows
      /\ accounts'[id] = row
      /\ [id |-> id, passer |-> Passer(r), text |-> sealed[r]] \in stored'
      /\ sealed[r].password = ask[r].password
  BY <1>2, <1>3, WriteSound
<1> DEFINE found == Put(Empty, id, row)
<1>5. DOMAIN found = {id} /\ found[id] = row
  BY DEF Put, Empty
<1>6. RequestSound(r)'
  <2>1. Respond(r, found)
    BY <1>2, <1>4
  <2>2. \A b \in DOMAIN found :
          /\ [id |-> b, passer |-> found[b].passer, text |-> found[b].text]
               \in stored'
          /\ found[b].passer = Passer(r)
          /\ ask[r].op # "list" => found[b].text.password = ask[r].password
    BY <1>4, <1>5
  <2> HIDE DEF found
  <2>3. QED
    BY <1>1, <1>4, <2>1, <2>2, RespondSound
<1>7. \A q \in Request \ {r} : Keeps(q)
  BY <1>1, <1>2, OthersKeep
<1>8. QED
  BY <1>1, <1>4, <1>6, <1>7, KeepsSound

LEMMA UpdateStep ==
    ASSUME IInv, NEW r \in Request, UpdateAccount(r)
    PROVE  TablesSound' /\ \A q \in Request : RequestSound(q)'
<1> DEFINE id  == ask[r].id
           row == [passer |-> Passer(r), text |-> sealed[r]]
<1>1. TypeOK /\ \A q \in Request : RequestSound(q)
  BY InvParts DEF AllSound
<1>2. pc[r] = "update" /\ UNCHANGED <<keyOf, issued>>
  BY DEF UpdateAccount, crypto
<1>3. CASE OverwriteAccount(r) /\ Respond(r, Put(Empty, id, RowAfter(r)))
  <2>1. /\ r \in DOMAIN sealed /\ id \in AccountId /\ Write(id, row)
    BY <1>1, <1>2, <1>3, UpdateRow DEF OverwriteAccount
  <2>2. /\ TablesSound' /\ Grows
        /\ accounts'[id] = row
        /\ [id |-> id, passer |-> Passer(r), text |-> sealed[r]] \in stored'
        /\ sealed[r].password = ask[r].password
    BY <1>2, <2>1, WriteSound
  <2> DEFINE found == Put(Empty, id, row)
  <2>3. DOMAIN found = {id} /\ found[id] = row
    BY DEF Put, Empty
  <2>4. Respond(r, found)
    BY <1>3, <2>2 DEF RowAfter
  <2>5. \A b \in DOMAIN found :
          /\ [id |-> b, passer |-> found[b].passer, text |-> found[b].text]
               \in stored'
          /\ found[b].passer = Passer(r)
          /\ ask[r].op # "list" => found[b].text.password = ask[r].password
    BY <2>2, <2>3
  <2>6. RequestSound(r)'
    <3> HIDE DEF found
    <3>1. QED
      BY <1>1, <2>2, <2>4, <2>5, RespondSound
  <2>7. \A q \in Request \ {r} : Keeps(q)
    BY <1>1, <1>3, OthersKeep
  <2>8. QED
    BY <1>1, <2>2, <2>6, <2>7, KeepsSound
<1>4. CASE Answered(r) /\ UNCHANGED <<accounts, stored>>
  <2>1. TablesSound' /\ Grows
    BY <1>2, <1>4, TablesStay
  <2>2. \A q \in Request : Keeps(q)
    BY <1>1, <1>4, OthersKeep, AnsweredKeeps
  <2>3. QED
    BY <1>1, <2>1, <2>2, KeepsSound
<1>5. QED
  BY <1>3, <1>4 DEF UpdateAccount

LEMMA FailStep ==
    ASSUME IInv, NEW r \in Request, Fail(r)
    PROVE  TablesSound' /\ \A q \in Request : RequestSound(q)'
<1>1. TypeOK /\ \A q \in Request : RequestSound(q)
  BY InvParts DEF AllSound
<1>2. Answered(r) /\ UNCHANGED keyOf
  BY DEF Fail, crypto
<1>3. TablesSound' /\ Grows
  <2>1. CASE UNCHANGED <<accounts, stored>>
    BY <1>2, <2>1, TablesStay
  <2>2. CASE pc[r] = "insert" /\ \E id \in AccountId : InsertAccount(r, id)
    BY <1>1, <1>2, <2>2, InsertRow, WriteSound DEF InsertAccount
  <2>3. CASE pc[r] = "update" /\ OverwriteAccount(r)
    <3>1. /\ r \in DOMAIN sealed /\ ask[r].id \in AccountId
          /\ Write(ask[r].id, [passer |-> Passer(r), text |-> sealed[r]])
      BY <1>1, <2>3, UpdateRow DEF OverwriteAccount
    <3>2. QED
      BY <1>2, <3>1, WriteSound
  <2>4. QED
    BY <2>1, <2>2, <2>3 DEF Fail
<1>4. \A q \in Request : Keeps(q)
  BY <1>1, <1>2, OthersKeep, AnsweredKeeps
<1>5. QED
  BY <1>1, <1>3, <1>4, KeepsSound

LEMMA InvStep == IInv /\ [Next]_vars => IInv'
<1> SUFFICES ASSUME IInv, [Next]_vars
             PROVE  IInv'
  OBVIOUS
<1>1. TypeOK /\ TypeOK'
  BY TypeStep DEF IInv
<1>2. \A q \in Request : RequestSound(q)
  BY InvParts DEF AllSound
<1>3. ASSUME Grows, TablesSound', \A q \in Request : Keeps(q)
      PROVE  TablesSound' /\ \A q \in Request : RequestSound(q)'
  BY <1>2, <1>3, KeepsSound
<1>4. ASSUME NEW r \in Request, NEW request \in Ask, Receive(r, request)
      PROVE  TablesSound' /\ \A q \in Request : RequestSound(q)'
  <2>1. TablesSound' /\ Grows
    BY <1>4, TablesStay DEF Receive, crypto
  <2>2. ASSUME NEW q \in Request, q # r PROVE Keeps(q)
    BY <1>1, <1>4, <2>2 DEF Receive, Put, Keeps, TypeOK
  <2>3. Keeps(r)
    <3>1. r \notin DOMAIN sealed /\ r \notin DOMAIN rows /\ r \notin DOMAIN shown
      BY <1>1, <1>4 DEF Receive, TypeOK, Working
    <3>2. pc'[r] # "unreadable"
      BY <1>1, <1>4 DEF Receive, TypeOK
    <3>3. QED
      BY <1>4, <3>1, <3>2 DEF Receive, Keeps
  <2>4. QED
    BY <1>3, <2>1, <2>2, <2>3
<1>5. ASSUME NEW r \in Request, Reply(r)
      PROVE  TablesSound' /\ \A q \in Request : RequestSound(q)'
  BY <1>1, <1>3, <1>5, TablesStay, OthersKeep, AnsweredKeeps DEF Reply, crypto
<1>6. ASSUME NEW r \in Request, GetAccount(r)
      PROVE  TablesSound' /\ \A q \in Request : RequestSound(q)'
  <2>1. TablesSound' /\ Grows
    BY <1>6, TablesStay DEF GetAccount, crypto
  <2>2. CASE Answered(r)
    BY <1>1, <1>3, <2>1, <2>2, OthersKeep, AnsweredKeeps
  <2>3. CASE /\ pc' = [pc EXCEPT ![r] = "update"]
             /\ UNCHANGED <<ask, sealed, rows, shown>>
    <3>1. \A q \in Request : Keeps(q)
      BY <1>1, <2>3 DEF Keeps, TypeOK
    <3>2. QED
      BY <1>3, <2>1, <3>1
  <2>4. QED
    BY <1>6, <2>2, <2>3 DEF GetAccount
<1>7. ASSUME NEW id \in AccountId, NEW u \in User, DeleteAccount(id, u)
      PROVE  TablesSound' /\ \A q \in Request : RequestSound(q)'
  <2>1. UNCHANGED <<keyOf, stored, requests>> /\ accounts' = Drop(accounts, id)
    BY <1>7 DEF DeleteAccount, crypto
  <2>2. TablesSound
    BY InvParts DEF AllSound
  <2>3. TablesSound' /\ Grows
    BY <2>1, <2>2 DEF TablesSound, KeysDiffer, Sound, WasStored, Drop, Grows
  <2>4. \A q \in Request : Keeps(q)
    BY <2>1 DEF requests, Keeps
  <2>5. QED
    BY <1>3, <2>3, <2>4
<1>8. ASSUME UNCHANGED vars
      PROVE  TablesSound' /\ \A q \in Request : RequestSound(q)'
  <2>1. TablesSound' /\ Grows
    BY <1>8, TablesStay DEF vars, crypto
  <2>2. \A q \in Request : Keeps(q)
    BY <1>8 DEF vars, requests, Keeps
  <2>3. QED
    BY <1>3, <2>1, <2>2
<1>9. TablesSound' /\ \A q \in Request : RequestSound(q)'
  BY <1>4, <1>5, <1>6, <1>7, <1>8, KeyStep, EncryptStep, DecryptStep, ListStep,
     CreateStep, UpdateStep, FailStep DEF Next
<1>10. AllSound'
  BY <1>1, <1>9 DEF AllSound
<1>11. QED
  BY <1>10, InvParts, PTL

-----------------------------------------------------------------------------
(* The theorems                                                            *)

LEMMA InitInv == Init => IInv
<1> SUFFICES ASSUME Init PROVE IInv
  OBVIOUS
<1>1. /\ DOMAIN accounts = {} /\ DOMAIN ask = {} /\ DOMAIN sealed = {}
      /\ DOMAIN rows = {} /\ DOMAIN shown = {} /\ DOMAIN keyOf = {}
      /\ issued = {} /\ stored = {} /\ \A r \in Request : pc[r] = "idle"
  BY DEF Init, Empty, Crypto!Init
<1>2. TypeOK
  BY <1>1 DEF Init, Empty, Crypto!Init, TypeOK, Place
<1>3. QED
  BY <1>1, <1>2 DEF IInv, KeysDiffer, TextsAreSound, RowsWereStored, ShownWasSaved,
                    UnreadableIfMisspelt

\* The inductive invariant holds in every reachable state of the handlers.
THEOREM Invariance == Spec => []IInv
  BY InitInv, InvStep, PTL DEF Spec

\* Every password that was ever stored can be had back under the user id it was
\* encrypted for, and under no other, for ever.
THEOREM PasswordsAreKept == Spec => []NothingLost
<1>1. IInv => NothingLost
  BY DEF IInv, TypeOK, KeysDiffer, TextsAreSound, Sound, NothingLost
<1>2. QED
  BY <1>1, Invariance, PTL

\* A response shows what its account was given, and the response to a write
\* what that write gave it.
THEOREM ResponsesAreTrue == Spec => []ShownWasSaved
<1>1. IInv => ShownWasSaved
  BY DEF IInv
<1>2. QED
  BY <1>1, Invariance, PTL

\* No password is refused but those saved under another spelling.
THEOREM OnlyMisspeltAreRefused == Spec => []UnreadableIfMisspelt
<1>1. IInv => UnreadableIfMisspelt
  BY DEF IInv
<1>2. QED
  BY <1>1, Invariance, PTL

-----------------------------------------------------------------------------
(* Vault implements PasswordBook                                           *)

\* What a row says, key pairs aside: legibility is a matter of spelling.
Spelt(row) == [passer   |-> row.passer,
               password |-> row.text.password,
               legible  |-> row.text.user = row.passer]

SpeltBook == [id \in DOMAIN accounts |-> Spelt(accounts[id])]

SpeltShow(r) ==
    [id \in DOMAIN rows[r] \cup DOMAIN shown[r] |->
        IF id \in DOMAIN rows[r]
        THEN Spelt(rows[r][id])
        ELSE [passer |-> Passer(r), password |-> shown[r][id], legible |-> TRUE]]

SpeltView == [r \in DOMAIN rows |-> SpeltShow(r)]

\* That no two user ids share a key pair, and that no key pair ever changes,
\* make the two the same.
LEMMA PlainIsSpelt ==
    ASSUME IInv, NEW id, NEW row, WasStored(id, row)
    PROVE  Plain(row) = Spelt(row)
<1>1. Sound(row.text) /\ KeysDiffer
  BY DEF IInv, TextsAreSound, WasStored
<1>2. (row.passer \in DOMAIN keyOf /\ Opens(row)) = (row.text.user = row.passer)
  <2>1. CASE row.text.user = row.passer
    BY <1>1, <2>1 DEF Sound, Opens
  <2>2. CASE row.text.user # row.passer
    BY <1>1, <2>2 DEF Sound, Opens, KeysDiffer
  <2>3. QED
    BY <2>1, <2>2
<1>3. QED
  BY <1>2 DEF Plain, Spelt

LEMMA MappingIsSpelt == IInv => BookNow = SpeltBook /\ ViewNow = SpeltView
<1> SUFFICES ASSUME IInv PROVE BookNow = SpeltBook /\ ViewNow = SpeltView
  OBVIOUS
<1>1. \A id \in DOMAIN accounts : Plain(accounts[id]) = Spelt(accounts[id])
  BY PlainIsSpelt DEF IInv, RowsWereStored
<1>2. \A r \in DOMAIN rows : \A id \in DOMAIN rows[r] :
        Plain(rows[r][id]) = Spelt(rows[r][id])
  BY PlainIsSpelt DEF IInv, RowsWereStored
<1>3. \A r \in DOMAIN rows : WillShow(r) = SpeltShow(r)
  BY <1>2 DEF WillShow, SpeltShow
<1>4. QED
  BY <1>1, <1>3 DEF BookNow, SpeltBook, ViewNow, SpeltView

\* A request that is answered shows nothing any more, and the others what they
\* showed.
LEMMA AnsweredView ==
    ASSUME TypeOK, NEW r \in Request, Return(r),
           \/ pc' = [pc EXCEPT ![r] = "idle"] /\ ask' = Drop(ask, r)
           \/ UNCHANGED ask
    PROVE  SpeltView' = Drop(SpeltView, r)
<1>1. /\ DOMAIN rows' = DOMAIN rows \ {r}
      /\ \A q \in DOMAIN rows' : q \in DOMAIN rows /\ rows'[q] = rows[q]
                                 /\ shown'[q] = shown[q]
  BY DEF Return, Drop, TypeOK
<1>2. \A q \in DOMAIN rows' : ask'[q] = ask[q]
  BY <1>1 DEF Drop, TypeOK
<1>3. \A q \in DOMAIN rows' : SpeltShow(q)' = SpeltShow(q)
  BY <1>1, <1>2 DEF SpeltShow, Passer
<1>4. QED
  BY <1>1, <1>3 DEF SpeltView, Drop

\* A request that has its rows will show what they say.
LEMMA RespondView ==
    ASSUME TypeOK, NEW r \in Request, NEW found, Respond(r, found),
           pc[r] \in {"select", "insert", "update"}
    PROVE  /\ r \notin DOMAIN SpeltView
           /\ SpeltView' = Put(SpeltView, r, [id \in DOMAIN found |-> Spelt(found[id])])
           /\ RefusedNow' = RefusedNow
<1>1. r \notin DOMAIN rows
  BY DEF TypeOK
<1>2. /\ DOMAIN rows' = DOMAIN rows \cup {r} /\ rows'[r] = found
      /\ shown'[r] = Empty /\ UNCHANGED ask
      /\ \A q \in DOMAIN rows : rows'[q] = rows[q] /\ shown'[q] = shown[q]
  BY <1>1 DEF Respond, Put, TypeOK
<1>3. \A q \in DOMAIN rows : SpeltShow(q)' = SpeltShow(q)
  BY <1>2 DEF SpeltShow, Passer
<1>4. SpeltShow(r)' = [id \in DOMAIN found |-> Spelt(found[id])]
  <2>1. DOMAIN shown'[r] = {}
    BY <1>2 DEF Empty
  <2>2. QED
    BY <1>2, <2>1 DEF SpeltShow
<1>5. RefusedNow' = RefusedNow
  BY DEF Respond, RefusedNow, TypeOK
<1>6. QED
  BY <1>1, <1>2, <1>3, <1>4, <1>5 DEF SpeltView, Put

\* A write enters what it was asked to.
LEMMA WriteBook ==
    ASSUME IInv, NEW r \in DOMAIN sealed, NEW id,
           Write(id, [passer |-> Passer(r), text |-> sealed[r]])
    PROVE  /\ Spelt([passer |-> Passer(r), text |-> sealed[r]])
                = Book!Entry(ask[r].passer, ask[r].password)
           /\ SpeltBook' = Put(SpeltBook, id, Book!Entry(ask[r].passer, ask[r].password))
           /\ UsedNow' = UsedNow \cup {id}
<1> DEFINE row == [passer |-> Passer(r), text |-> sealed[r]]
<1>1. sealed[r].user = ask[r].passer /\ sealed[r].password = ask[r].password
  BY DEF IInv, TextsAreSound
<1>2. Spelt(row) = Book!Entry(ask[r].passer, ask[r].password)
  BY <1>1 DEF Spelt, Book!Entry, Passer
<1>3. SpeltBook' = Put(SpeltBook, id, Spelt(row))
  BY DEF Write, Put, SpeltBook, Spelt
<1>4. UsedNow' = UsedNow \cup {id}
  <2> DEFINE entry == [id |-> id, passer |-> row.passer, text |-> row.text]
  <2>1. stored' = stored \cup {entry} /\ entry.id = id
    BY DEF Write
  <2> HIDE DEF entry
  <2>2. {s.id : s \in stored \cup {entry}} = {s.id : s \in stored} \cup {entry.id}
    OBVIOUS
  <2>3. QED
    BY <2>1, <2>2 DEF UsedNow
<1>5. QED
  BY <1>2, <1>3, <1>4

\* The mapping before and after a step, key pairs aside.
Mapped ==
    /\ BookNow = SpeltBook /\ ViewNow = SpeltView
    /\ BookNow' = SpeltBook' /\ ViewNow' = SpeltView'

\* A step that does to the tables and the answers what an action of the book does
\* is a step of the book: begin, finish, refuse, look, write and remove.
LEMMA IsBegin ==
    ASSUME Mapped, NEW r \in Request,
           RefusedNow' = RefusedNow \ {r}, UNCHANGED <<SpeltBook, UsedNow, SpeltView>>
    PROVE  Book!Next
  BY DEF Mapped, Book!Next, Book!Begin

LEMMA IsFinish ==
    ASSUME Mapped, NEW r \in Request, r \in DOMAIN SpeltView,
           SpeltView' = Drop(SpeltView, r), UNCHANGED <<SpeltBook, UsedNow, RefusedNow>>
    PROVE  Book!Next
  BY DEF Mapped, Drop, Book!Drop, Book!Next, Book!Finish

LEMMA IsRefuse ==
    ASSUME Mapped, NEW r \in Request, r \in DOMAIN SpeltView,
           \E id \in DOMAIN SpeltView[r] : ~SpeltView[r][id].legible,
           SpeltView' = Drop(SpeltView, r), RefusedNow' = RefusedNow \cup {r},
           UNCHANGED <<SpeltBook, UsedNow>>
    PROVE  Book!Next
  BY DEF Mapped, Drop, Book!Drop, Book!Next, Book!Refuse

LEMMA IsLook ==
    ASSUME Mapped, NEW r \in Request, NEW u \in User, r \notin DOMAIN SpeltView,
           SpeltView' = Put(SpeltView, r,
             [id \in {b \in DOMAIN SpeltBook : SpeltBook[b].passer = u} |-> SpeltBook[id]]),
           UNCHANGED <<SpeltBook, UsedNow, RefusedNow>>
    PROVE  Book!Next
<1>1. Book!Look(r, u)
  BY DEF Mapped, Put, Book!Put, Book!Look
<1>2. QED
  BY <1>1 DEF Book!Next

LEMMA IsWrite ==
    ASSUME Mapped, NEW r \in Request, NEW id \in AccountId, NEW s \in Spelling,
           NEW w \in Password,
           SpeltBook' = Put(SpeltBook, id, Book!Entry(s, w)),
           \/ UNCHANGED SpeltView
           \/ /\ r \notin DOMAIN SpeltView
              /\ SpeltView' = Put(SpeltView, r, Put(Empty, id, Book!Entry(s, w))),
           \/ id \notin UsedNow /\ UsedNow' = UsedNow \cup {id}
           \/ /\ id \in DOMAIN SpeltBook /\ SpeltBook[id].passer = canonical[s]
              /\ UNCHANGED UsedNow,
           UNCHANGED RefusedNow
    PROVE  Book!Next
<1>1. Book!Write(r, id, Book!Entry(s, w))
  BY DEF Mapped, Put, Empty, Book!Put, Book!Empty, Book!Write
<1>2. Book!Save(r, id, s, w) \/ Book!Change(r, id, s, w)
  BY <1>1 DEF Mapped, Book!Save, Book!Change
<1>3. QED
  BY <1>2 DEF Book!Next

LEMMA IsRemove ==
    ASSUME Mapped, NEW id \in AccountId,
           SpeltBook' = Drop(SpeltBook, id), UNCHANGED <<UsedNow, SpeltView, RefusedNow>>
    PROVE  Book!Next
<1>1. Book!Remove(id)
  BY DEF Mapped, Drop, Book!Drop, Book!Remove
<1>2. QED
  BY <1>1 DEF Book!Next

LEMMA IsNothing ==
    ASSUME Mapped, UNCHANGED <<SpeltBook, UsedNow, SpeltView, RefusedNow>>
    PROVE  UNCHANGED Book!vars
  BY DEF Mapped, Book!vars

-----------------------------------------------------------------------------
(* The steps                                                               *)

\* A request that ends, well or not, finishes what it was showing, if anything.
LEMMA AnsweredBook ==
    ASSUME TypeOK, Mapped, NEW r \in Request, Answered(r), pc[r] \in Working,
           UNCHANGED <<accounts, stored>>
    PROVE  [Book!Next]_(Book!vars)
<1>1. SpeltView' = Drop(SpeltView, r)
  BY AnsweredView DEF Answered
<1>2. RefusedNow' = RefusedNow
  BY DEF Answered, RefusedNow, TypeOK, Working
<1>3. UNCHANGED <<SpeltBook, UsedNow>>
  BY DEF SpeltBook, UsedNow
<1>4. CASE r \in DOMAIN SpeltView
  BY <1>1, <1>2, <1>3, <1>4, IsFinish
<1>5. CASE r \notin DOMAIN SpeltView
  <2>1. Drop(SpeltView, r) = SpeltView
    BY <1>5 DEF Drop, SpeltView
  <2>2. QED
    BY <1>1, <1>2, <1>3, <2>1, IsNothing
<1>6. QED
  BY <1>4, <1>5

LEMMA ReceiveBook ==
    ASSUME TypeOK, Mapped, NEW r \in Request, NEW request \in Ask, Receive(r, request)
    PROVE  Book!Next
<1>1. /\ UNCHANGED <<accounts, stored, rows, shown>>
      /\ r \notin DOMAIN rows
      /\ \A q \in DOMAIN rows : ask'[q] = ask[q]
  BY DEF Receive, Put, TypeOK, Working
<1>2. \A q \in DOMAIN rows : SpeltShow(q)' = SpeltShow(q)
  BY <1>1 DEF SpeltShow, Passer
<1>3. UNCHANGED <<SpeltBook, UsedNow, SpeltView>>
  BY <1>1, <1>2 DEF SpeltBook, UsedNow, SpeltView
<1>4. RefusedNow' = RefusedNow \ {r}
  BY DEF Receive, RefusedNow, TypeOK
<1>5. QED
  BY <1>3, <1>4, IsBegin

\* Key pairs and ciphertexts change nothing that is said or shown.
LEMMA CryptoBook ==
    ASSUME TypeOK, Mapped, NEW r \in Request, GetOrCreateUserKey(r) \/ Encrypt(r)
    PROVE  UNCHANGED Book!vars
<1>1. UNCHANGED <<accounts, stored, rows, shown, ask>>
  BY DEF GetOrCreateUserKey, Encrypt, requests
<1>2. UNCHANGED <<SpeltBook, UsedNow, SpeltView>>
  BY <1>1 DEF SpeltBook, UsedNow, SpeltView, SpeltShow, Passer
<1>3. RefusedNow' = RefusedNow
  BY DEF GetOrCreateUserKey, Encrypt, requests, RefusedNow, TypeOK
<1>4. QED
  BY <1>2, <1>3, IsNothing

\* A password that opens goes over from the rows to the responses as it is; one
\* that does not ends the request.
LEMMA DecryptBook ==
    ASSUME IInv, Mapped, NEW r \in Request, Decrypt(r)
    PROVE  [Book!Next]_(Book!vars)
<1>1. TypeOK /\ r \in DOMAIN rows /\ UNCHANGED <<accounts, stored>>
  BY DEF IInv, Decrypt, TypeOK
<1>2. UNCHANGED <<SpeltBook, UsedNow>>
  BY <1>1 DEF SpeltBook, UsedNow
<1>3. PICK id \in DOMAIN rows[r] :
        /\ rows[r][id].passer \in DOMAIN keyOf
        /\ \/ /\ Opens(rows[r][id])
              /\ shown' = [shown EXCEPT ![r] = Put(@, id, rows[r][id].text.password)]
              /\ rows' = [rows EXCEPT ![r] = Drop(@, id)]
              /\ UNCHANGED <<pc, ask, sealed>>
           \/ /\ ~Opens(rows[r][id])
              /\ pc' = [pc EXCEPT ![r] = "unreadable"]
              /\ Return(r)
              /\ UNCHANGED ask
  BY DEF Decrypt
<1> DEFINE row == rows[r][id]
<1>4. (Opens(row) <=> row.text.user = row.passer) /\ row.passer = Passer(r)
  BY <1>1, <1>3, OpensIfWellSpelt DEF IInv, RowsWereStored
<1>5. CASE /\ Opens(row)
           /\ shown' = [shown EXCEPT ![r] = Put(@, id, row.text.password)]
           /\ rows' = [rows EXCEPT ![r] = Drop(@, id)]
           /\ UNCHANGED <<pc, ask, sealed>>
  <2>1. /\ DOMAIN rows' = DOMAIN rows
        /\ \A q \in DOMAIN rows \ {r} : rows'[q] = rows[q] /\ shown'[q] = shown[q]
        /\ rows'[r] = Drop(rows[r], id)
        /\ shown'[r] = Put(shown[r], id, row.text.password)
    BY <1>1, <1>5 DEF TypeOK
  <2>2. \A q \in DOMAIN rows \ {r} : SpeltShow(q)' = SpeltShow(q)
    BY <1>5, <2>1 DEF SpeltShow, Passer
  <2>3. Spelt(row) = [passer |-> Passer(r), password |-> row.text.password,
                      legible |-> TRUE]
    BY <1>4, <1>5 DEF Spelt
  <2>4. SpeltShow(r)' = SpeltShow(r)
    <3>1. DOMAIN rows'[r] \cup DOMAIN shown'[r] = DOMAIN rows[r] \cup DOMAIN shown[r]
      BY <2>1 DEF Put, Drop
    <3>2. \A b \in DOMAIN rows[r] \ {id} : b \in DOMAIN rows'[r] /\ rows'[r][b] = rows[r][b]
      BY <2>1 DEF Drop
    <3>3. \A b \in DOMAIN shown[r] \ DOMAIN rows[r] :
            b \notin DOMAIN rows'[r] /\ shown'[r][b] = shown[r][b]
      BY <2>1 DEF Put, Drop
    <3>4. id \notin DOMAIN rows'[r] /\ shown'[r][id] = row.text.password
      BY <2>1 DEF Put, Drop
    <3>5. Passer(r)' = Passer(r)
      BY <1>5 DEF Passer
    <3>6. QED
      BY <2>3, <3>1, <3>2, <3>3, <3>4, <3>5 DEF SpeltShow
  <2>5. SpeltView' = SpeltView
    BY <2>1, <2>2, <2>4 DEF SpeltView
  <2>6. RefusedNow' = RefusedNow
    BY <1>5 DEF RefusedNow
  <2>7. QED
    BY <1>2, <2>5, <2>6, IsNothing
<1>6. CASE /\ ~Opens(row)
           /\ pc' = [pc EXCEPT ![r] = "unreadable"]
           /\ Return(r)
           /\ UNCHANGED ask
  <2>1. SpeltView' = Drop(SpeltView, r)
    BY <1>1, <1>6, AnsweredView
  <2>2. RefusedNow' = RefusedNow \cup {r}
    BY <1>1, <1>6 DEF RefusedNow, TypeOK
  <2>3. r \in DOMAIN SpeltView /\ id \in DOMAIN SpeltView[r] /\ ~SpeltView[r][id].legible
    BY <1>1, <1>4, <1>6 DEF SpeltView, SpeltShow, Spelt
  <2>4. QED
    BY <1>2, <2>1, <2>2, <2>3, IsRefuse
<1>7. QED
  BY <1>3, <1>5, <1>6

LEMMA ListBook ==
    ASSUME TypeOK, Mapped, NEW r \in Request, ListAccounts(r)
    PROVE  Book!Next
<1> DEFINE own == {id \in DOMAIN accounts : accounts[id].passer = Passer(r)}
           found == [id \in own |-> accounts[id]]
<1>1. /\ r \notin DOMAIN SpeltView
      /\ SpeltView' = Put(SpeltView, r, [id \in DOMAIN found |-> Spelt(found[id])])
      /\ RefusedNow' = RefusedNow
  BY RespondView DEF ListAccounts
<1>2. [id \in DOMAIN found |-> Spelt(found[id])]
        = [id \in {b \in DOMAIN SpeltBook : SpeltBook[b].passer = Passer(r)} |-> SpeltBook[id]]
  BY DEF SpeltBook, Spelt
<1>3. Passer(r) \in User
  BY AskType, TypeParts DEF ListAccounts, TypeOK
<1>4. UNCHANGED <<SpeltBook, UsedNow>>
  BY DEF ListAccounts, SpeltBook, UsedNow
<1>5. QED
  BY <1>1, <1>2, <1>3, <1>4, IsLook

\* What an INSERT writes is a new account, what an UPDATE writes an old one's new
\* password, whether the request goes on to show it or fails.
LEMMA InsertBook ==
    ASSUME IInv, Mapped, NEW r \in Request, pc[r] = "insert",
           NEW id \in AccountId, InsertAccount(r, id),
           \/ UNCHANGED SpeltView
           \/ /\ r \notin DOMAIN SpeltView
              /\ SpeltView' = Put(SpeltView, r,
                   Put(Empty, id, Spelt([passer |-> Passer(r), text |-> sealed[r]]))),
           UNCHANGED RefusedNow
    PROVE  Book!Next
<1>1. /\ r \in DOMAIN sealed /\ ask[r].passer \in Spelling /\ ask[r].password \in Password
      /\ Write(id, [passer |-> Passer(r), text |-> sealed[r]])
  BY InsertRow, AskType, TypeParts DEF IInv, InsertAccount
<1>2. id \notin UsedNow
  BY DEF InsertAccount, UsedNow
<1>3. QED
  BY <1>1, <1>2, WriteBook, IsWrite

LEMMA OverwriteBook ==
    ASSUME IInv, Mapped, NEW r \in Request, pc[r] = "update", OverwriteAccount(r),
           \/ UNCHANGED SpeltView
           \/ /\ r \notin DOMAIN SpeltView
              /\ SpeltView' = Put(SpeltView, r,
                   Put(Empty, ask[r].id, Spelt([passer |-> Passer(r), text |-> sealed[r]]))),
           UNCHANGED RefusedNow
    PROVE  Book!Next
<1> DEFINE id == ask[r].id
<1>1. /\ r \in DOMAIN sealed /\ ask[r].passer \in Spelling /\ ask[r].password \in Password
      /\ id \in AccountId
      /\ Write(id, [passer |-> Passer(r), text |-> sealed[r]])
  BY UpdateRow, AskType, TypeParts DEF IInv, OverwriteAccount
<1>2. id \in DOMAIN SpeltBook /\ SpeltBook[id].passer = canonical[ask[r].passer]
  BY DEF OverwriteAccount, Matches, SpeltBook, Spelt, Passer
<1>3. UsedNow' = UsedNow
  <2>1. id \in UsedNow
    <3>1. WasStored(id, accounts[id])
      BY DEF IInv, RowsWereStored, OverwriteAccount, Matches
    <3>2. [id |-> id, passer |-> accounts[id].passer, text |-> accounts[id].text].id = id
      OBVIOUS
    <3>3. QED
      BY <3>1, <3>2 DEF WasStored, UsedNow
  <2>2. QED
    BY <1>1, <2>1, WriteBook
<1>4. QED
  BY <1>1, <1>2, <1>3, WriteBook, IsWrite

LEMMA CreateBook ==
    ASSUME IInv, Mapped, NEW r \in Request, CreateAccount(r)
    PROVE  Book!Next
<1> DEFINE row == [passer |-> Passer(r), text |-> sealed[r]]
<1>1. TypeOK /\ pc[r] = "insert"
  BY DEF IInv, CreateAccount
<1>2. PICK id \in AccountId :
        InsertAccount(r, id) /\ Respond(r, Put(Empty, id, accounts'[id]))
  BY DEF CreateAccount
<1>3. accounts'[id] = row
  BY <1>2 DEF InsertAccount, Write, Put
<1>4. [b \in DOMAIN Put(Empty, id, row) |-> Spelt(Put(Empty, id, row)[b])]
        = Put(Empty, id, Spelt(row))
  BY DEF Put, Empty
<1>5. /\ r \notin DOMAIN SpeltView
      /\ SpeltView' = Put(SpeltView, r, Put(Empty, id, Spelt(row)))
      /\ RefusedNow' = RefusedNow
  BY <1>1, <1>2, <1>3, <1>4, RespondView
<1>6. QED
  BY <1>1, <1>2, <1>5, InsertBook

LEMMA UpdateBook ==
    ASSUME IInv, Mapped, NEW r \in Request, UpdateAccount(r)
    PROVE  [Book!Next]_(Book!vars)
<1> DEFINE row == [passer |-> Passer(r), text |-> sealed[r]]
           id  == ask[r].id
<1>1. TypeOK /\ pc[r] = "update"
  BY DEF IInv, UpdateAccount
<1>2. CASE OverwriteAccount(r) /\ Respond(r, Put(Empty, id, RowAfter(r)))
  <2>1. RowAfter(r) = row
    BY <1>1, <1>2, UpdateRow DEF OverwriteAccount, RowAfter, Write, Put
  <2>2. [b \in DOMAIN Put(Empty, id, row) |-> Spelt(Put(Empty, id, row)[b])]
          = Put(Empty, id, Spelt(row))
    BY DEF Put, Empty
  <2>3. /\ r \notin DOMAIN SpeltView
        /\ SpeltView' = Put(SpeltView, r, Put(Empty, id, Spelt(row)))
        /\ RefusedNow' = RefusedNow
    BY <1>1, <1>2, <2>1, <2>2, RespondView
  <2>4. QED
    BY <1>1, <1>2, <2>3, OverwriteBook
<1>3. CASE Answered(r) /\ UNCHANGED <<accounts, stored>>
  BY <1>1, <1>3, AnsweredBook DEF Working
<1>4. QED
  BY <1>2, <1>3 DEF UpdateAccount

LEMMA GetBook ==
    ASSUME TypeOK, Mapped, NEW r \in Request, GetAccount(r)
    PROVE  [Book!Next]_(Book!vars)
<1>1. CASE Answered(r)
  BY <1>1, AnsweredBook DEF GetAccount, Working
<1>2. CASE /\ pc' = [pc EXCEPT ![r] = "update"]
           /\ UNCHANGED <<ask, sealed, rows, shown>>
  <2>1. UNCHANGED <<SpeltBook, UsedNow, SpeltView>>
    BY <1>2 DEF GetAccount, SpeltBook, UsedNow, SpeltView, SpeltShow, Passer
  <2>2. RefusedNow' = RefusedNow
    BY <1>2 DEF GetAccount, RefusedNow, TypeOK
  <2>3. QED
    BY <2>1, <2>2, IsNothing
<1>3. QED
  BY <1>1, <1>2 DEF GetAccount

LEMMA FailBook ==
    ASSUME IInv, Mapped, NEW r \in Request, Fail(r)
    PROVE  [Book!Next]_(Book!vars)
<1>1. TypeOK /\ pc[r] \in Working /\ Answered(r)
  BY DEF IInv, Fail
<1>2. ASSUME pc[r] \in {"insert", "update"}
      PROVE  UNCHANGED <<SpeltView, RefusedNow>>
  <2>1. SpeltView' = Drop(SpeltView, r)
    BY <1>1, AnsweredView DEF Answered
  <2>2. r \notin DOMAIN SpeltView
    BY <1>1, <1>2 DEF TypeOK, SpeltView
  <2>3. Drop(SpeltView, r) = SpeltView
    BY <2>2 DEF Drop, SpeltView
  <2>4. RefusedNow' = RefusedNow
    BY <1>1, <1>2 DEF Answered, RefusedNow, TypeOK
  <2>5. QED
    BY <2>1, <2>3, <2>4
<1>3. CASE UNCHANGED <<accounts, stored>>
  BY <1>1, <1>3, AnsweredBook
<1>4. CASE pc[r] = "insert" /\ \E id \in AccountId : InsertAccount(r, id)
  BY <1>2, <1>4, InsertBook
<1>5. CASE pc[r] = "update" /\ OverwriteAccount(r)
  BY <1>2, <1>5, OverwriteBook
<1>6. QED
  BY <1>3, <1>4, <1>5 DEF Fail

LEMMA DeleteBook ==
    ASSUME Mapped, NEW id \in AccountId, NEW u \in User, DeleteAccount(id, u)
    PROVE  Book!Next
<1>1. accounts' = Drop(accounts, id) /\ UNCHANGED <<requests, stored>>
  BY DEF DeleteAccount
<1>2. SpeltBook' = Drop(SpeltBook, id)
  BY <1>1 DEF SpeltBook, Drop, Spelt
<1>3. UNCHANGED <<UsedNow, SpeltView, RefusedNow>>
  BY <1>1 DEF requests, UsedNow, SpeltView, SpeltShow, Passer, RefusedNow
<1>4. QED
  BY <1>2, <1>3, IsRemove

LEMMA MappingStaysSpelt ==
    (IInv => BookNow = SpeltBook /\ ViewNow = SpeltView)'
  BY MappingIsSpelt, PTL

LEMMA BookStep == IInv /\ IInv' /\ [Next]_vars => [Book!Next]_(Book!vars)
<1> SUFFICES ASSUME IInv, IInv', [Next]_vars
             PROVE  [Book!Next]_(Book!vars)
  OBVIOUS
<1>1. Mapped
  <2>1. BookNow = SpeltBook /\ ViewNow = SpeltView
    BY MappingIsSpelt
  <2>2. BookNow' = SpeltBook' /\ ViewNow' = SpeltView'
    BY MappingStaysSpelt
  <2>3. QED
    BY <2>1, <2>2 DEF Mapped
<1>2. TypeOK
  BY DEF IInv
<1>3. ASSUME NEW r \in Request, Reply(r) PROVE [Book!Next]_(Book!vars)
  BY <1>1, <1>2, <1>3, AnsweredBook DEF Reply, Working
<1>4. CASE UNCHANGED vars
  <2>1. UNCHANGED <<SpeltBook, UsedNow, SpeltView, RefusedNow>>
    BY <1>4 DEF vars, requests, SpeltBook, UsedNow, SpeltView, SpeltShow, Passer,
                RefusedNow
  <2>2. QED
    BY <1>1, <2>1, IsNothing
<1>5. QED
  BY <1>1, <1>2, <1>3, <1>4, ReceiveBook, CryptoBook, DecryptBook, ListBook, CreateBook,
     UpdateBook, GetBook, FailBook, DeleteBook DEF Next

LEMMA BookInit == Init => Book!Init
<1> SUFFICES ASSUME Init PROVE Book!Init
  OBVIOUS
<1>1. /\ DOMAIN accounts = {} /\ DOMAIN rows = {} /\ stored = {}
      /\ \A r \in Request : pc[r] # "unreadable"
  BY DEF Init, Empty
<1>2. QED
  BY <1>1 DEF Book!Init, Book!Empty, BookNow, UsedNow, ViewNow, RefusedNow

\* The handlers of accounts implement the book: seen through the crypto service,
\* the table changes only as requests ask, every answer is of one moment, and
\* only a password saved under another spelling is ever refused.
THEOREM AccountsAreABook == Spec => ImplementsBook
  BY BookInit, BookStep, Invariance, PTL DEF Spec, ImplementsBook, Book!Spec

\* The handlers use the crypto service as it may be used: to it, each of their steps
\* is one of its own or none.
THEOREM CryptoIsItself == Spec => Crypto!Spec
<1>1. Init => Crypto!Init
  BY DEF Init
<1>2. TypeOK /\ [Next]_vars => [Crypto!Next]_(Crypto!vars)
  <2> SUFFICES ASSUME TypeOK, [Next]_vars
               PROVE  [Crypto!Next]_(Crypto!vars)
    OBVIOUS
  <2>1. ASSUME NEW r \in Request, GetOrCreateUserKey(r)
        PROVE  Crypto!Next
    <3>1. \A u \in CalledFor(r) : u \in Spelling
      <4>1. ASSUME pc[r] = "encrypt" PROVE ask[r].passer \in Spelling
        BY <4>1, AskType, TypeParts DEF TypeOK
      <4>2. ASSUME pc[r] = "decrypt", NEW id \in DOMAIN rows[r]
            PROVE  rows[r][id].passer \in Spelling
        BY <4>2, VaultAssumption DEF TypeOK, Account
      <4>3. QED
        BY <4>1, <4>2 DEF CalledFor
    <3>2. QED
      BY <2>1, <3>1 DEF GetOrCreateUserKey, Choose, Crypto!Next
  <2>2. ASSUME NEW r \in Request, Encrypt(r)
        PROVE  Crypto!Next
    <3>1. ask[r].passer \in Spelling
      BY <2>2, AskType, TypeParts DEF Encrypt, TypeOK
    <3>2. QED
      BY <2>2, <3>1 DEF Encrypt, Crypto!Next
  <2>3. CASE UNCHANGED crypto
    BY <2>3 DEF crypto, Crypto!vars
  <2>4. QED
    BY <2>1, <2>2, <2>3 DEF Next, vars, Receive, Decrypt, Reply, ListAccounts,
       CreateAccount, GetAccount, UpdateAccount, Fail, DeleteAccount
<1>3. Spec => []TypeOK
  <2>1. IInv => TypeOK
    BY DEF IInv
  <2>2. QED
    BY <2>1, Invariance, PTL
<1>4. QED
  BY <1>1, <1>2, <1>3, PTL DEF Spec, Crypto!Spec
=============================================================================
