---------------------------- MODULE PasskeyStore ----------------------------
(***************************************************************************)
(* The passkeys of the Go backend: pkg/webauthn/store.go, get.go and       *)
(* create.go, behind POST /chrome/register and POST /chrome/assert.        *)
(*                                                                         *)
(* An account is a user at a relying party.  Both handlers first run       *)
(* GetKey, which reads the account's row, or inserts one, and writes its   *)
(* sign count back one higher: two statements or three, without a          *)
(* transaction, between which other requests, other replicas, failures and *)
(* the death of the replica come.                                          *)
(***************************************************************************)
EXTENDS Integers

CONSTANTS
    Account,    \* pairs of a user_id and an rp_id
    Id,         \* random credential ids; a stored one also names its key pair
    Request,    \* requests that may run at a time
    Replica,    \* running copies of the backend
    host,       \* the replica each of them runs in
    Modulus,    \* the sign count of an assertion is taken modulo this (2^32)
    MaxCount    \* bound on the stored sign count

ASSUME PasskeyStoreAssumption ==
    /\ host \in [Request -> Replica]
    /\ Modulus \in Nat \ {0}
    /\ MaxCount \in Nat

VARIABLES
    passkeys,   \* the passkeys table, by its UNIQUE (user_id, rp_id)
    pc,         \* how far each request is, or how it was answered
    ask,        \* what it asks for
    row,        \* the row GetKey has in hand
    generated,  \* history variable: the ids drawn so far
    attested,   \* history variable: what relying parties got at creation
    asserted    \* history variable: the assertions they got

locals  == <<pc, ask, row>>
answers == <<attested, asserted>>
vars    == <<passkeys, locals, generated, answers>>

Row == [id : Id, count : Nat]

Ask == [account : Account, op : {"CREATE", "GET"}]

\* A response: the credential id it names and the key pair behind it.
Attestation == [account : Account, id : Id, key : Id]
Assertion   == [account : Account, id : Id, key : Id, count : Nat]

Answer == {"ok", "error"}

\* With a row in hand.
Held == {"count", "respond"}

Free(r) == pc[r] \in Answer \cup {"idle"}

Put(f, k, v) == [x \in DOMAIN f \cup {k} |-> IF x = k THEN v ELSE f[x]]
Drop(f, k)   == [x \in DOMAIN f \ {k} |-> f[x]]
Empty        == [x \in {} |-> x]

Init ==
    /\ passkeys = Empty
    /\ pc = [r \in Request |-> "idle"]
    /\ ask = Empty
    /\ row = Empty
    /\ generated = {}
    /\ attested = {}
    /\ asserted = {}

-----------------------------------------------------------------------------
(* GetKey                                                                  *)

\* A request arrives that parses (an assertion with allowCredentials).
Receive(r, account, op) ==
    /\ Free(r)
    /\ pc' = [pc EXCEPT ![r] = "get"]
    /\ ask' = Put(ask, r, [account |-> account, op |-> op])
    /\ UNCHANGED <<passkeys, row, generated, answers>>

\* The row is found, or made; its count is raised in memory.
Take(r, found) ==
    /\ row' = Put(row, r, [found EXCEPT !.count = @ + 1])
    /\ pc' = [pc EXCEPT ![r] = "count"]
    /\ UNCHANGED ask

GetPasskey(r) ==
    LET a == ask[r].account IN
    /\ pc[r] = "get"
    /\ \/ /\ a \in DOMAIN passkeys
          /\ passkeys[a].count < MaxCount
          /\ Take(r, passkeys[a])
       \/ /\ a \notin DOMAIN passkeys
          /\ pc' = [pc EXCEPT ![r] = "insert"]
          /\ UNCHANGED <<ask, row>>
    /\ UNCHANGED <<passkeys, generated, answers>>

Fail(r) ==
    /\ pc' = [pc EXCEPT ![r] = "error"]
    /\ row' = Drop(row, r)
    /\ UNCHANGED ask

\* Fault: ON CONFLICT DO UPDATE in the INSERT.
InsertUpsert(r, new) ==
    /\ passkeys' = Put(passkeys, ask[r].account, new)
    /\ Take(r, new)

\* INSERT INTO passkeys: a second row for the account is a unique violation,
\* and unlike the crypto service GetKey answers it with an error.
Insert(r, new) ==
    LET a == ask[r].account IN
    \/ /\ a \notin DOMAIN passkeys
       /\ passkeys' = Put(passkeys, a, new)
       /\ Take(r, new)
    \/ /\ a \in DOMAIN passkeys
       /\ Fail(r)
       /\ UNCHANGED passkeys

CreatePasskey(r) ==
    /\ pc[r] = "insert"
    /\ \E id \in Id \ generated :
         /\ generated' = generated \cup {id}
         /\ Insert(r, [id |-> id, count |-> 0])
    /\ UNCHANGED answers

\* UPDATE passkeys SET sign_count = $2 WHERE credential_id = $1.
SetCount(r) ==
    passkeys' = [a \in DOMAIN passkeys |->
                    IF passkeys[a].id = row[r].id
                    THEN [passkeys[a] EXCEPT !.count = row[r].count]
                    ELSE passkeys[a]]

\* GetKey ignores whether it failed.
UpdateSignCount(r) ==
    /\ pc[r] = "count"
    /\ SetCount(r) \/ UNCHANGED passkeys
    /\ pc' = [pc EXCEPT ![r] = "respond"]
    /\ UNCHANGED <<ask, row, generated, answers>>

\* The read or the insert fails; the insert may be committed all the same.
GetKeyFails(r) ==
    LET a == ask[r].account IN
    /\ pc[r] \in {"get", "insert"}
    /\ \/ UNCHANGED <<passkeys, generated>>
       \/ /\ pc[r] = "insert"
          /\ a \notin DOMAIN passkeys
          /\ \E id \in Id \ generated :
               /\ generated' = generated \cup {id}
               /\ passkeys' = Put(passkeys, a, [id |-> id, count |-> 0])
    /\ Fail(r)
    /\ UNCHANGED answers

-----------------------------------------------------------------------------
(* ProcessCreate and ProcessGetAssertion, with the key in hand             *)

Done(r) ==
    /\ pc' = [pc EXCEPT ![r] = "ok"]
    /\ row' = Drop(row, r)
    /\ UNCHANGED <<passkeys, ask>>

\* ProcessCreate draws sixteen random bytes for the credential id of the
\* response.  They are not the id of the row, and nothing stores them.
ProcessCreate(r) ==
    /\ pc[r] = "respond"
    /\ ask[r].op = "CREATE"
    /\ \E id \in Id \ generated :
         /\ generated' = generated \cup {id}
         /\ attested' = attested \cup
              {[account |-> ask[r].account, id |-> id, key |-> row[r].id]}
    /\ Done(r)
    /\ UNCHANGED asserted

\* ProcessGetAssertion signs the count it got plus one, as a uint32.
ProcessGetAssertion(r) ==
    /\ pc[r] = "respond"
    /\ ask[r].op = "GET"
    /\ asserted' = asserted \cup
         {[account |-> ask[r].account, id |-> row[r].id, key |-> row[r].id,
           count   |-> (row[r].count + 1) % Modulus]}
    /\ Done(r)
    /\ UNCHANGED <<generated, attested>>

\* A stored key does not parse, or signing or encoding fails.
ProcessFails(r) ==
    /\ pc[r] = "respond"
    /\ Fail(r)
    /\ UNCHANGED <<passkeys, generated, answers>>

\* A replica dies: log.Fatal on a creation that does not parse ends every
\* request of the process.
Crash(p) ==
    LET dead == {r \in Request : host[r] = p} IN
    /\ \E r \in dead : ~Free(r)
    /\ pc' = [r \in Request |-> IF r \in dead THEN "idle" ELSE pc[r]]
    /\ ask' = [r \in DOMAIN ask \ dead |-> ask[r]]
    /\ row' = [r \in DOMAIN row \ dead |-> row[r]]
    /\ UNCHANGED <<passkeys, generated, answers>>

-----------------------------------------------------------------------------
Work(r) ==
    \/ GetPasskey(r) \/ CreatePasskey(r) \/ UpdateSignCount(r) \/ GetKeyFails(r)
    \/ ProcessCreate(r) \/ ProcessGetAssertion(r) \/ ProcessFails(r)

Next ==
    \/ \E r \in Request, account \in Account, op \in {"CREATE", "GET"} :
            Receive(r, account, op)
    \/ \E r \in Request : Work(r)
    \/ \E p \in Replica : Crash(p)

Spec == Init /\ [][Next]_vars

-----------------------------------------------------------------------------
(* What must hold                                                          *)

\* Type invariant.
TypeOK ==
    /\ passkeys \in [DOMAIN passkeys -> Row]
    /\ DOMAIN passkeys \subseteq Account
    /\ pc \in [Request -> Answer \cup Held \cup {"idle", "get", "insert"}]
    /\ ask \in [DOMAIN ask -> Ask]
    /\ DOMAIN ask = {r \in Request : pc[r] # "idle"}
    /\ row \in [DOMAIN row -> Row]
    /\ DOMAIN row = {r \in Request : pc[r] \in Held}
    /\ generated \subseteq Id
    /\ attested \subseteq Attestation
    /\ asserted \subseteq Assertion

\* However requests race to create it, an account has one key pair: what a
\* relying party registered is what every later assertion is signed with, and
\* no two accounts share it.
OneKeyPerAccount ==
    /\ \A answer \in attested \cup asserted :
          /\ answer.account \in DOMAIN passkeys
          /\ answer.key = passkeys[answer.account].id
    /\ \A a, b \in DOMAIN passkeys : passkeys[a].id = passkeys[b].id => a = b

\* The row a request goes on using, and writes its count from, is still its
\* account's: only the count may be stale.
StaleOnlyInCount ==
    \A r \in DOMAIN row :
        /\ ask[r].account \in DOMAIN passkeys
        /\ passkeys[ask[r].account].id = row[r].id

\* The inductive invariant: these, and that an id in the table or in an answer
\* was drawn, so that it is not drawn again.
IInv ==
    /\ TypeOK
    /\ OneKeyPerAccount
    /\ StaleOnlyInCount
    /\ \A a \in DOMAIN passkeys : passkeys[a].id \in generated
    /\ \A answer \in attested : answer.id \in generated

\* The store implements the abstract one of key pairs chosen once: its issued
\* texts are the assertions.
Abstract == INSTANCE UserKeys
    WITH User   <- Account,
         Key    <- Id,
         keyOf  <- [a \in DOMAIN passkeys |-> passkeys[a].id],
         issued <- {[user |-> answer.account, key |-> answer.key] : answer \in asserted}

ImplementsUserKeys == Abstract!Spec

-----------------------------------------------------------------------------
(* What the repository says and the code does not do                       *)

\* create.go:249 logs "Saved passkey" with the credential id of the response:
\* an assertion would name a credential that the relying party was given, if
\* it was given any.
CreatedCredentialIsSaved ==
    \A answer \in asserted :
        LET known == {c \in attested : c.account = answer.account} IN
        known # {} => \E c \in known : c.id = answer.id
=============================================================================
