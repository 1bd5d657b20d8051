------------------------- MODULE PasskeyStoreProofs -------------------------
(***************************************************************************)
(* Proofs about PasskeyStore, for every number of accounts, requests,      *)
(* replicas and ids, every modulus and every bound on the count.           *)
(***************************************************************************)
EXTENDS PasskeyStore, TLAPS

-----------------------------------------------------------------------------
(* The type invariant                                                      *)

\* The row a request takes is a row, and the request has it in hand.
LEMMA TakeType ==
    ASSUME TypeOK, NEW r \in Request, NEW found \in Row,
           pc[r] \in {"get", "insert"}, Take(r, found)
    PROVE  /\ pc' \in [Request -> Answer \cup Held \cup {"idle", "get", "insert"}]
           /\ DOMAIN ask' = {q \in Request : pc'[q] # "idle"}
           /\ row' \in [DOMAIN row' -> Row]
           /\ DOMAIN row' = {q \in Request : pc'[q] \in Held}
           /\ ask' = ask
<1>1. pc' = [pc EXCEPT ![r] = "count"] /\ ask' = ask
  BY DEF Take
<1>2. [found EXCEPT !.count = @ + 1] \in Row
  BY DEF Row
<1>3. DOMAIN row' = DOMAIN row \cup {r}
  BY DEF Take, Put
<1>4. row' \in [DOMAIN row' -> Row]
  BY <1>2 DEF Take, Put, TypeOK
<1>5. pc' \in [Request -> Answer \cup Held \cup {"idle", "get", "insert"}]
  BY <1>1 DEF TypeOK, Held
<1>6. DOMAIN ask' = {q \in Request : pc'[q] # "idle"}
  BY <1>1 DEF TypeOK
<1>7. DOMAIN row' = {q \in Request : pc'[q] \in Held}
  BY <1>1, <1>3 DEF TypeOK, Held
<1>8. QED
  BY <1>1, <1>4, <1>5, <1>6, <1>7

\* A request that is answered has no row in hand.
LEMMA AnswerType ==
    ASSUME TypeOK, NEW r \in Request, pc[r] # "idle", Fail(r) \/ Done(r)
    PROVE  /\ pc' \in [Request -> Answer \cup Held \cup {"idle", "get", "insert"}]
           /\ DOMAIN ask' = {q \in Request : pc'[q] # "idle"}
           /\ row' \in [DOMAIN row' -> Row]
           /\ DOMAIN row' = {q \in Request : pc'[q] \in Held}
           /\ ask' = ask
<1>1. PICK how \in Answer : pc' = [pc EXCEPT ![r] = how]
  BY DEF Fail, Done, Answer
<1>2. row' = Drop(row, r) /\ ask' = ask
  BY DEF Fail, Done
<1>3. DOMAIN row' = DOMAIN row \ {r} /\ row' \in [DOMAIN row' -> Row]
  BY <1>2 DEF Drop, TypeOK
<1>4. pc' \in [Request -> Answer \cup Held \cup {"idle", "get", "insert"}]
  BY <1>1 DEF TypeOK
<1>5. DOMAIN ask' = {q \in Request : pc'[q] # "idle"}
  BY <1>1, <1>2 DEF TypeOK, Answer
<1>6. DOMAIN row' = {q \in Request : pc'[q] \in Held}
  BY <1>1, <1>3 DEF TypeOK, Held, Answer
<1>7. QED
  BY <1>2, <1>3, <1>4, <1>5, <1>6

LEMMA TypeStep == TypeOK /\ [Next]_vars => TypeOK'
<1> SUFFICES ASSUME TypeOK, [Next]_vars
             PROVE  TypeOK'
  OBVIOUS
<1> USE PasskeyStoreAssumption
<1>1. ASSUME NEW r \in Request, NEW account \in Account, NEW op \in {"CREATE", "GET"},
             Receive(r, account, op)
      PROVE  TypeOK'
  <2>1. [account |-> account, op |-> op] \in Ask
    BY DEF Ask
  <2>2. DOMAIN ask' = DOMAIN ask \cup {r} /\ ask' \in [DOMAIN ask' -> Ask]
    BY <1>1, <2>1 DEF Receive, Put, TypeOK
  <2>3. pc' = [pc EXCEPT ![r] = "get"] /\ pc[r] \notin Held
    BY <1>1 DEF Receive, Free, Answer, Held
  <2>4. DOMAIN ask' = {q \in Request : pc'[q] # "idle"}
    BY <2>2, <2>3 DEF TypeOK
  <2>5. DOMAIN row = {q \in Request : pc'[q] \in Held}
    BY <2>3 DEF TypeOK, Held
  <2>6. pc' \in [Request -> Answer \cup Held \cup {"idle", "get", "insert"}]
    BY <2>3 DEF TypeOK
  <2>7. QED
    BY <1>1, <2>2, <2>4, <2>5, <2>6 DEF Receive, answers, TypeOK
<1>2. ASSUME NEW r \in Request, GetPasskey(r)
      PROVE  TypeOK'
  <2>1. CASE ask[r].account \in DOMAIN passkeys /\ Take(r, passkeys[ask[r].account])
    <3>1. /\ passkeys[ask[r].account] \in Row /\ pc[r] = "get"
          /\ UNCHANGED <<passkeys, generated, attested, asserted>>
      BY <1>2, <2>1 DEF GetPasskey, TypeOK, answers
    <3>2. QED
      BY <2>1, <3>1, TakeType DEF TypeOK
  <2>2. CASE pc' = [pc EXCEPT ![r] = "insert"] /\ UNCHANGED <<ask, row>>
    BY <1>2, <2>2 DEF GetPasskey, TypeOK, answers, Held
  <2>3. QED
    BY <1>2, <2>1, <2>2 DEF GetPasskey
<1>3. ASSUME NEW r \in Request, CreatePasskey(r)
      PROVE  TypeOK'
  <2>1. PICK id \in Id \ generated :
          /\ generated' = generated \cup {id}
          /\ Insert(r, [id |-> id, count |-> 0])
    BY <1>3 DEF CreatePasskey
  <2>2. /\ pc[r] = "insert" /\ UNCHANGED <<attested, asserted>>
        /\ [id |-> id, count |-> 0] \in Row
        /\ ask[r].account \in Account
    BY <1>3 DEF CreatePasskey, answers, Row, TypeOK, Ask
  <2>3. CASE /\ passkeys' = Put(passkeys, ask[r].account, [id |-> id, count |-> 0])
             /\ Take(r, [id |-> id, count |-> 0])
    <3>1. /\ DOMAIN passkeys' = DOMAIN passkeys \cup {ask[r].account}
          /\ passkeys' \in [DOMAIN passkeys' -> Row]
      BY <2>2, <2>3 DEF Put, TypeOK
    <3>2. QED
      BY <2>1, <2>2, <2>3, <3>1, TakeType DEF TypeOK
  <2>4. CASE Fail(r) /\ UNCHANGED passkeys
    BY <2>1, <2>2, <2>4, AnswerType DEF TypeOK
  <2>5. QED
    BY <2>1, <2>3, <2>4 DEF Insert
<1>4. ASSUME NEW r \in Request, UpdateSignCount(r)
      PROVE  TypeOK'
  <2>1. row[r] \in Row
    BY <1>4 DEF UpdateSignCount, TypeOK, Held
  <2>2. DOMAIN passkeys' = DOMAIN passkeys /\ passkeys' \in [DOMAIN passkeys' -> Row]
    BY <1>4, <2>1 DEF UpdateSignCount, SetCount, TypeOK, Row
  <2>3. QED
    BY <1>4, <2>2 DEF UpdateSignCount, TypeOK, answers, Held
<1>5. ASSUME NEW r \in Request, GetKeyFails(r)
      PROVE  TypeOK'
  <2>1. ask[r].account \in Account
    BY <1>5 DEF GetKeyFails, TypeOK, Ask
  <2>2. /\ DOMAIN passkeys' \subseteq Account
        /\ passkeys' \in [DOMAIN passkeys' -> Row]
        /\ generated' \subseteq Id
    <3>1. CASE UNCHANGED <<passkeys, generated>>
      BY <3>1 DEF TypeOK
    <3>2. CASE \E id \in Id \ generated :
                  /\ generated' = generated \cup {id}
                  /\ passkeys' = Put(passkeys, ask[r].account, [id |-> id, count |-> 0])
      BY <2>1, <3>2 DEF Put, TypeOK, Row
    <3>3. QED
      BY <1>5, <3>1, <3>2 DEF GetKeyFails
  <2>3. Fail(r) /\ pc[r] # "idle" /\ UNCHANGED <<attested, asserted>>
    BY <1>5 DEF GetKeyFails, answers
  <2>4. QED
    BY <2>2, <2>3, AnswerType DEF TypeOK
<1>6. ASSUME NEW r \in Request, ProcessCreate(r)
      PROVE  TypeOK'
  <2>1. PICK id \in Id \ generated :
          /\ generated' = generated \cup {id}
          /\ attested' = attested \cup
               {[account |-> ask[r].account, id |-> id, key |-> row[r].id]}
    BY <1>6 DEF ProcessCreate
  <2>2. /\ ask[r].account \in Account /\ row[r].id \in Id
        /\ Done(r) /\ pc[r] # "idle" /\ UNCHANGED <<passkeys, asserted>>
    BY <1>6 DEF ProcessCreate, Done, TypeOK, Held, Ask, Row
  <2>3. attested' \subseteq Attestation
    BY <2>1, <2>2 DEF TypeOK, Attestation
  <2>4. QED
    BY <2>1, <2>2, <2>3, AnswerType DEF TypeOK
<1>7. ASSUME NEW r \in Request, ProcessGetAssertion(r)
      PROVE  TypeOK'
  <2>1. /\ ask[r].account \in Account /\ row[r].id \in Id /\ row[r].count \in Nat
        /\ Done(r) /\ pc[r] # "idle" /\ UNCHANGED <<passkeys, generated, attested>>
    BY <1>7 DEF ProcessGetAssertion, Done, TypeOK, Held, Ask, Row
  <2>2. (row[r].count + 1) % Modulus \in Nat
    BY <2>1
  <2>3. asserted' \subseteq Assertion
    BY <1>7, <2>1, <2>2 DEF ProcessGetAssertion, TypeOK, Assertion
  <2>4. QED
    BY <2>1, <2>3, AnswerType DEF TypeOK
<1>8. ASSUME NEW r \in Request, ProcessFails(r)
      PROVE  TypeOK'
  BY <1>8, AnswerType DEF ProcessFails, TypeOK, answers
<1>9. ASSUME NEW p \in Replica, Crash(p)
      PROVE  TypeOK'
  BY <1>9 DEF Crash, TypeOK, answers, Held
<1>10. CASE UNCHANGED vars
  BY <1>10 DEF vars, locals, answers, TypeOK
<1>11. QED
  BY <1>1, <1>2, <1>3, <1>4, <1>5, <1>6, <1>7, <1>8, <1>9, <1>10 DEF Next, Work

-----------------------------------------------------------------------------
(* The table and the answers                                               *)

\* The ids of the table, the part of it that never changes.
KeyOf == [a \in DOMAIN passkeys |-> passkeys[a].id]

\* A row is inserted for an account without one, under an id just drawn.
Creates(a, id) ==
    /\ a \notin DOMAIN passkeys /\ id \notin generated
    /\ DOMAIN passkeys' = DOMAIN passkeys \cup {a}
    /\ passkeys'[a].id = id
    /\ \A b \in DOMAIN passkeys : passkeys'[b] = passkeys[b]
    /\ generated' = generated \cup {id}
    /\ UNCHANGED answers

\* No row comes or goes.
KeepsRows ==
    /\ DOMAIN passkeys' = DOMAIN passkeys
    /\ \A a \in DOMAIN passkeys : passkeys'[a].id = passkeys[a].id
    /\ generated \subseteq generated'

Registers(r) ==
    /\ r \in DOMAIN row
    /\ \E id \in generated' : attested' = attested \cup
         {[account |-> ask[r].account, id |-> id, key |-> row[r].id]}
    /\ UNCHANGED asserted

Asserts(r) ==
    /\ r \in DOMAIN row
    /\ \E n \in Nat : asserted' = asserted \cup
         {[account |-> ask[r].account, id |-> row[r].id, key |-> row[r].id,
           count |-> n]}
    /\ UNCHANGED attested

LEMMA StepEffect ==
    ASSUME TypeOK, [Next]_vars
    PROVE  \/ \E a \in Account, id \in Id : Creates(a, id)
           \/ KeepsRows /\ UNCHANGED answers
           \/ \E r \in Request : KeepsRows /\ (Registers(r) \/ Asserts(r))
<1> USE PasskeyStoreAssumption
<1>1. ASSUME NEW r \in Request, CreatePasskey(r) \/ GetKeyFails(r)
      PROVE  \/ \E a \in Account, id \in Id : Creates(a, id)
             \/ KeepsRows /\ UNCHANGED answers
  <2>1. ask[r].account \in Account /\ UNCHANGED answers
    BY <1>1 DEF CreatePasskey, GetKeyFails, TypeOK, Ask
  <2>2. CASE UNCHANGED passkeys /\ generated \subseteq generated'
    BY <2>1, <2>2 DEF KeepsRows
  <2>3. ASSUME NEW id \in Id \ generated, generated' = generated \cup {id},
               ask[r].account \notin DOMAIN passkeys,
               passkeys' = Put(passkeys, ask[r].account, [id |-> id, count |-> 0])
        PROVE  Creates(ask[r].account, id)
    BY <2>1, <2>3 DEF Creates, Put
  <2>4. CASE CreatePasskey(r)
    BY <2>1, <2>2, <2>3, <2>4 DEF CreatePasskey, Insert
  <2>5. CASE GetKeyFails(r)
    BY <2>1, <2>2, <2>3, <2>5 DEF GetKeyFails
  <2>6. QED
    BY <1>1, <2>4, <2>5
<1>2. ASSUME NEW r \in Request, UpdateSignCount(r)
      PROVE  KeepsRows /\ UNCHANGED answers
  BY <1>2 DEF UpdateSignCount, SetCount, KeepsRows, TypeOK, Row
<1>3. ASSUME NEW r \in Request, ProcessCreate(r)
      PROVE  KeepsRows /\ Registers(r)
  BY <1>3 DEF ProcessCreate, Done, KeepsRows, Registers, TypeOK, Held
<1>4. ASSUME NEW r \in Request, ProcessGetAssertion(r)
      PROVE  KeepsRows /\ Asserts(r)
  <2>1. (row[r].count + 1) % Modulus \in Nat /\ r \in DOMAIN row
    BY <1>4 DEF ProcessGetAssertion, TypeOK, Held, Row
  <2>2. QED
    BY <1>4, <2>1 DEF ProcessGetAssertion, Done, KeepsRows, Asserts
<1>5. ASSUME NEW r \in Request, GetPasskey(r) \/ ProcessFails(r)
      PROVE  KeepsRows /\ UNCHANGED answers
  BY <1>5 DEF GetPasskey, ProcessFails, KeepsRows
<1>6. ASSUME NEW r \in Request, NEW account \in Account, NEW op \in {"CREATE", "GET"},
             Receive(r, account, op)
      PROVE  KeepsRows /\ UNCHANGED answers
  BY <1>6 DEF Receive, KeepsRows
<1>7. ASSUME NEW p \in Replica, Crash(p)
      PROVE  KeepsRows /\ UNCHANGED answers
  BY <1>7 DEF Crash, KeepsRows
<1>8. CASE UNCHANGED vars
  BY <1>8 DEF vars, KeepsRows
<1>9. QED
  BY <1>1, <1>2, <1>3, <1>4, <1>5, <1>6, <1>7, <1>8 DEF Next, Work

\* What IInv says of the table and the answers.
Drawn ==
    /\ \A a \in DOMAIN passkeys : passkeys[a].id \in generated
    /\ \A answer \in attested : answer.id \in generated

\* Rows stay, and keep their ids.
Kept ==
    \A a \in DOMAIN passkeys :
        a \in DOMAIN passkeys' /\ passkeys'[a].id = passkeys[a].id

LEMMA TableStep ==
    ASSUME IInv, [Next]_vars
    PROVE  Kept /\ OneKeyPerAccount' /\ Drawn'
<1> USE DEF IInv, Drawn, Kept
<1>1. ASSUME NEW a \in Account, NEW id \in Id, Creates(a, id)
      PROVE  Kept /\ OneKeyPerAccount' /\ Drawn'
  <2>1. \A b \in DOMAIN passkeys : b # a /\ passkeys'[b].id # id
    BY <1>1 DEF Creates
  <2>2. QED
    BY <1>1, <2>1 DEF Creates, OneKeyPerAccount, answers
<1>2. ASSUME KeepsRows, UNCHANGED answers
      PROVE  Kept /\ OneKeyPerAccount' /\ Drawn'
  BY <1>2 DEF KeepsRows, OneKeyPerAccount, answers
<1>3. ASSUME NEW r \in Request, KeepsRows, Registers(r) \/ Asserts(r)
      PROVE  Kept /\ OneKeyPerAccount' /\ Drawn'
  <2>1. /\ ask[r].account \in DOMAIN passkeys
        /\ row[r].id = passkeys[ask[r].account].id
    BY <1>3 DEF StaleOnlyInCount, Registers, Asserts
  <2>2. \A answer \in attested' \cup asserted' :
          \/ answer \in attested \cup asserted
          \/ answer.account = ask[r].account /\ answer.key = row[r].id
    BY <1>3 DEF Registers, Asserts
  <2>3. OneKeyPerAccount'
    BY <1>3, <2>1, <2>2 DEF KeepsRows, OneKeyPerAccount
  <2>4. Drawn'
    BY <1>3 DEF KeepsRows, Registers, Asserts
  <2>5. QED
    BY <1>3, <2>3, <2>4 DEF KeepsRows
<1>4. QED
  BY <1>1, <1>2, <1>3, StepEffect

\* A request takes its account's row, and never exchanges it.
LEMMA StaleStep ==
    ASSUME IInv, Kept, [Next]_vars
    PROVE  StaleOnlyInCount'
<1> USE DEF IInv, Kept
<1>1. ASSUME NEW r \in Request, NEW account \in Account, NEW op \in {"CREATE", "GET"},
             Receive(r, account, op)
      PROVE  StaleOnlyInCount'
  <2>1. r \notin DOMAIN row
    BY <1>1 DEF Receive, Free, TypeOK, Held, Answer
  <2>2. \A q \in DOMAIN row : q # r /\ q \in DOMAIN ask
    BY <2>1 DEF TypeOK, Held
  <2>3. QED
    BY <1>1, <2>2 DEF Receive, Put, StaleOnlyInCount
<1>2. ASSUME NEW r \in Request, NEW found \in Row, Take(r, found),
             ask[r].account \in DOMAIN passkeys',
             found.id = passkeys'[ask[r].account].id
      PROVE  StaleOnlyInCount'
  <2>1. /\ DOMAIN row' = DOMAIN row \cup {r}
        /\ row'[r].id = found.id
        /\ \A q \in DOMAIN row : q # r => row'[q] = row[q]
        /\ ask' = ask
    BY <1>2 DEF Take, Put, Row
  <2>2. QED
    BY <1>2, <2>1 DEF StaleOnlyInCount
<1>3. ASSUME NEW r \in Request, GetPasskey(r)
      PROVE  StaleOnlyInCount'
  <2>1. CASE ask[r].account \in DOMAIN passkeys /\ Take(r, passkeys[ask[r].account])
    BY <1>2, <1>3, <2>1 DEF GetPasskey, TypeOK
  <2>2. CASE UNCHANGED <<ask, row>>
    BY <1>3, <2>2 DEF GetPasskey, StaleOnlyInCount
  <2>3. QED
    BY <1>3, <2>1, <2>2 DEF GetPasskey
<1>4. ASSUME NEW r \in Request, Fail(r) \/ Done(r)
      PROVE  StaleOnlyInCount'
  BY <1>4 DEF Fail, Done, Drop, StaleOnlyInCount
<1>5. ASSUME NEW r \in Request, CreatePasskey(r)
      PROVE  StaleOnlyInCount'
  <2>1. PICK id \in Id \ generated : Insert(r, [id |-> id, count |-> 0])
    BY <1>5 DEF CreatePasskey
  <2>2. CASE /\ passkeys' = Put(passkeys, ask[r].account, [id |-> id, count |-> 0])
             /\ Take(r, [id |-> id, count |-> 0])
    <3>1. [id |-> id, count |-> 0] \in Row
      BY DEF Row
    <3>2. /\ ask[r].account \in DOMAIN passkeys'
          /\ passkeys'[ask[r].account] = [id |-> id, count |-> 0]
      BY <2>2 DEF Put
    <3>3. QED
      BY <1>2, <2>2, <3>1, <3>2
  <2>3. QED
    BY <1>4, <2>1, <2>2 DEF Insert
<1>6. ASSUME NEW r \in Request, UpdateSignCount(r)
      PROVE  StaleOnlyInCount'
  BY <1>6 DEF UpdateSignCount, StaleOnlyInCount
<1>7. ASSUME NEW r \in Request,
             GetKeyFails(r) \/ ProcessCreate(r) \/ ProcessGetAssertion(r)
               \/ ProcessFails(r)
      PROVE  StaleOnlyInCount'
  BY <1>4, <1>7 DEF GetKeyFails, ProcessCreate, ProcessGetAssertion, ProcessFails
<1>8. ASSUME NEW p \in Replica, Crash(p)
      PROVE  StaleOnlyInCount'
  <2>1. /\ passkeys' = passkeys
        /\ \A r \in DOMAIN row' :
              /\ r \in DOMAIN row /\ row'[r] = row[r]
              /\ r \in DOMAIN ask => ask'[r] = ask[r]
    BY <1>8 DEF Crash
  <2>2. \A r \in DOMAIN row : r \in DOMAIN ask
    BY DEF TypeOK, Held
  <2>3. QED
    BY <2>1, <2>2 DEF StaleOnlyInCount
<1>9. CASE UNCHANGED vars
  BY <1>9 DEF vars, locals, StaleOnlyInCount
<1>10. QED
  BY <1>1, <1>3, <1>5, <1>6, <1>7, <1>8, <1>9 DEF Next, Work

LEMMA InvStep == IInv /\ [Next]_vars => IInv'
<1> SUFFICES ASSUME IInv, [Next]_vars
             PROVE  IInv'
  OBVIOUS
<1>1. TypeOK'
  BY TypeStep DEF IInv
<1>2. Kept /\ OneKeyPerAccount' /\ Drawn'
  BY TableStep
<1>3. StaleOnlyInCount'
  BY <1>2, StaleStep
<1>4. QED
  BY <1>1, <1>2, <1>3 DEF IInv, Drawn

-----------------------------------------------------------------------------
(* The theorems                                                            *)

\* The inductive invariant holds in every reachable state of the store.
THEOREM Invariance == Spec => []IInv
<1>1. Init => IInv
  <2> SUFFICES ASSUME Init PROVE IInv
    OBVIOUS
  <2>1. TypeOK
    BY DEF Init, TypeOK, Empty, Answer, Held
  <2>2. OneKeyPerAccount /\ StaleOnlyInCount /\ Drawn
    BY DEF Init, OneKeyPerAccount, StaleOnlyInCount, Drawn, Empty
  <2>3. QED
    BY <2>1, <2>2 DEF IInv, Drawn
<1>2. QED
  BY <1>1, InvStep, PTL DEF Spec

\* However requests race to create it, an account has one key pair.
THEOREM AccountsHaveOneKey == Spec => []OneKeyPerAccount
<1>1. IInv => OneKeyPerAccount
  BY DEF IInv
<1>2. QED
  BY <1>1, Invariance, PTL

\* A row read before a concurrent write differs from the table in its count only.
THEOREM StaleRowsHaveTheKey == Spec => []StaleOnlyInCount
<1>1. IInv => StaleOnlyInCount
  BY DEF IInv
<1>2. QED
  BY <1>1, Invariance, PTL

\* The store implements the abstract one of key pairs chosen once.
THEOREM Refinement == Spec => ImplementsUserKeys
<1> DEFINE keyOf  == [a \in DOMAIN passkeys |-> passkeys[a].id]
           issued == {[user |-> answer.account, key |-> answer.key] : answer \in asserted}
<1>1. Init => Abstract!Init
  BY DEF Init, Abstract!Init, Empty
<1>2. IInv /\ [Next]_vars => [Abstract!Next]_(Abstract!vars)
  <2> SUFFICES ASSUME IInv, [Next]_vars
               PROVE  Abstract!Next \/ UNCHANGED Abstract!vars
    OBVIOUS
  <2>1. ASSUME NEW a \in Account, NEW id \in Id, Creates(a, id)
        PROVE  Abstract!Choose(a, id)
    <3>1. \A b \in DOMAIN keyOf : keyOf[b] # id
      BY <2>1 DEF Creates, IInv
    <3>2. keyOf' = [b \in DOMAIN keyOf \cup {a} |-> IF b = a THEN id ELSE keyOf[b]]
      BY <2>1 DEF Creates
    <3>3. a \notin DOMAIN keyOf /\ UNCHANGED issued
      BY <2>1 DEF Creates, answers
    <3>4. QED
      BY <3>1, <3>2, <3>3 DEF Abstract!Choose
  <2>2. ASSUME KeepsRows
        PROVE  UNCHANGED keyOf
    BY <2>2 DEF KeepsRows
  <2>3. ASSUME NEW r \in Request, KeepsRows, Registers(r)
        PROVE  UNCHANGED Abstract!vars
    BY <2>2, <2>3 DEF Registers, Abstract!vars
  <2>4. ASSUME NEW r \in Request, KeepsRows, Asserts(r)
        PROVE  ask[r].account \in Account /\ Abstract!Encrypt(ask[r].account)
    <3>1. /\ ask[r].account \in Account /\ ask[r].account \in DOMAIN keyOf
          /\ row[r].id = keyOf[ask[r].account]
      BY <2>4 DEF Asserts, IInv, StaleOnlyInCount, TypeOK
    <3>2. issued' = issued \cup {[user |-> ask[r].account, key |-> row[r].id]}
      <4>1. PICK n \in Nat : asserted' = asserted \cup
              {[account |-> ask[r].account, id |-> row[r].id, key |-> row[r].id,
                count |-> n]}
        BY <2>4 DEF Asserts
      <4> DEFINE new == [account |-> ask[r].account, id |-> row[r].id,
                         key |-> row[r].id, count |-> n]
      <4>2. new.account = ask[r].account /\ new.key = row[r].id
        OBVIOUS
      <4>3. asserted' = asserted \cup {new}
        BY <4>1
      <4> HIDE DEF new
      <4>4. QED
        BY <4>2, <4>3
    <3>3. QED
      BY <2>2, <2>4, <3>1, <3>2 DEF Abstract!Encrypt
  <2>5. ASSUME KeepsRows, UNCHANGED answers
        PROVE  UNCHANGED Abstract!vars
    BY <2>2, <2>5 DEF answers, Abstract!vars
  <2>6. CASE \E a \in Account, id \in Id : Creates(a, id)
    BY <2>1, <2>6 DEF Abstract!Next
  <2>7. CASE \E r \in Request : KeepsRows /\ (Registers(r) \/ Asserts(r))
    <3>1. PICK r \in Request : KeepsRows /\ (Registers(r) \/ Asserts(r))
      BY <2>7
    <3>2. CASE Registers(r)
      BY <2>3, <3>1, <3>2
    <3>3. CASE Asserts(r)
      <4>1. ask[r].account \in Account /\ Abstract!Encrypt(ask[r].account)
        BY <2>4, <3>1, <3>3
      <4>2. QED
        BY <4>1 DEF Abstract!Next, Abstract!Encrypt
    <3>4. QED
      BY <3>1, <3>2, <3>3
  <2>8. CASE KeepsRows /\ UNCHANGED answers
    BY <2>5, <2>8
  <2>9. TypeOK
    BY DEF IInv
  <2>10. \/ \E a \in Account, id \in Id : Creates(a, id)
         \/ KeepsRows /\ UNCHANGED answers
         \/ \E r \in Request : KeepsRows /\ (Registers(r) \/ Asserts(r))
    BY <2>9, StepEffect
  <2>11. QED
    BY <2>6, <2>7, <2>8, <2>10
<1>3. QED
  BY <1>1, <1>2, Invariance, PTL DEF Spec, ImplementsUserKeys, Abstract!Spec
=============================================================================
