------------------------- MODULE UserKeyStoreProofs -------------------------
(***************************************************************************)
(* Proofs about UserKeyStore, for every number of users, calls, processes  *)
(* and key pairs, and every placement of the calls.                        *)
(***************************************************************************)
EXTENDS UserKeyStore, TLAPS


-----------------------------------------------------------------------------
(* The type invariant                                                      *)

\* The row ReturnKey gives a call is a key pair, and the call has it in hand.
LEMMA ReturnType ==
    ASSUME TypeOK, NEW c \in Call, NEW k \in Key, pc[c] \in Critical,
           ReturnKey(c, k)
    PROVE  /\ pc' \in [Call -> Answer \cup Critical \cup Keyed \cup {"idle", "lock"}]
           /\ DOMAIN ask' = {d \in Call : pc'[d] # "idle"}
           /\ key' \in [DOMAIN key' -> Key]
           /\ DOMAIN key' = {d \in Call : pc'[d] \in Keyed}
           /\ holder' \in [Process \X User -> Call \cup {Nobody}]
           /\ ask' = ask
<1>1. DOMAIN key' = DOMAIN key \cup {c}
  BY DEF ReturnKey, Put
<1>2. key' \in [DOMAIN key' -> Key]
  BY DEF ReturnKey, Put, TypeOK
<1>3. holder' \in [Process \X User -> Call \cup {Nobody}]
  BY DEF ReturnKey, Unlock, TypeOK
<1>4. pc' = [pc EXCEPT ![c] = "use"] /\ ask' = ask
  BY DEF ReturnKey
<1>5. pc' \in [Call -> Answer \cup Critical \cup Keyed \cup {"idle", "lock"}]
  BY <1>4 DEF TypeOK, Keyed
<1>6. DOMAIN ask' = {d \in Call : pc'[d] # "idle"}
  BY <1>4 DEF TypeOK, Critical
<1>7. DOMAIN key' = {d \in Call : pc'[d] \in Keyed}
  BY <1>1, <1>4 DEF TypeOK, Keyed
<1>8. QED
  BY <1>2, <1>3, <1>4, <1>5, <1>6, <1>7

\* A call that is answered no longer has a key pair.
LEMMA ReplyType ==
    ASSUME TypeOK, NEW c \in Call, NEW answer \in Answer, pc[c] \in Keyed,
           Reply(c, answer)
    PROVE  /\ pc' = [pc EXCEPT ![c] = answer]
           /\ key' \in [DOMAIN key' -> Key]
           /\ DOMAIN key' = DOMAIN key \ {c}
           /\ UNCHANGED <<userKeys, history, holder, ask, generated>>
<1>1. DOMAIN key' = DOMAIN key \ {c}
  BY DEF Reply, Drop
<1>2. key' \in [DOMAIN key' -> Key]
  BY DEF Reply, Drop, TypeOK
<1>3. QED
  BY <1>1, <1>2 DEF Reply

\* What storeHistory is given is a ciphertext.
LEMMA DataType ==
    ASSUME TypeOK, NEW c \in Call, pc[c] \in Keyed
    PROVE  Data(c) \in Ciphertext
<1>1. c \in DOMAIN ask /\ c \in DOMAIN key /\ ask[c] \in Ask /\ key[c] \in Key
  BY DEF TypeOK, Keyed
<1>2. ask[c].op = "DECRYPT" => ask[c].text \in Ciphertext
  BY <1>1 DEF TypeOK, Ask
<1>3. ask[c].op # "ENCRYPT" => ask[c].op = "DECRYPT"
  BY <1>1 DEF Ask
<1>4. [user |-> ask[c].user, key |-> key[c]] \in Ciphertext
  BY <1>1 DEF Ask, Ciphertext
<1>5. QED
  BY <1>2, <1>3, <1>4 DEF Data

LEMMA TypeStep == TypeOK /\ [Next]_vars => TypeOK'
<1> SUFFICES ASSUME TypeOK, [Next]_vars
             PROVE  TypeOK'
  OBVIOUS
<1> USE UserKeyStoreAssumption DEF Answer, Critical, Keyed
<1>1. ASSUME NEW c \in Call, NEW request \in Requests, Receive(c, request)
      PROVE  TypeOK'
  <2>1. request \in Ask /\ (request.op = "DECRYPT" <=> request.text # NoText)
    BY DEF Requests, Ask, TypeOK, Ciphertext
  <2>2. /\ DOMAIN ask' = DOMAIN ask \cup {c}
        /\ ask' \in [DOMAIN ask' -> Ask]
        /\ \A d \in DOMAIN ask' : ask'[d] = IF d = c THEN request ELSE ask[d]
    BY <1>1, <2>1 DEF Receive, Put, TypeOK
  <2>3. /\ pc' = [pc EXCEPT ![c] = "lock"]
        /\ pc[c] \notin Keyed
    BY <1>1 DEF Receive, Free
  <2>4. DOMAIN ask' = {d \in Call : pc'[d] # "idle"}
    BY <2>2, <2>3 DEF TypeOK
  <2>5. DOMAIN key = {d \in Call : pc'[d] \in Keyed}
    BY <2>3 DEF TypeOK
  <2>6. \A d \in DOMAIN ask' : ask'[d].op = "DECRYPT" <=> ask'[d].text # NoText
    BY <2>1, <2>2 DEF TypeOK
  <2>7. pc' \in [Call -> Answer \cup Critical \cup Keyed \cup {"idle", "lock"}]
    BY <2>3 DEF TypeOK
  <2>8. QED
    BY <1>1, <2>2, <2>4, <2>5, <2>6, <2>7 DEF Receive, TypeOK
<1>2. ASSUME NEW c \in Call, Lock(c)
      PROVE  TypeOK'
  BY <1>2 DEF Lock, TypeOK
<1>3. ASSUME NEW c \in Call, LoadKey(c)
      PROVE  TypeOK'
  <2>1. CASE ask[c].user \in DOMAIN userKeys /\ ReturnKey(c, userKeys[ask[c].user])
    <3>1. userKeys[ask[c].user] \in Key
      BY <2>1 DEF TypeOK
    <3>2. pc[c] \in Critical /\ UNCHANGED <<userKeys, history, generated, issued>>
      BY <1>3 DEF LoadKey
    <3>3. QED
      BY <2>1, <3>1, <3>2, ReturnType DEF TypeOK
  <2>2. CASE pc' = [pc EXCEPT ![c] = "insert"] /\ UNCHANGED <<holder, ask, key>>
    BY <1>3, <2>2 DEF LoadKey, TypeOK
  <2>3. QED
    BY <1>3, <2>1, <2>2 DEF LoadKey
<1>4. ASSUME NEW c \in Call, GenerateAndInsert(c)
      PROVE  TypeOK'
  <2>1. PICK k \in Key \ generated : generated' = generated \cup {k} /\ Insert(c, k)
    BY <1>4 DEF GenerateAndInsert
  <2>2. CASE userKeys' = Put(userKeys, ask[c].user, k) /\ ReturnKey(c, k)
    <3>1. ask[c].user \in User
      BY <1>4 DEF GenerateAndInsert, TypeOK, Ask
    <3>2. /\ DOMAIN userKeys' = DOMAIN userKeys \cup {ask[c].user}
          /\ userKeys' \in [DOMAIN userKeys' -> Key]
      BY <2>2 DEF Put, TypeOK
    <3>3. pc[c] \in Critical /\ UNCHANGED <<history, issued>>
      BY <1>4 DEF GenerateAndInsert
    <3>4. QED
      BY <2>1, <2>2, <3>1, <3>2, <3>3, ReturnType DEF TypeOK
  <2>3. CASE pc' = [pc EXCEPT ![c] = "reload"] /\ UNCHANGED <<userKeys, holder, ask, key>>
    BY <1>4, <2>1, <2>3 DEF GenerateAndInsert, TypeOK
  <2>4. QED
    BY <2>1, <2>2, <2>3 DEF Insert
<1>5. ASSUME NEW c \in Call, ReloadKey(c)
      PROVE  TypeOK'
  <2>1. userKeys[ask[c].user] \in Key
    BY <1>5 DEF ReloadKey, TypeOK
  <2>2. /\ pc[c] \in Critical /\ ReturnKey(c, userKeys[ask[c].user])
        /\ UNCHANGED <<userKeys, history, generated, issued>>
    BY <1>5 DEF ReloadKey
  <2>3. QED
    BY <2>1, <2>2, ReturnType DEF TypeOK
<1>6. ASSUME NEW c \in Call, KeyFails(c)
      PROVE  TypeOK'
  <2>1. ask[c].user \in User
    BY <1>6 DEF KeyFails, TypeOK, Ask
  <2>2. /\ DOMAIN userKeys' \subseteq User
        /\ userKeys' \in [DOMAIN userKeys' -> Key]
        /\ generated' \subseteq Key
    <3>1. CASE UNCHANGED <<userKeys, generated>>
      BY <3>1 DEF TypeOK
    <3>2. CASE \E k \in Key \ generated :
                  /\ generated' = generated \cup {k}
                  /\ userKeys' = Put(userKeys, ask[c].user, k)
      BY <2>1, <3>2 DEF Put, TypeOK
    <3>3. QED
      BY <1>6, <3>1, <3>2 DEF KeyFails
  <2>3. QED
    BY <1>6, <2>2 DEF KeyFails, Unlock, TypeOK
<1>7. ASSUME NEW c \in Call, Encrypt(c)
      PROVE  TypeOK'
  <2>1. CASE Reply(c, "error")
    BY <1>7, <2>1, ReplyType DEF Encrypt, TypeOK
  <2>2. CASE pc' = [pc EXCEPT ![c] = "store"]
             /\ UNCHANGED <<userKeys, history, holder, ask, key, generated>>
    BY <1>7, <2>2 DEF Encrypt, TypeOK
  <2>3. QED
    BY <1>7, <2>1, <2>2 DEF Encrypt
<1>8. ASSUME NEW c \in Call, Decrypt(c)
      PROVE  TypeOK'
  <2>1. CASE Reply(c, "mismatch")
    BY <1>8, <2>1, ReplyType DEF Decrypt, TypeOK
  <2>2. CASE pc' = [pc EXCEPT ![c] = "store"]
             /\ UNCHANGED <<userKeys, history, holder, ask, key, generated>>
    BY <1>8, <2>2 DEF Decrypt, TypeOK
  <2>3. QED
    BY <1>8, <2>1, <2>2 DEF Decrypt
<1>9. ASSUME NEW c \in Call, StoreHistory(c)
      PROVE  TypeOK'
  <2>1. [user |-> ask[c].user, op |-> ask[c].op, text |-> Data(c)] \in Entry
    BY <1>9, DataType DEF StoreHistory, TypeOK, Ask, Entry
  <2>2. QED
    BY <1>9, <2>1 DEF StoreHistory, TypeOK
<1>10. ASSUME NEW c \in Call, ReplyCiphertext(c)
       PROVE  TypeOK'
  BY <1>10, ReplyType, DataType DEF ReplyCiphertext, TypeOK
<1>11. ASSUME NEW c \in Call, ReplyPlaintext(c)
       PROVE  TypeOK'
  BY <1>11, ReplyType DEF ReplyPlaintext, TypeOK
<1>12. ASSUME NEW p \in Process, Crash(p)
       PROVE  TypeOK'
  BY <1>12 DEF Crash, TypeOK
<1>13. CASE UNCHANGED vars
  BY <1>13 DEF vars, calls, TypeOK
<1>14. QED
  BY <1>1, <1>2, <1>3, <1>4, <1>5, <1>6, <1>7, <1>8, <1>9, <1>10, <1>11, <1>12,
     <1>13 DEF Next, Work

\* Every reachable state of the service is typed.
THEOREM TypeCorrect == Spec => []TypeOK
<1>1. Init => TypeOK
  BY UserKeyStoreAssumption
     DEF Init, TypeOK, Empty, Answer, Critical, Keyed
<1>2. QED
  BY <1>1, TypeStep, PTL DEF Spec

-----------------------------------------------------------------------------
(* The mutexes                                                             *)

\* A call leaves the critical section and unlocks, or goes on without either.
Leaves(c) ==
    /\ pc[c] \in Critical /\ pc'[c] \notin Critical
    /\ holder' = [holder EXCEPT ![Mutex(c)] = Nobody]

Advances(c) ==
    /\ pc[c] \in Critical <=> pc'[c] \in Critical
    /\ UNCHANGED holder

\* What Work does to the mutexes: nothing else than that.
LEMMA WorkEffect ==
    ASSUME TypeOK, NEW c \in Call, Work(c)
    PROVE  /\ ask' = ask
           /\ \A d \in Call \ {c} : pc'[d] = pc[d]
           /\ pc[c] \notin {"idle", "lock"}
           /\ Leaves(c) \/ Advances(c)
<1> USE DEF TypeOK, Critical, Keyed, Answer, Leaves, Advances
<1>1. CASE LoadKey(c)
  BY <1>1 DEF LoadKey, ReturnKey, Unlock
<1>2. CASE GenerateAndInsert(c)
  BY <1>2 DEF GenerateAndInsert, Insert, ReturnKey, Unlock
<1>3. CASE ReloadKey(c)
  BY <1>3 DEF ReloadKey, ReturnKey, Unlock
<1>4. CASE KeyFails(c)
  BY <1>4 DEF KeyFails, Unlock
<1>5. CASE Encrypt(c)
  BY <1>5 DEF Encrypt, Reply
<1>6. CASE Decrypt(c)
  BY <1>6 DEF Decrypt, Reply
<1>7. CASE StoreHistory(c)
  BY <1>7 DEF StoreHistory
<1>8. CASE ReplyCiphertext(c)
  BY <1>8 DEF ReplyCiphertext, Reply
<1>9. CASE ReplyPlaintext(c)
  BY <1>9 DEF ReplyPlaintext, Reply
<1>10. QED
  BY <1>1, <1>2, <1>3, <1>4, <1>5, <1>6, <1>7, <1>8, <1>9 DEF Work

LEMMA MutexStep ==
    TypeOK /\ TypeOK' /\ MutexDiscipline /\ [Next]_vars => MutexDiscipline'
<1> SUFFICES ASSUME TypeOK, TypeOK', MutexDiscipline, [Next]_vars
             PROVE  MutexDiscipline'
  OBVIOUS
<1> USE UserKeyStoreAssumption
<1>1. \A c \in DOMAIN ask : c \in Call /\ Mutex(c) \in Process \X User
  BY DEF TypeOK, Ask, Mutex
<1>2. ASSUME NEW c \in Call, NEW request \in Requests, Receive(c, request)
      PROVE  MutexDiscipline'
  <2>1. /\ pc[c] \notin Critical /\ pc'[c] \notin Critical
        /\ holder' = holder
        /\ c \in DOMAIN ask'
        /\ \A d \in Call \ {c} :
              /\ pc'[d] = pc[d]
              /\ d \in DOMAIN ask' <=> d \in DOMAIN ask
              /\ d \in DOMAIN ask => ask'[d] = ask[d]
    BY <1>2 DEF Receive, Free, TypeOK, Put, Critical, Answer
  <2>2. \A m \in Process \X User : holder[m] # c
    BY <2>1 DEF MutexDiscipline
  <2>3. Mutex(c)' \in Process \X User
    BY <2>1 DEF TypeOK, Ask, Mutex
  <2>4. \A d \in Call \ {c} :
          d \in DOMAIN ask => Mutex(d)' = Mutex(d)
    BY <2>1 DEF Mutex
  <2>5. QED
    BY <2>1, <2>2, <2>3, <2>4 DEF MutexDiscipline, TypeOK
<1>3. ASSUME NEW c \in Call, Lock(c)
      PROVE  MutexDiscipline'
  <2>1. /\ c \in DOMAIN ask /\ Mutex(c) \in Process \X User
        /\ ask' = ask
        /\ pc'[c] \in Critical /\ pc[c] \notin Critical
        /\ \A d \in Call \ {c} : pc'[d] = pc[d]
        /\ holder[Mutex(c)] = Nobody
        /\ holder' = [holder EXCEPT ![Mutex(c)] = c]
    BY <1>1, <1>3 DEF Lock, Available, TypeOK, Critical
  <2>2. \A d \in Call : Mutex(d)' = Mutex(d)
    BY <2>1 DEF Mutex
  <2>3. \A m \in Process \X User :
          holder'[m] = IF m = Mutex(c) THEN c ELSE holder[m]
    BY <2>1 DEF TypeOK
  <2>4. QED
    BY <1>1, <2>1, <2>2, <2>3 DEF MutexDiscipline
<1>4. ASSUME NEW c \in Call, Work(c)
      PROVE  MutexDiscipline'
  <2>1. /\ ask' = ask
        /\ \A d \in Call \ {c} : pc'[d] = pc[d]
        /\ c \in DOMAIN ask
        /\ Leaves(c) \/ Advances(c)
    BY <1>4, WorkEffect DEF TypeOK
  <2>2. \A d \in Call : Mutex(d)' = Mutex(d)
    BY <2>1 DEF Mutex
  <2>3. CASE Leaves(c)
    <3>1. \A m \in Process \X User :
            holder'[m] = IF m = Mutex(c) THEN Nobody ELSE holder[m]
      BY <2>3 DEF TypeOK, Leaves
    <3>2. \A d \in DOMAIN ask \ {c} : holder[Mutex(d)] = d => Mutex(d) # Mutex(c)
      BY <2>3 DEF Leaves, MutexDiscipline
    <3>3. QED
      BY <1>1, <2>1, <2>2, <2>3, <3>1, <3>2 DEF MutexDiscipline, Leaves
  <2>4. CASE Advances(c)
    BY <1>1, <2>1, <2>2, <2>4 DEF MutexDiscipline, Advances
  <2>5. QED
    BY <2>1, <2>3, <2>4
<1>5. ASSUME NEW p \in Process, Crash(p)
      PROVE  MutexDiscipline'
  <2>1. /\ \A c \in Call : host[c] = p => pc'[c] = "idle" /\ c \notin DOMAIN ask'
        /\ \A c \in Call : host[c] # p =>
              /\ pc'[c] = pc[c]
              /\ c \in DOMAIN ask' <=> c \in DOMAIN ask
              /\ c \in DOMAIN ask => ask'[c] = ask[c]
        /\ \A m \in Process \X User :
              holder'[m] = IF m[1] = p THEN Nobody ELSE holder[m]
    BY <1>5 DEF Crash, TypeOK
  <2>2. \A c \in Call : Mutex(c)[1] = host[c]
    BY DEF Mutex
  <2>3. \A c \in Call : host[c] # p /\ c \in DOMAIN ask => Mutex(c)' = Mutex(c)
    BY <2>1 DEF Mutex
  <2>4. \A c \in Call : pc'[c] \in Critical <=> c \in DOMAIN ask' /\ (holder[Mutex(c)] = c)'
    <3>1. \A c \in Call : host[c] = p => pc'[c] \notin Critical /\ c \notin DOMAIN ask'
      BY <2>1 DEF Critical
    <3>2. \A c \in Call : host[c] # p /\ c \in DOMAIN ask =>
            holder'[Mutex(c)'] = holder[Mutex(c)]
      BY <1>1, <2>1, <2>2, <2>3
    <3>3. QED
      BY <2>1, <3>1, <3>2 DEF MutexDiscipline
  <2>5. \A m \in Process \X User :
          holder'[m] # Nobody => holder'[m] \in DOMAIN ask' /\ (Mutex(holder[m]) = m)'
    <3> SUFFICES ASSUME NEW m \in Process \X User, holder'[m] # Nobody
                 PROVE  holder'[m] \in DOMAIN ask' /\ Mutex(holder[m])' = m
      OBVIOUS
    <3>1. /\ m[1] # p /\ holder'[m] = holder[m]
          /\ holder[m] \in DOMAIN ask /\ Mutex(holder[m]) = m
      BY <2>1 DEF MutexDiscipline
    <3>2. host[holder[m]] # p
      BY <1>1, <2>2, <3>1
    <3>3. QED
      BY <1>1, <2>1, <2>3, <3>1, <3>2 DEF Mutex
  <2>6. QED
    BY <2>4, <2>5 DEF MutexDiscipline
<1>6. CASE UNCHANGED vars
  BY <1>6 DEF vars, calls, MutexDiscipline, Mutex
<1>7. QED
  BY <1>2, <1>3, <1>4, <1>5, <1>6 DEF Next

-----------------------------------------------------------------------------
(* The tables                                                              *)

\* A row is inserted for a user without one, with a key pair just generated.
Creates(u, k) ==
    /\ u \notin DOMAIN userKeys
    /\ k \notin generated
    /\ userKeys' = Put(userKeys, u, k)
    /\ generated' = generated \cup {k}
    /\ UNCHANGED issued

\* A call that encrypted answers with its ciphertext.
Issues(c) ==
    /\ c \in DOMAIN key
    /\ issued' = issued \cup {[user |-> ask[c].user, key |-> key[c]]}
    /\ UNCHANGED <<userKeys, generated>>

\* Nothing else happens to them, except that a key pair generated is discarded.
Discards ==
    /\ generated \subseteq generated'
    /\ UNCHANGED <<userKeys, issued>>

LEMMA TableEffect ==
    ASSUME TypeOK, [Next]_vars
    PROVE  \/ \E u \in User, k \in Key : Creates(u, k)
           \/ \E c \in Call : Issues(c)
           \/ Discards
<1>1. ASSUME NEW c \in Call, GenerateAndInsert(c) \/ KeyFails(c)
      PROVE  Discards \/ \E u \in User, k \in Key : Creates(u, k)
  <2>1. ask[c].user \in User
    BY <1>1 DEF GenerateAndInsert, KeyFails, TypeOK, Ask, Critical
  <2>2. CASE GenerateAndInsert(c)
    <3>1. PICK k \in Key \ generated :
            generated' = generated \cup {k} /\ Insert(c, k) /\ UNCHANGED issued
      BY <2>2 DEF GenerateAndInsert
    <3>2. UNCHANGED userKeys \/ Creates(ask[c].user, k)
      BY <3>1 DEF Insert, Creates
    <3>3. QED
      BY <2>1, <3>1, <3>2 DEF Discards
  <2>3. CASE KeyFails(c)
    BY <2>1, <2>3 DEF KeyFails, Creates, Discards
  <2>4. QED
    BY <1>1, <2>2, <2>3
<1>2. ASSUME NEW c \in Call, ReplyCiphertext(c)
      PROVE  Issues(c)
  BY <1>2 DEF ReplyCiphertext, Reply, Issues, Data, TypeOK, Keyed
<1>3. ASSUME NEW c \in Call,
             Lock(c) \/ LoadKey(c) \/ ReloadKey(c) \/ Encrypt(c) \/ Decrypt(c)
               \/ StoreHistory(c) \/ ReplyPlaintext(c)
      PROVE  Discards
  BY <1>3 DEF Lock, LoadKey, ReloadKey, Encrypt, Decrypt, StoreHistory,
              ReplyPlaintext, Reply, Discards
<1>4. ASSUME NEW c \in Call, NEW request \in Requests, Receive(c, request)
      PROVE  Discards
  BY <1>4 DEF Receive, Discards
<1>5. ASSUME NEW p \in Process, Crash(p)
      PROVE  Discards
  BY <1>5 DEF Crash, Discards
<1>6. CASE UNCHANGED vars
  BY <1>6 DEF vars, Discards
<1>7. QED
  BY <1>1, <1>2, <1>3, <1>4, <1>5, <1>6 DEF Next, Work

\* Rows stay, and key pairs in the table stay distinct and generated.
Kept ==
    \A u \in DOMAIN userKeys :
        u \in DOMAIN userKeys' /\ userKeys'[u] = userKeys[u]

Generated == \A u \in DOMAIN userKeys : userKeys[u] \in generated

LEMMA TableStep ==
    ASSUME TypeOK, KeyAgreement, Decryptable, Generated, [Next]_vars
    PROVE  Kept /\ issued \subseteq issued' /\ Decryptable' /\ Generated'
<1>1. ASSUME NEW u \in User, NEW k \in Key, Creates(u, k)
      PROVE  Kept /\ issued \subseteq issued' /\ Decryptable' /\ Generated'
  <2>1. /\ DOMAIN userKeys' = DOMAIN userKeys \cup {u}
        /\ \A v \in DOMAIN userKeys : v # u /\ userKeys'[v] = userKeys[v]
        /\ userKeys'[u] = k
    BY <1>1 DEF Creates, Put
  <2>2. \A v \in DOMAIN userKeys : userKeys'[v] # k
    BY <1>1, <2>1 DEF Creates, Generated
  <2>3. Decryptable'
    BY <1>1, <2>1, <2>2 DEF Creates, Decryptable
  <2>4. QED
    BY <1>1, <2>1, <2>3 DEF Creates, Kept, Generated
<1>2. ASSUME NEW c \in Call, Issues(c)
      PROVE  Kept /\ issued \subseteq issued' /\ Decryptable' /\ Generated'
  BY <1>2 DEF Issues, KeyAgreement, Decryptable, Kept, Generated
<1>3. CASE Discards
  BY <1>3 DEF Discards, Decryptable, Kept, Generated
<1>4. QED
  BY <1>1, <1>2, <1>3, TableEffect

-----------------------------------------------------------------------------
(* The calls                                                               *)

\* A call comes by a key pair only by reading or inserting its user's row.
LEMMA KeyStep ==
    ASSUME TypeOK, TypeOK', KeyAgreement, Kept, [Next]_vars
    PROVE  KeyAgreement'
<1>1. ASSUME NEW c \in Call, NEW request \in Requests, Receive(c, request)
      PROVE  KeyAgreement'
  <2>1. c \notin DOMAIN key
    BY <1>1 DEF Receive, Free, TypeOK, Keyed, Answer
  <2>2. QED
    BY <1>1, <2>1 DEF Receive, Put, KeyAgreement, TypeOK, Keyed
<1>2. ASSUME NEW c \in Call, Lock(c)
      PROVE  KeyAgreement'
  BY <1>2 DEF Lock, KeyAgreement
<1>3. ASSUME NEW c \in Call, NEW k \in Key, ReturnKey(c, k),
             ask[c].user \in DOMAIN userKeys', k = userKeys'[ask[c].user]
      PROVE  KeyAgreement'
  <2>1. /\ DOMAIN key' = DOMAIN key \cup {c}
        /\ key'[c] = k
        /\ \A d \in DOMAIN key : d # c => key'[d] = key[d]
        /\ ask' = ask
    BY <1>3 DEF ReturnKey, Put
  <2>2. QED
    BY <1>3, <2>1 DEF KeyAgreement, Kept
<1>4. ASSUME NEW c \in Call, LoadKey(c)
      PROVE  KeyAgreement'
  <2>1. CASE ask[c].user \in DOMAIN userKeys /\ ReturnKey(c, userKeys[ask[c].user])
    BY <1>3, <1>4, <2>1 DEF LoadKey, TypeOK
  <2>2. CASE UNCHANGED <<holder, ask, key>>
    BY <1>4, <2>2 DEF LoadKey, KeyAgreement
  <2>3. QED
    BY <1>4, <2>1, <2>2 DEF LoadKey
<1>5. ASSUME NEW c \in Call, GenerateAndInsert(c)
      PROVE  KeyAgreement'
  <2>1. PICK k \in Key \ generated : Insert(c, k)
    BY <1>5 DEF GenerateAndInsert
  <2>2. CASE userKeys' = Put(userKeys, ask[c].user, k) /\ ReturnKey(c, k)
    <3>1. ask[c].user \in DOMAIN userKeys' /\ k = userKeys'[ask[c].user]
      BY <2>2 DEF Put
    <3>2. QED
      BY <1>3, <2>2, <3>1
  <2>3. CASE UNCHANGED <<userKeys, holder, ask, key>>
    BY <2>3 DEF KeyAgreement
  <2>4. QED
    BY <2>1, <2>2, <2>3 DEF Insert
<1>6. ASSUME NEW c \in Call, ReloadKey(c)
      PROVE  KeyAgreement'
  BY <1>3, <1>6 DEF ReloadKey, TypeOK
<1>7. ASSUME NEW c \in Call, NEW answer \in Answer, Reply(c, answer)
      PROVE  KeyAgreement'
  BY <1>7 DEF Reply, Drop, KeyAgreement
<1>8. ASSUME NEW c \in Call, KeyFails(c) \/ StoreHistory(c)
      PROVE  KeyAgreement'
  BY <1>8 DEF KeyFails, StoreHistory, KeyAgreement, Kept
<1>9. ASSUME NEW c \in Call,
             Encrypt(c) \/ Decrypt(c) \/ ReplyCiphertext(c) \/ ReplyPlaintext(c)
      PROVE  KeyAgreement'
  BY <1>7, <1>9 DEF Encrypt, Decrypt, ReplyCiphertext, ReplyPlaintext, Answer,
                    KeyAgreement
<1>10. ASSUME NEW p \in Process, Crash(p)
       PROVE  KeyAgreement'
  <2>1. /\ userKeys' = userKeys
        /\ \A c \in DOMAIN key' : c \in DOMAIN key /\ key'[c] = key[c]
        /\ \A c \in DOMAIN key' : c \in DOMAIN ask' /\ ask'[c] = ask[c]
    BY <1>10 DEF Crash, TypeOK, Keyed
  <2>2. QED
    BY <2>1 DEF KeyAgreement
<1>11. CASE UNCHANGED vars
  BY <1>11 DEF vars, calls, KeyAgreement
<1>12. QED
  BY <1>1, <1>2, <1>4, <1>5, <1>6, <1>8, <1>9, <1>10, <1>11 DEF Next, Work

\* What WorkEffect leaves open: the ways a call gets past DecryptOAEP, to an
\* answer and to a history entry.
LEMMA AnswerEffect ==
    ASSUME TypeOK, NEW c \in Call, Work(c)
    PROVE  /\ pc'[c] \in {"store", "reply"} /\ ask[c].op = "DECRYPT" =>
                 Opens(c) \/ pc[c] \in {"store", "reply"}
           /\ pc'[c] \in {"store", "reply"} => c \in DOMAIN key /\ key'[c] = key[c]
           /\ pc'[c] = "plaintext" => pc[c] = "reply" /\ ask[c].op = "DECRYPT"
           /\ pc'[c] = "mismatch" =>
                 c \in DOMAIN key /\ ask[c].op = "DECRYPT" /\ ~Opens(c)
           /\ \A entry \in history' :
                 \/ entry \in history
                 \/ /\ pc[c] = "store"
                    /\ entry = [user |-> ask[c].user, op |-> ask[c].op, text |-> Data(c)]
<1> USE DEF TypeOK, Critical, Keyed, Answer
<1>1. CASE LoadKey(c)
  BY <1>1 DEF LoadKey, ReturnKey
<1>2. CASE GenerateAndInsert(c)
  BY <1>2 DEF GenerateAndInsert, Insert, ReturnKey
<1>3. CASE ReloadKey(c)
  BY <1>3 DEF ReloadKey, ReturnKey
<1>4. CASE KeyFails(c)
  BY <1>4 DEF KeyFails
<1>5. CASE Encrypt(c)
  BY <1>5 DEF Encrypt, Reply
<1>6. CASE Decrypt(c)
  BY <1>6 DEF Decrypt, Reply
<1>7. CASE StoreHistory(c)
  BY <1>7 DEF StoreHistory
<1>8. CASE ReplyCiphertext(c)
  BY <1>8 DEF ReplyCiphertext, Reply
<1>9. CASE ReplyPlaintext(c)
  BY <1>9 DEF ReplyPlaintext, Reply
<1>10. QED
  BY <1>1, <1>2, <1>3, <1>4, <1>5, <1>6, <1>7, <1>8, <1>9 DEF Work

LEMMA StrengtheningStep ==
    ASSUME TypeOK, TypeOK', Strengthening, Generated',
           issued \subseteq issued', [Next]_vars
    PROVE  Strengthening'
<1> DEFINE Asked == \A c \in DOMAIN ask :
                       ask[c].op = "DECRYPT" => ask[c].text \in issued
           Past   == \A c \in Call :
                       pc[c] \in {"store", "reply"} /\ ask[c].op = "DECRYPT" => Opens(c)
<1>1. Asked /\ Past
  BY DEF Strengthening
<1>2. ASSUME NEW c \in Call, NEW request \in Requests, Receive(c, request)
      PROVE  Asked' /\ Past'
  <2>1. /\ request.op = "DECRYPT" => request.text \in issued
        /\ c \in DOMAIN ask' /\ ask'[c] = request
        /\ \A d \in DOMAIN ask' : d # c => d \in DOMAIN ask /\ ask'[d] = ask[d]
    BY <1>2 DEF Receive, Requests, Put
  <2>2. /\ key' = key /\ issued' = issued
        /\ pc'[c] = "lock"
        /\ \A d \in Call : d # c => pc'[d] = pc[d]
    BY <1>2 DEF Receive, TypeOK
  <2>3. Asked'
    BY <1>1, <2>1, <2>2
  <2>4. ASSUME NEW d \in Call, pc'[d] \in {"store", "reply"}, ask'[d].op = "DECRYPT"
        PROVE  Opens(d)'
    <3>1. d # c /\ pc[d] = pc'[d] /\ d \in DOMAIN ask'
      BY <2>2, <2>4 DEF TypeOK
    <3>2. ask'[d] = ask[d]
      BY <2>1, <3>1
    <3>3. QED
      BY <1>1, <2>2, <2>4, <3>1, <3>2 DEF Opens
  <2>5. QED
    BY <2>3, <2>4
<1>3. ASSUME NEW c \in Call, Lock(c)
      PROVE  Asked' /\ Past'
  BY <1>1, <1>3 DEF Lock, TypeOK, Opens
<1>4. ASSUME NEW c \in Call, Work(c)
      PROVE  Asked' /\ Past'
  <2>1. ask' = ask /\ \A d \in Call \ {c} : pc'[d] = pc[d]
    BY <1>4, WorkEffect
  <2>2. \A d \in Call \ {c} : d \in DOMAIN key => key'[d] = key[d]
    BY <1>4 DEF Work, LoadKey, GenerateAndInsert, Insert, ReloadKey, KeyFails, Encrypt,
               Decrypt, StoreHistory, ReplyCiphertext, ReplyPlaintext, Reply,
               ReturnKey, Put, Drop
  <2>3. \A d \in Call \ {c} : pc[d] \in {"store", "reply"} => d \in DOMAIN key
    BY DEF TypeOK, Keyed
  <2>4. Asked'
    BY <1>1, <2>1
  <2>5. ASSUME NEW d \in Call, pc'[d] \in {"store", "reply"}, ask'[d].op = "DECRYPT"
        PROVE  Opens(d)'
    <3>1. CASE d = c
      BY <1>1, <1>4, <2>1, <2>5, <3>1, AnswerEffect DEF Opens
    <3>2. CASE d # c
      BY <1>1, <2>1, <2>2, <2>3, <2>5, <3>2 DEF Opens
    <3>3. QED
      BY <3>1, <3>2
  <2>6. QED
    BY <2>4, <2>5
<1>5. ASSUME NEW p \in Process, Crash(p)
      PROVE  Asked' /\ Past'
  <2>1. /\ issued' = issued
        /\ \A c \in DOMAIN ask' : c \in DOMAIN ask /\ ask'[c] = ask[c]
        /\ \A c \in DOMAIN key' : c \in DOMAIN key /\ key'[c] = key[c]
        /\ \A c \in Call : pc'[c] = "idle" \/ pc'[c] = pc[c]
    BY <1>5 DEF Crash, TypeOK
  <2>2. \A c \in Call : pc'[c] \in {"store", "reply"} =>
                          c \in DOMAIN ask' /\ c \in DOMAIN key'
    BY DEF TypeOK, Keyed
  <2>3. QED
    BY <1>1, <2>1, <2>2 DEF Opens
<1>6. ASSUME UNCHANGED vars
      PROVE  Asked' /\ Past'
  BY <1>1, <1>6 DEF vars, calls, Opens
<1>7. Asked' /\ Past'
  BY <1>2, <1>3, <1>4, <1>5, <1>6 DEF Next
<1>8. QED
  BY <1>7 DEF Strengthening, Generated

\* Whose text it is and whose key it is are told apart by Decryptable.
LEMMA RoundTripStep ==
    ASSUME IInv, TypeOK', [Next]_vars
    PROVE  RoundTrip'
<1> USE DEF IInv
<1>1. ASSUME NEW c \in Call, NEW request \in Requests, Receive(c, request)
      PROVE  RoundTrip'
  BY <1>1 DEF Receive, TypeOK, Put, RoundTrip
<1>2. ASSUME NEW c \in Call, Lock(c)
      PROVE  RoundTrip'
  BY <1>2 DEF Lock, TypeOK, RoundTrip
<1>3. ASSUME NEW c \in Call, Work(c)
      PROVE  RoundTrip'
  <2>1. ask' = ask /\ \A d \in Call \ {c} : pc'[d] = pc[d]
    BY <1>3, WorkEffect
  <2>2. ASSUME pc'[c] = "plaintext"
        PROVE  ask[c].text.user = ask[c].user
    <3>1. pc[c] = "reply" /\ ask[c].op = "DECRYPT"
      BY <1>3, <2>2, AnswerEffect
    <3>2. c \in DOMAIN ask /\ c \in DOMAIN key /\ Opens(c)
      BY <3>1 DEF TypeOK, Keyed, Strengthening
    <3>3. ask[c].text \in issued /\ ask[c].text.key = userKeys[ask[c].user]
      BY <3>1, <3>2 DEF Strengthening, KeyAgreement, Opens
    <3>4. QED
      BY <3>2, <3>3 DEF Decryptable, KeyAgreement
  <2>3. ASSUME pc'[c] = "mismatch"
        PROVE  ask[c].text.user # ask[c].user
    <3>1. c \in DOMAIN key /\ ask[c].op = "DECRYPT" /\ ~Opens(c)
      BY <1>3, <2>3, AnswerEffect
    <3>2. c \in DOMAIN ask
      BY <3>1 DEF TypeOK, Keyed
    <3>3. ask[c].text \in issued /\ ask[c].text.key # userKeys[ask[c].user]
      BY <3>1, <3>2 DEF Strengthening, KeyAgreement, Opens
    <3>4. QED
      BY <3>3 DEF Decryptable
  <2>4. QED
    BY <2>1, <2>2, <2>3 DEF RoundTrip
<1>4. ASSUME NEW p \in Process, Crash(p)
      PROVE  RoundTrip'
  <2>1. \A c \in Call : \/ pc'[c] = "idle"
                        \/ pc'[c] = pc[c] /\ (c \in DOMAIN ask => ask'[c] = ask[c])
    BY <1>4 DEF Crash, TypeOK
  <2>2. \A c \in Call : pc[c] \in {"plaintext", "mismatch"} => c \in DOMAIN ask
    BY DEF TypeOK
  <2>3. QED
    BY <2>1, <2>2 DEF RoundTrip
<1>5. CASE UNCHANGED vars
  BY <1>5 DEF vars, calls, RoundTrip
<1>6. QED
  BY <1>1, <1>2, <1>3, <1>4, <1>5 DEF Next

LEMMA HistoryStep ==
    ASSUME IInv, Kept, issued \subseteq issued', [Next]_vars
    PROVE  HistoryHonest'
<1> USE DEF IInv
<1> DEFINE Honest(entry) ==
        /\ entry.text.user = entry.user
        /\ entry.user \in DOMAIN userKeys /\ userKeys[entry.user] = entry.text.key
        /\ entry.op = "DECRYPT" => entry.text \in issued
<1>1. ASSUME NEW c \in Call, pc[c] = "store"
      PROVE  Honest([user |-> ask[c].user, op |-> ask[c].op, text |-> Data(c)])
  <2>1. /\ c \in DOMAIN ask /\ c \in DOMAIN key
        /\ ask[c].user \in DOMAIN userKeys /\ key[c] = userKeys[ask[c].user]
        /\ ask[c].op \in {"ENCRYPT", "DECRYPT"}
    BY <1>1 DEF TypeOK, Keyed, Ask, KeyAgreement
  <2>2. CASE ask[c].op = "ENCRYPT"
    BY <2>1, <2>2 DEF Data
  <2>3. CASE ask[c].op = "DECRYPT"
    <3>1. ask[c].text \in issued /\ ask[c].text.key = key[c]
      BY <1>1, <2>1, <2>3 DEF Strengthening, Opens
    <3>2. ask[c].text.user = ask[c].user
      BY <2>1, <3>1 DEF Decryptable
    <3>3. QED
      BY <2>1, <2>3, <3>1, <3>2 DEF Data
  <2>4. QED
    BY <2>1, <2>2, <2>3
<1>2. \A entry \in history' : Honest(entry)
  <2>1. \A entry \in history : Honest(entry)
    BY DEF HistoryHonest
  <2>2. CASE \E c \in Call : Work(c)
    <3>1. PICK c \in Call : Work(c)
      BY <2>2
    <3>2. \A entry \in history' :
            \/ entry \in history
            \/ /\ pc[c] = "store"
               /\ entry = [user |-> ask[c].user, op |-> ask[c].op, text |-> Data(c)]
      BY <3>1, AnswerEffect
    <3> HIDE DEF Honest
    <3>3. QED
      BY <1>1, <2>1, <3>2
  <2>3. CASE history' = history
    BY <2>1, <2>3
  <2>4. QED
    BY <2>2, <2>3 DEF Next, Receive, Lock, Crash, vars
<1>3. QED
  BY <1>2 DEF HistoryHonest, Kept

LEMMA InvStep == IInv /\ [Next]_vars => IInv'
<1> SUFFICES ASSUME IInv, [Next]_vars
             PROVE  IInv'
  OBVIOUS
<1>1. TypeOK'
  BY TypeStep DEF IInv
<1>2. MutexDiscipline'
  BY <1>1, MutexStep DEF IInv
<1>3. Kept /\ issued \subseteq issued' /\ Decryptable' /\ Generated'
  BY TableStep DEF IInv, Strengthening, Generated
<1>4. KeyAgreement'
  BY <1>1, <1>3, KeyStep DEF IInv
<1>5. Strengthening'
  BY <1>1, <1>3, StrengtheningStep DEF IInv
<1>6. RoundTrip' /\ HistoryHonest'
  BY <1>1, <1>3, RoundTripStep, HistoryStep
<1>7. QED
  BY <1>1, <1>2, <1>3, <1>4, <1>5, <1>6 DEF IInv

-----------------------------------------------------------------------------
(* The theorems                                                            *)

\* The inductive invariant holds in every reachable state of the service.
THEOREM Invariance == Spec => []IInv
<1>1. Init => IInv
  <2> SUFFICES ASSUME Init PROVE IInv
    OBVIOUS
  <2>1. TypeOK
    BY UserKeyStoreAssumption DEF Init, TypeOK, Empty, Answer, Critical, Keyed
  <2>2. MutexDiscipline
    BY UserKeyStoreAssumption DEF Init, MutexDiscipline, Empty, Critical
  <2>3. KeyAgreement /\ Decryptable /\ RoundTrip /\ HistoryHonest /\ Strengthening
    BY DEF Init, KeyAgreement, Decryptable, RoundTrip, HistoryHonest, Strengthening,
           Empty
  <2>4. QED
    BY <2>1, <2>2, <2>3 DEF IInv
<1>2. QED
  BY <1>1, InvStep, PTL DEF Spec

\* At most one call of a process works on a user's key at a time, and every
\* path out of getOrCreateUserKey unlocks.
THEOREM MutexesAreDisciplined == Spec => []MutexDiscipline
<1>1. IInv => MutexDiscipline
  BY DEF IInv
<1>2. QED
  BY <1>1, Invariance, PTL

\* Calls of processes that raced to create a user's key pair agree on it.
THEOREM CallsAgree == Spec => []KeyAgreement
<1>1. IInv => KeyAgreement
  BY DEF IInv
<1>2. QED
  BY <1>1, Invariance, PTL

\* What was encrypted can be decrypted at any later time.
THEOREM CiphertextsDecrypt == Spec => []Decryptable
<1>1. IInv => Decryptable
  BY DEF IInv
<1>2. QED
  BY <1>1, Invariance, PTL

\* A decryption returns the plaintext to its own user, and to no other.
THEOREM DecryptionsReturn == Spec => []RoundTrip
<1>1. IInv => RoundTrip
  BY DEF IInv
<1>2. QED
  BY <1>1, Invariance, PTL

\* No entry of the history claims what did not take place.
THEOREM HistoryIsHonest == Spec => []HistoryHonest
<1>1. IInv => HistoryHonest
  BY DEF IInv
<1>2. QED
  BY <1>1, Invariance, PTL

\* No step replaces or removes a key pair.
THEOREM KeysAreForever == Spec => KeyIsForever
<1>1. IInv /\ [Next]_vars => [Kept]_vars
  BY TableStep DEF IInv, Strengthening, Generated
<1>2. QED
  BY <1>1, Invariance, PTL DEF Spec, KeyIsForever, Kept

\* The service implements UserKeys: two processes that both generate a key pair
\* for a user still choose it once.
THEOREM Refinement == Spec => ImplementsUserKeys
<1>1. Init => Abstract!Init
  BY DEF Init, Abstract!Init, Empty
<1>2. IInv /\ [Next]_vars => [Abstract!Next]_(Abstract!vars)
  <2> SUFFICES ASSUME IInv, [Next]_vars
               PROVE  Abstract!Next \/ UNCHANGED Abstract!vars
    OBVIOUS
  <2>1. ASSUME NEW u \in User, NEW k \in Key, Creates(u, k)
        PROVE  Abstract!Choose(u, k)
    BY <2>1 DEF Creates, Put, IInv, Strengthening, Abstract!Choose
  <2>2. ASSUME NEW c \in Call, Issues(c)
        PROVE  ask[c].user \in User /\ Abstract!Encrypt(ask[c].user)
    BY <2>2 DEF Issues, IInv, TypeOK, Keyed, Ask, KeyAgreement, Abstract!Encrypt
  <2>3. CASE Discards
    BY <2>3 DEF Discards, Abstract!vars
  <2>4. QED
    BY <2>1, <2>2, <2>3, TableEffect DEF IInv, Abstract!Next
<1>3. QED
  BY <1>1, <1>2, Invariance, PTL DEF Spec, ImplementsUserKeys, Abstract!Spec
=============================================================================
