---------------------------- MODULE UserKeyStore ----------------------------
(***************************************************************************)
(* The crypto service: crypto/key_store.go, server.go and main.go.         *)
(*                                                                         *)
(* Encrypt and Decrypt first get the user's RSA key pair, creating it on   *)
(* first use.  Within a process a mutex per user serialises that; between  *)
(* processes, which share the database and not the mutex, only the primary *)
(* key of user_keys does.  Statements commit one by one and may fail, and  *)
(* a process may die, which frees its mutexes.                             *)
(***************************************************************************)
EXTENDS Integers

CONSTANTS
    User,       \* the user_id strings calls are made with
    Key,        \* RSA key pairs GenerateKey may return
    Process,    \* running copies of the service
    Call,       \* gRPC calls that may run at a time
    host,       \* the process each of them runs in
    NoText,     \* the data of an Encrypt call
    Nobody      \* an unlocked mutex

ASSUME UserKeyStoreAssumption ==
    /\ host \in [Call -> Process]
    /\ Nobody \notin Call
    /\ NoText \notin [user : User, key : Key]

VARIABLES
    userKeys,   \* the user_keys table: user_id -> key pair
    history,    \* the encryption_decryption_history table
    holder,     \* userKeyLocks: who holds the mutex of a user in a process
    pc,         \* how far each call is, or how it was answered
    ask,        \* what it was asked
    key,        \* the key pair getOrCreateUserKey returned to it
    generated,  \* history variable: key pairs GenerateKey has returned
    issued      \* history variable: the ciphertexts handed out

calls == <<pc, ask, key>>
vars  == <<userKeys, history, holder, calls, generated, issued>>

\* A ciphertext is for a user, and under a key; Decrypt sees only the key.
Ciphertext == [user : User, key : Key]

Ask == [user : User, op : {"ENCRYPT", "DECRYPT"}, text : Ciphertext \cup {NoText}]

Entry == [user : User, op : {"ENCRYPT", "DECRYPT"}, text : Ciphertext]

Answer == {"ciphertext", "plaintext", "mismatch", "error"}

\* Between Lock and the deferred Unlock of getOrCreateUserKey.
Critical == {"load", "insert", "reload"}

\* With a key pair in hand.
Keyed == {"use", "store", "reply"}

Free(c)  == pc[c] \in Answer \cup {"idle"}
Mutex(c) == <<host[c], ask[c].user>>

Put(f, k, v) == [x \in DOMAIN f \cup {k} |-> IF x = k THEN v ELSE f[x]]
Drop(f, k)   == [x \in DOMAIN f \ {k} |-> f[x]]
Empty        == [x \in {} |-> x]

Init ==
    /\ userKeys = Empty
    /\ history = {}
    /\ holder = [m \in Process \X User |-> Nobody]
    /\ pc = [c \in Call |-> "idle"]
    /\ ask = Empty
    /\ key = Empty
    /\ generated = {}
    /\ issued = {}

-----------------------------------------------------------------------------
(* getOrCreateUserKey                                                      *)

\* A call arrives: Encrypt for a user, or Decrypt of any ciphertext there is.
Receive(c, request) ==
    /\ Free(c)
    /\ pc' = [pc EXCEPT ![c] = "lock"]
    /\ ask' = Put(ask, c, request)
    /\ UNCHANGED <<userKeys, history, holder, key, generated, issued>>

\* Fault: the mutex a call finds is not the one the others use.
AvailableAlways(c) == c \in Call

\* LoadOrStore gives every call of the process the same mutex for the user.
Available(c) == holder[Mutex(c)] = Nobody

Lock(c) ==
    /\ pc[c] = "lock"
    /\ Available(c)
    /\ holder' = [holder EXCEPT ![Mutex(c)] = c]
    /\ pc' = [pc EXCEPT ![c] = "load"]
    /\ UNCHANGED <<userKeys, history, ask, key, generated, issued>>

\* Fault: a path that returns without the unlock.
KeepLock(c) == UNCHANGED holder

Unlock(c) == holder' = [holder EXCEPT ![Mutex(c)] = Nobody]

\* getOrCreateUserKey returns k: the deferred Unlock runs.
ReturnKey(c, k) ==
    /\ key' = Put(key, c, k)
    /\ pc' = [pc EXCEPT ![c] = "use"]
    /\ Unlock(c)
    /\ UNCHANGED ask

LoadKey(c) ==
    LET u == ask[c].user IN
    /\ pc[c] = "load"
    /\ \/ /\ u \in DOMAIN userKeys
          /\ ReturnKey(c, userKeys[u])
       \/ /\ u \notin DOMAIN userKeys
          /\ pc' = [pc EXCEPT ![c] = "insert"]
          /\ UNCHANGED <<holder, ask, key>>
    /\ UNCHANGED <<userKeys, history, generated, issued>>

\* Faults: INSERT ... ON CONFLICT DO UPDATE, or DO NOTHING and no reread.
InsertUpsert(c, k) ==
    /\ userKeys' = Put(userKeys, ask[c].user, k)
    /\ ReturnKey(c, k)
InsertOwnKey(c, k) ==
    /\ userKeys' = IF ask[c].user \in DOMAIN userKeys THEN userKeys
                                                      ELSE Put(userKeys, ask[c].user, k)
    /\ ReturnKey(c, k)

\* INSERT INTO user_keys: the first row for a user stays, a second one is a
\* unique violation and the call goes on to read the first.
Insert(c, k) ==
    LET u == ask[c].user IN
    \/ /\ u \notin DOMAIN userKeys
       /\ userKeys' = Put(userKeys, u, k)
       /\ ReturnKey(c, k)
    \/ /\ u \in DOMAIN userKeys
       /\ pc' = [pc EXCEPT ![c] = "reload"]
       /\ UNCHANGED <<userKeys, holder, ask, key>>

GenerateAndInsert(c) ==
    /\ pc[c] = "insert"
    /\ \E k \in Key \ generated :
         /\ generated' = generated \cup {k}
         /\ Insert(c, k)
    /\ UNCHANGED <<history, issued>>

ReloadKey(c) ==
    LET u == ask[c].user IN
    /\ pc[c] = "reload"
    /\ u \in DOMAIN userKeys
    /\ ReturnKey(c, userKeys[u])
    /\ UNCHANGED <<userKeys, history, generated, issued>>

\* A statement or GenerateKey fails: getOrCreateUserKey returns an error, the
\* deferred Unlock runs.  The INSERT may have been committed all the same.
KeyFails(c) ==
    LET u == ask[c].user IN
    /\ pc[c] \in Critical
    /\ \/ UNCHANGED <<userKeys, generated>>
       \/ /\ pc[c] = "insert"
          /\ u \notin DOMAIN userKeys
          /\ \E k \in Key \ generated :
               /\ generated' = generated \cup {k}
               /\ userKeys' = Put(userKeys, u, k)
    /\ Unlock(c)
    /\ pc' = [pc EXCEPT ![c] = "error"]
    /\ UNCHANGED <<history, ask, key, issued>>

-----------------------------------------------------------------------------
(* Encrypt and Decrypt, with the key in hand                               *)

\* The bytes a call gives storeHistory: the ciphertext made, or the one asked.
Data(c) ==
    IF ask[c].op = "ENCRYPT" THEN [user |-> ask[c].user, key |-> key[c]]
                             ELSE ask[c].text

Reply(c, answer) ==
    /\ pc' = [pc EXCEPT ![c] = answer]
    /\ key' = Drop(key, c)
    /\ UNCHANGED <<userKeys, history, holder, ask, generated>>

\* EncryptOAEP, which refuses a plaintext too long for the key.
Encrypt(c) ==
    /\ pc[c] = "use"
    /\ ask[c].op = "ENCRYPT"
    /\ \/ /\ pc' = [pc EXCEPT ![c] = "store"]
          /\ UNCHANGED <<userKeys, history, holder, ask, key, generated>>
       \/ Reply(c, "error")
    /\ UNCHANGED issued

\* Fault: the history is written whether or not the ciphertext decrypts.
OpensAlways(c) == TRUE

\* DecryptOAEP: the ciphertext is under the key, or it is an error.
Opens(c) == ask[c].text.key = key[c]

Decrypt(c) ==
    /\ pc[c] = "use"
    /\ ask[c].op = "DECRYPT"
    /\ \/ /\ Opens(c)
          /\ pc' = [pc EXCEPT ![c] = "store"]
          /\ UNCHANGED <<userKeys, history, holder, ask, key, generated>>
       \/ /\ ~Opens(c)
          /\ Reply(c, "mismatch")
    /\ UNCHANGED issued

\* storeHistory: its failure is logged and ignored.
StoreHistory(c) ==
    /\ pc[c] = "store"
    /\ pc' = [pc EXCEPT ![c] = "reply"]
    /\ history' \in {history, history \cup
                       {[user |-> ask[c].user, op |-> ask[c].op, text |-> Data(c)]}}
    /\ UNCHANGED <<userKeys, holder, ask, key, generated, issued>>

ReplyCiphertext(c) ==
    /\ pc[c] = "reply"
    /\ ask[c].op = "ENCRYPT"
    /\ issued' = issued \cup {Data(c)}
    /\ Reply(c, "ciphertext")

ReplyPlaintext(c) ==
    /\ pc[c] = "reply"
    /\ ask[c].op = "DECRYPT"
    /\ Reply(c, "plaintext")
    /\ UNCHANGED issued

\* A process dies: its calls end without an answer, its mutexes are gone.
Crash(p) ==
    LET dead == {c \in Call : host[c] = p} IN
    /\ \E c \in dead : ~Free(c)
    /\ pc' = [c \in Call |-> IF c \in dead THEN "idle" ELSE pc[c]]
    /\ ask' = [c \in DOMAIN ask \ dead |-> ask[c]]
    /\ key' = [c \in DOMAIN key \ dead |-> key[c]]
    /\ holder' = [m \in Process \X User |-> IF m[1] = p THEN Nobody ELSE holder[m]]
    /\ UNCHANGED <<userKeys, history, generated, issued>>

-----------------------------------------------------------------------------
Requests ==
    [user : User, op : {"ENCRYPT"}, text : {NoText}]
    \cup [user : User, op : {"DECRYPT"}, text : issued]

Work(c) ==
    \/ LoadKey(c) \/ GenerateAndInsert(c) \/ ReloadKey(c) \/ KeyFails(c)
    \/ Encrypt(c) \/ Decrypt(c) \/ StoreHistory(c)
    \/ ReplyCiphertext(c) \/ ReplyPlaintext(c)

Next ==
    \/ \E c \in Call, request \in Requests : Receive(c, request)
    \/ \E c \in Call : Lock(c) \/ Work(c)
    \/ \E p \in Process : Crash(p)

Spec == Init /\ [][Next]_vars

\* A running call goes on, and a waiter of a sync.Mutex gets its turn although
\* others keep coming (its starvation mode hands the mutex to the oldest).
Fairness == \A c \in Call : WF_vars(Work(c)) /\ SF_vars(Lock(c))

FairSpec == Spec /\ Fairness

-----------------------------------------------------------------------------
(* What must hold                                                          *)

\* Type invariant.
TypeOK ==
    /\ userKeys \in [DOMAIN userKeys -> Key]
    /\ DOMAIN userKeys \subseteq User
    /\ history \subseteq Entry
    /\ holder \in [Process \X User -> Call \cup {Nobody}]
    /\ pc \in [Call -> Answer \cup Critical \cup Keyed \cup {"idle", "lock"}]
    /\ ask \in [DOMAIN ask -> Ask]
    /\ DOMAIN ask = {c \in Call : pc[c] # "idle"}
    /\ \A c \in DOMAIN ask : ask[c].op = "DECRYPT" <=> ask[c].text # NoText
    /\ key \in [DOMAIN key -> Key]
    /\ DOMAIN key = {c \in Call : pc[c] \in Keyed}
    /\ generated \subseteq Key
    /\ issued \subseteq Ciphertext

\* The calls between Lock and Unlock are exactly the holders of their mutex:
\* no two calls of a process work on one user's key at once, no return path
\* keeps a mutex, and a crash leaves none behind.
MutexDiscipline ==
    /\ \A c \in Call : pc[c] \in Critical <=> c \in DOMAIN ask /\ holder[Mutex(c)] = c
    /\ \A m \in Process \X User :
          holder[m] # Nobody => holder[m] \in DOMAIN ask /\ Mutex(holder[m]) = m

\* Whoever created it, every call that has a key pair in hand has the one of
\* the table, so calls of processes that raced to create it agree.
KeyAgreement ==
    \A c \in DOMAIN key :
        /\ ask[c].user \in DOMAIN userKeys
        /\ key[c] = userKeys[ask[c].user]

\* Every ciphertext ever handed out is under the key its user has now, and
\* no two users have the same key.
Decryptable ==
    /\ \A text \in issued :
          text.user \in DOMAIN userKeys /\ userKeys[text.user] = text.key
    /\ \A u, v \in DOMAIN userKeys : userKeys[u] = userKeys[v] => u = v

\* Decrypt gives a user the plaintext of their own ciphertexts and of no other
\* user's, short of an error: main_test.go's round trip, for every interleaving.
RoundTrip ==
    \A c \in Call :
        /\ pc[c] = "plaintext" => ask[c].text.user = ask[c].user
        /\ pc[c] = "mismatch" => ask[c].text.user # ask[c].user

\* The history never claims what did not take place, whatever call died on
\* its way to it: an entry is about a ciphertext of the entry's own user under
\* that user's key, and one is decrypted only after it was handed out.
HistoryHonest ==
    \A entry \in history :
        /\ entry.text.user = entry.user
        /\ entry.user \in DOMAIN userKeys /\ userKeys[entry.user] = entry.text.key
        /\ entry.op = "DECRYPT" => entry.text \in issued

\* What makes these inductive: a key pair in the table was generated, so it is
\* never generated again; only ciphertexts handed out are decrypted; and a call
\* past DecryptOAEP has the key of its text.
Strengthening ==
    /\ \A u \in DOMAIN userKeys : userKeys[u] \in generated
    /\ \A c \in DOMAIN ask : ask[c].op = "DECRYPT" => ask[c].text \in issued
    /\ \A c \in Call :
          pc[c] \in {"store", "reply"} /\ ask[c].op = "DECRYPT" => Opens(c)

\* The inductive invariant of the service.
IInv ==
    /\ TypeOK
    /\ MutexDiscipline
    /\ KeyAgreement
    /\ Decryptable
    /\ RoundTrip
    /\ HistoryHonest
    /\ Strengthening

\* No step replaces or removes a key pair: what was encrypted under it would
\* be lost.
KeyIsForever ==
    [][\A u \in DOMAIN userKeys :
          u \in DOMAIN userKeys' /\ userKeys'[u] = userKeys[u]]_vars

\* The service implements the abstract one.
Abstract == INSTANCE UserKeys WITH keyOf <- userKeys

ImplementsUserKeys == Abstract!Spec

\* Every call ends, although it may have to wait for its mutex.
EveryCallEnds == \A c \in Call : pc[c] = "lock" ~> Free(c)
=============================================================================
