--------------------------- MODULE ApiClientProofs ---------------------------
(***************************************************************************)
(* Proofs about ApiClient, for every number of calls and repetitions.  The *)
(* lemmas are about the calls f and the calls a that were told, so that    *)
(* the pages, which begin and end calls of their own, can cite them.       *)
(***************************************************************************)
EXTENDS ApiClient, TLAPS

LEMMA CallIsNat == Call \subseteq Nat
  BY ApiClientAssumption DEF Call, MaxCalls

LEMMA BlankType == Blank \in CallRecord
  BY DEF Blank, CallRecord, Operation, Purpose, Stage

LEMMA CallsStart == CallsOK([c \in Call |-> Blank], {})
  BY BlankType, CallIsNat DEF CallsOK, Blank, Changes, GetUsers, Query

-----------------------------------------------------------------------------
(* What a page does                                                        *)

\* A page begins the next call.
LEMMA BeginKeeps ==
    ASSUME NEW f, NEW a, CallsOK(f, a), NEW c \in Call, NEW op \in Operation, NEW why \in Purpose,
           f[c].stage = "unused", \A e \in 1..(c - 1) : f[e].stage # "unused"
    PROVE  CallsOK(Begun(f, c, op, why), a)
<1> DEFINE r == [Blank EXCEPT !.op = op, !.why = why, !.stage = "waiting"]
           g == Begun(f, c, op, why)
<1>1. /\ r \in CallRecord
      /\ r.op = op /\ r.stage = "waiting" /\ r.applied = 0 /\ r.strays = 0
  BY DEF Blank, CallRecord, Stage
<1>2. f \in [Call -> CallRecord] /\ a \subseteq Call
  BY DEF CallsOK
<1>3. g \in [Call -> CallRecord] /\ g[c] = r /\ \A d \in Call \ {c} : g[d] = f[d]
  BY <1>1, <1>2 DEF Begun
<1> HIDE DEF r, g
<1>4. \A d, e \in Call : g[d].stage = "unused" /\ d < e => g[e].stage = "unused"
  <2> SUFFICES ASSUME NEW d \in Call, NEW e \in Call, g[d].stage = "unused", d < e
               PROVE  g[e].stage = "unused"
    OBVIOUS
  <2>1. d # c /\ f[d].stage = "unused"
    BY <1>1, <1>3
  <2>2. ~(d < c)
    BY <2>1, CallIsNat, ApiClientAssumption DEF Call, MaxCalls
  <2>3. e # c
    BY <2>1, <2>2, CallIsNat
  <2>4. f[e].stage = "unused"
    BY <2>1 DEF CallsOK
  <2>5. QED
    BY <2>3, <2>4, <1>3
<1>5. \A d \in Call :
        /\ g[d].stage = "unused" => g[d].applied = 0 /\ g[d].strays = 0
        /\ ~Changes(g[d].op) => g[d].applied = 0 /\ g[d].strays = 0
        /\ g[d].op.method = "POST" =>
             g[d].applied + g[d].strays + (IF g[d].stage = "out" THEN 1 ELSE 0) <= 1
        /\ g[d].op.method = "POST" /\ g[d].stage \in {"unused", "waiting"} =>
             g[d].applied = 0 /\ g[d].strays = 0
        /\ Changes(g[d].op) /\ g[d].stage \in {"back", "resolved"} => g[d].applied >= 1
  BY <1>1, <1>3 DEF CallsOK
<1>6. \A d \in a : d # c /\ g[d] = f[d]
  BY <1>2, <1>3 DEF CallsOK
<1>7. QED
  BY <1>2, <1>3, <1>4, <1>5, <1>6 DEF CallsOK, g

\* A call that was settled ends, and is told of if it was resolved.
LEMMA EndKeeps ==
    ASSUME NEW f, NEW a, CallsOK(f, a), NEW c \in Call, f[c].stage \in {"resolved", "rejected"}
    PROVE  /\ CallsOK(Ended(f, c), a)
           /\ f[c].stage = "resolved" => CallsOK(Ended(f, c), a \cup {c})
<1> DEFINE g == Ended(f, c)
<1>1. f \in [Call -> CallRecord] /\ a \subseteq Call
  BY DEF CallsOK
<1> DEFINE r == [f[c] EXCEPT !.stage = "done", !.tries = 0, !.seen = {}]
<1>2. f[c] \in CallRecord /\ g = [f EXCEPT ![c] = r]
  BY <1>1 DEF Ended, CallRecord
<1>3. /\ r \in CallRecord /\ r.op = f[c].op /\ r.stage = "done"
      /\ r.applied = f[c].applied /\ r.strays = f[c].strays
  BY <1>2 DEF CallRecord, Stage
<1> HIDE DEF g, r
<1>4. g \in [Call -> CallRecord] /\ g[c] = r /\ \A d \in Call \ {c} : g[d] = f[d]
  BY <1>1, <1>2, <1>3
<1>5. f[c].applied \in Nat /\ f[c].strays \in Nat
  BY <1>2 DEF CallRecord
<1>6. \A d, e \in Call : g[d].stage = "unused" /\ d < e => g[e].stage = "unused"
  BY <1>3, <1>4 DEF CallsOK
<1>7. \A d \in Call :
        /\ g[d].stage = "unused" => g[d].applied = 0 /\ g[d].strays = 0
        /\ ~Changes(g[d].op) => g[d].applied = 0 /\ g[d].strays = 0
        /\ g[d].op.method = "POST" =>
             g[d].applied + g[d].strays + (IF g[d].stage = "out" THEN 1 ELSE 0) <= 1
        /\ g[d].op.method = "POST" /\ g[d].stage \in {"unused", "waiting"} =>
             g[d].applied = 0 /\ g[d].strays = 0
        /\ Changes(g[d].op) /\ g[d].stage \in {"back", "resolved"} => g[d].applied >= 1
  BY <1>3, <1>4, <1>5 DEF CallsOK
<1>8. \A d \in a : g[d].stage = "done" /\ (Changes(g[d].op) => g[d].applied >= 1)
  BY <1>1, <1>3, <1>4 DEF CallsOK
<1>9. f[c].stage = "resolved" => (Changes(g[c].op) => g[c].applied >= 1)
  BY <1>3, <1>4 DEF CallsOK
<1>10. CallsOK(g, a)
  BY <1>1, <1>4, <1>6, <1>7, <1>8 DEF CallsOK
<1>11. f[c].stage = "resolved" => CallsOK(g, a \cup {c})
  BY <1>1, <1>3, <1>4, <1>6, <1>7, <1>8, <1>9 DEF CallsOK
<1>12. QED
  BY <1>10, <1>11 DEF g

-----------------------------------------------------------------------------
(* What ky, the network and the backend do                                 *)

\* A call whose record changes to r, within the limits of CallsOK.
LEMMA RecordKeeps ==
    ASSUME CallsOK(calls, acked), NEW c \in Call, NEW r \in CallRecord,
           calls' = [calls EXCEPT ![c] = r], acked' = acked,
           calls[c].stage # "unused", r.stage # "unused", r.op = calls[c].op,
           ~Changes(r.op) => r.applied = 0 /\ r.strays = 0,
           r.op.method = "POST" =>
               r.applied + r.strays + (IF r.stage = "out" THEN 1 ELSE 0) <= 1,
           r.op.method = "POST" /\ r.stage = "waiting" => r.applied = 0 /\ r.strays = 0,
           Changes(r.op) /\ r.stage \in {"back", "resolved"} => r.applied >= 1,
           c \in acked => r.stage = "done" /\ (Changes(r.op) => r.applied >= 1)
    PROVE  CallsOK(calls', acked')
<1>1. calls \in [Call -> CallRecord] /\ acked \subseteq Call
  BY DEF CallsOK
<1>2. /\ calls' \in [Call -> CallRecord] /\ calls'[c] = r
      /\ \A d \in Call \ {c} : calls'[d] = calls[d]
  BY <1>1
<1>3. \A d, e \in Call : calls'[d].stage = "unused" /\ d < e => calls'[e].stage = "unused"
  BY <1>2 DEF CallsOK
<1>4. \A d \in Call :
        /\ calls'[d].stage = "unused" => calls'[d].applied = 0 /\ calls'[d].strays = 0
        /\ ~Changes(calls'[d].op) => calls'[d].applied = 0 /\ calls'[d].strays = 0
        /\ calls'[d].op.method = "POST" =>
             calls'[d].applied + calls'[d].strays + (IF calls'[d].stage = "out" THEN 1 ELSE 0) <= 1
        /\ calls'[d].op.method = "POST" /\ calls'[d].stage \in {"unused", "waiting"} =>
             calls'[d].applied = 0 /\ calls'[d].strays = 0
        /\ Changes(calls'[d].op) /\ calls'[d].stage \in {"back", "resolved"} => calls'[d].applied >= 1
  BY <1>2 DEF CallsOK
<1>5. \A d \in acked' : calls'[d].stage = "done" /\ (Changes(calls'[d].op) => calls'[d].applied >= 1)
  BY <1>1, <1>2 DEF CallsOK
<1>6. QED
  BY <1>1, <1>2, <1>3, <1>4, <1>5 DEF CallsOK

LEMMA LetGoKeeps ==
    ASSUME CallsOK(calls, acked), NEW c \in Call, acked' = acked,
           calls[c].stage \in {"waiting", "out", "back"}, NEW stage \in {"waiting", "rejected"},
           stage = "waiting" => calls[c].op.method # "POST", LetGo(c, stage)
    PROVE  CallsOK(calls', acked')
<1> DEFINE n == IF calls[c].stage = "out" /\ Changes(calls[c].op)
                THEN calls[c].strays + 1 ELSE calls[c].strays
           r == [calls[c] EXCEPT !.stage = stage, !.strays = n, !.seen = {}]
<1>1. calls \in [Call -> CallRecord]
  BY DEF CallsOK
<1>2. calls[c] \in CallRecord /\ calls[c].strays \in Nat /\ calls[c].applied \in Nat
  BY <1>1 DEF CallRecord
<1>3. n \in Nat /\ (n = calls[c].strays \/ (calls[c].stage = "out" /\ n = calls[c].strays + 1))
      /\ (~Changes(calls[c].op) => n = calls[c].strays)
  BY <1>2
<1>4. calls' = [calls EXCEPT ![c] = r]
  BY <1>1, <1>2 DEF LetGo, CallRecord
<1> HIDE DEF n
<1>5. /\ r \in CallRecord /\ r.stage = stage /\ r.strays = n
      /\ r.op = calls[c].op /\ r.applied = calls[c].applied
  BY <1>2, <1>3 DEF CallRecord, Stage
<1> HIDE DEF r
<1>6. c \notin acked
  BY DEF CallsOK
<1>7. r.op.method = "POST" => r.applied + r.strays + (IF r.stage = "out" THEN 1 ELSE 0) <= 1
  BY <1>2, <1>3, <1>5 DEF CallsOK
<1>8. ~Changes(r.op) => r.applied = 0 /\ r.strays = 0
  BY <1>3, <1>5 DEF CallsOK
<1>9. QED
  BY <1>4, <1>5, <1>6, <1>7, <1>8, RecordKeeps

LEMMA CallStepKeeps ==
    ASSUME CallsOK(calls, acked), NEW c \in Call, CallStep(c)
    PROVE  CallsOK(calls', acked')
<1>1. calls \in [Call -> CallRecord]
  BY DEF CallsOK
<1>2. /\ calls[c] \in CallRecord /\ calls[c].strays \in Nat /\ calls[c].applied \in Nat
      /\ calls[c].tries \in Nat
  BY <1>1 DEF CallRecord
<1>3. ASSUME Send(c) PROVE CallsOK(calls', acked')
  <2> DEFINE r == [calls[c] EXCEPT !.stage = "out", !.tries = @ + 1]
  <2>1. calls' = [calls EXCEPT ![c] = r] /\ calls[c].stage = "waiting" /\ acked' = acked
    BY <1>1, <1>2, <1>3 DEF Send, CallRecord
  <2> calls[c].tries + 1 \in Nat
    BY <1>2
  <2>2. /\ r \in CallRecord /\ r.stage = "out" /\ r.strays = calls[c].strays
        /\ r.op = calls[c].op /\ r.applied = calls[c].applied
    BY <1>2 DEF CallRecord, Stage
  <2> HIDE DEF r
  <2>3. c \notin acked
    BY <2>1 DEF CallsOK
  <2>4. r.op.method = "POST" => r.applied + r.strays + (IF r.stage = "out" THEN 1 ELSE 0) <= 1
    BY <2>1, <2>2, <1>2 DEF CallsOK
  <2>5. ~Changes(r.op) => r.applied = 0 /\ r.strays = 0
    BY <2>2 DEF CallsOK
  <2>6. QED
    BY <2>1, <2>2, <2>3, <2>4, <2>5, RecordKeeps
<1>4. ASSUME Serve(c) PROVE CallsOK(calls', acked')
  <2> DEFINE n == IF Changes(calls[c].op) THEN calls[c].applied + 1 ELSE 0
             s == IF Changes(calls[c].op) THEN {} ELSE Effects
             r == [calls[c] EXCEPT !.stage = "back", !.applied = n, !.seen = s]
  <2>1. calls' = [calls EXCEPT ![c] = r] /\ calls[c].stage = "out" /\ acked' = acked
    BY <1>1, <1>2, <1>4 DEF Serve, CallRecord
  <2>2. n \in Nat /\ s \in SUBSET Call /\ n <= calls[c].applied + 1
        /\ (Changes(calls[c].op) => n >= 1) /\ (~Changes(calls[c].op) => n = 0)
    BY <1>2 DEF Effects
  <2> HIDE DEF n, s
  <2>3. /\ r \in CallRecord /\ r.stage = "back" /\ r.strays = calls[c].strays
        /\ r.op = calls[c].op /\ r.applied = n
    BY <1>2, <2>2 DEF CallRecord, Stage
  <2> HIDE DEF r
  <2>4. c \notin acked
    BY <2>1 DEF CallsOK
  <2>5. r.op.method = "POST" => r.applied + r.strays + (IF r.stage = "out" THEN 1 ELSE 0) <= 1
    BY <2>1, <2>2, <2>3, <1>2 DEF CallsOK
  <2>6. ~Changes(r.op) => r.applied = 0 /\ r.strays = 0
    BY <2>2, <2>3 DEF CallsOK
  <2>7. QED
    BY <2>1, <2>2, <2>3, <2>4, <2>5, <2>6, RecordKeeps
<1>5. ASSUME ServeStray(c) PROVE CallsOK(calls', acked')
  <2> DEFINE r == [calls[c] EXCEPT !.strays = @ - 1, !.applied = @ + 1]
  <2>1. calls' = [calls EXCEPT ![c] = r] /\ calls[c].strays > 0 /\ acked' = acked
    BY <1>1, <1>2, <1>5 DEF ServeStray, CallRecord
  <2>2. calls[c].strays - 1 \in Nat /\ calls[c].applied + 1 \in Nat
    BY <2>1, <1>2
  <2>3. /\ r \in CallRecord /\ r.stage = calls[c].stage /\ r.strays = calls[c].strays - 1
        /\ r.op = calls[c].op /\ r.applied = calls[c].applied + 1
    BY <1>2, <2>2 DEF CallRecord
  <2> HIDE DEF r
  <2>4. r.op.method = "POST" =>
            /\ r.applied + r.strays + (IF r.stage = "out" THEN 1 ELSE 0) <= 1
            /\ r.stage \notin {"unused", "waiting"}
    BY <2>1, <2>3, <1>2 DEF CallsOK
  <2>5. c \in acked => r.stage = "done" /\ (Changes(r.op) => r.applied >= 1)
    BY <2>3, <1>2 DEF CallsOK
  <2>6. Changes(r.op) /\ r.stage \in {"back", "resolved"} => r.applied >= 1
    BY <2>3, <1>2
  <2>7. calls[c].stage # "unused"
    BY <2>1 DEF CallsOK
  <2>8. ~Changes(r.op) => r.applied = 0 /\ r.strays = 0
    BY <2>1, <2>3 DEF CallsOK
  <2>9. QED
    BY <2>1, <2>3, <2>4, <2>5, <2>6, <2>7, <2>8, RecordKeeps
<1>6. ASSUME Arrive(c) PROVE CallsOK(calls', acked')
  <2> DEFINE r == [calls[c] EXCEPT !.stage = "resolved"]
  <2>1. calls' = [calls EXCEPT ![c] = r] /\ calls[c].stage = "back" /\ acked' = acked
    BY <1>1, <1>2, <1>6 DEF Arrive, CallRecord
  <2>2. /\ r \in CallRecord /\ r.stage = "resolved" /\ r.strays = calls[c].strays
        /\ r.op = calls[c].op /\ r.applied = calls[c].applied
    BY <1>2 DEF CallRecord, Stage
  <2> HIDE DEF r
  <2>3. c \notin acked /\ (Changes(r.op) => r.applied >= 1)
    BY <2>1, <2>2 DEF CallsOK
  <2>4. r.op.method = "POST" => r.applied + r.strays + (IF r.stage = "out" THEN 1 ELSE 0) <= 1
    BY <2>1, <2>2, <1>2 DEF CallsOK
  <2>5. ~Changes(r.op) => r.applied = 0 /\ r.strays = 0
    BY <2>2 DEF CallsOK
  <2>6. QED
    BY <2>1, <2>2, <2>3, <2>4, <2>5, RecordKeeps
<1>7. ASSUME Break(c) PROVE CallsOK(calls', acked')
  <2>1. calls[c].stage \in {"out", "back"} /\ acked' = acked
    BY <1>7 DEF Break
  <2>2. \/ LetGo(c, "waiting") /\ calls[c].op.method # "POST"
        \/ LetGo(c, "rejected")
    BY <1>7 DEF Break, Repeatable
  <2>3. QED
    BY <2>1, <2>2, LetGoKeeps
<1>8. ASSUME GiveUp(c) PROVE CallsOK(calls', acked')
  BY <1>8, LetGoKeeps DEF GiveUp
<1>9. QED
  BY <1>3, <1>4, <1>5, <1>6, <1>7, <1>8 DEF CallStep

\* What calls that are right promise.
LEMMA CallsPromise ==
    CallsOK(calls, acked) => PostAtMostOnce /\ SuccessIsReal
<1> SUFFICES ASSUME CallsOK(calls, acked) PROVE PostAtMostOnce /\ SuccessIsReal
  OBVIOUS
<1>1. \A c \in Call : calls[c].applied \in Nat /\ calls[c].strays \in Nat
  BY DEF CallsOK, CallRecord
<1>2. PostAtMostOnce
  BY <1>1 DEF PostAtMostOnce, CallsOK
<1>3. SuccessIsReal
  BY DEF SuccessIsReal, CallsOK
<1>4. QED
  BY <1>2, <1>3

-----------------------------------------------------------------------------
(* What a step does to the records of calls                                *)

LEMMA BegunFacts ==
    ASSUME NEW f \in [Call -> CallRecord], NEW c \in Call, NEW op, NEW why
    PROVE  LET g == Begun(f, c, op, why) IN
           /\ g[c].op = op /\ g[c].why = why /\ g[c].stage = "waiting" /\ g[c].applied = 0
           /\ \A d \in Call \ {c} : g[d] = f[d]
  BY DEF Begun, Blank

LEMMA EndedFacts ==
    ASSUME NEW f \in [Call -> CallRecord], NEW c \in Call
    PROVE  LET g == Ended(f, c) IN
           /\ g \in [Call -> CallRecord]
           /\ g[c].op = f[c].op /\ g[c].why = f[c].why /\ g[c].stage = "done"
           /\ g[c].applied = f[c].applied
           /\ \A d \in Call \ {c} : g[d] = f[d]
<1> DEFINE r == [f[c] EXCEPT !.stage = "done", !.tries = 0, !.seen = {}]
<1>1. f[c] \in CallRecord
  OBVIOUS
<1>2. /\ r \in CallRecord /\ r.op = f[c].op /\ r.why = f[c].why /\ r.stage = "done"
      /\ r.applied = f[c].applied
  BY <1>1 DEF CallRecord, Stage
<1>3. Ended(f, c) = [f EXCEPT ![c] = r]
  BY <1>1 DEF Ended, CallRecord
<1> HIDE DEF r
<1>4. QED
  BY <1>2, <1>3

\* No step of a call changes what it is, whether it was begun, and whether its
\* page has gone on.
LEMMA CallStepFacts ==
    ASSUME calls \in [Call -> CallRecord], NEW c \in Call, CallStep(c)
    PROVE  /\ acked' = acked /\ cached' = cached
           /\ \A d \in Call : /\ calls'[d].op = calls[d].op /\ calls'[d].why = calls[d].why
                              /\ calls'[d].stage = "unused" <=> calls[d].stage = "unused"
                              /\ calls'[d].stage = "done" <=> calls[d].stage = "done"
           /\ \A d \in Call \ {c} : calls'[d] = calls[d]
<1>1. calls[c] \in CallRecord
  OBVIOUS
<1>2. ASSUME Send(c) \/ Serve(c) \/ ServeStray(c) \/ Arrive(c)
      PROVE  /\ acked' = acked /\ cached' = cached
             /\ calls'[c].op = calls[c].op /\ calls'[c].why = calls[c].why
             /\ calls'[c].stage = "unused" <=> calls[c].stage = "unused"
             /\ calls'[c].stage = "done" <=> calls[c].stage = "done"
             /\ \A d \in Call \ {c} : calls'[d] = calls[d]
  BY <1>1, <1>2 DEF Send, Serve, ServeStray, Arrive, CallRecord
<1>3. ASSUME Break(c) \/ GiveUp(c)
      PROVE  /\ acked' = acked /\ cached' = cached
             /\ calls'[c].op = calls[c].op /\ calls'[c].why = calls[c].why
             /\ calls'[c].stage = "unused" <=> calls[c].stage = "unused"
             /\ calls'[c].stage = "done" <=> calls[c].stage = "done"
             /\ \A d \in Call \ {c} : calls'[d] = calls[d]
  <2>1. /\ acked' = acked /\ cached' = cached /\ calls[c].stage \in {"waiting", "out", "back"}
        /\ LetGo(c, "waiting") \/ LetGo(c, "rejected")
    BY <1>3 DEF Break, GiveUp
  <2>2. QED
    BY <1>1, <2>1 DEF LetGo, CallRecord
<1>4. /\ acked' = acked /\ cached' = cached
      /\ calls'[c].op = calls[c].op /\ calls'[c].why = calls[c].why
      /\ calls'[c].stage = "unused" <=> calls[c].stage = "unused"
      /\ calls'[c].stage = "done" <=> calls[c].stage = "done"
      /\ \A d \in Call \ {c} : calls'[d] = calls[d]
  BY <1>2, <1>3 DEF CallStep
<1>5. QED
  BY <1>4

-----------------------------------------------------------------------------
(* The promise                                                             *)

\* What the promise sees of a step that changes the record of one call.
LEMMA StepMaps ==
    ASSUME calls \in [Call -> CallRecord], calls' \in [Call -> CallRecord],
           NEW c \in Call, \A d \in Call \ {c} : calls'[d] = calls[d],
           calls'[c].op = calls[c].op,
           calls[c].stage # "unused", calls'[c].stage # "unused"
    PROVE  /\ Asked' = Asked
           /\ Made' = [Made EXCEPT ![c] = calls'[c].applied]
           /\ calls'[c].applied = calls[c].applied => Made' = Made
           /\ calls'[c].stage \in {"back", "resolved"} =>
                Answers' = Promise!Put(Answers, c, calls'[c].seen)
           /\ calls'[c].stage \notin {"back", "resolved"} =>
                Answers' = Promise!Drop(Answers, c)
           /\ (calls'[c].stage = "done") = (calls[c].stage = "done") => Open' = Open
           /\ calls'[c].stage = "done" => Open' = Open \ {c}
<1>1. \A d \in Call : calls[d].stage \in Stage /\ calls'[d].stage \in Stage
  BY DEF CallRecord
<1>2. Asked' = Asked
  BY <1>1 DEF Asked, Staged
<1>3. Made' = [Made EXCEPT ![c] = calls'[c].applied]
  BY DEF Made
<1>4. calls'[c].applied = calls[c].applied => Made' = Made
  BY DEF Made
<1>5. calls'[c].stage \in {"back", "resolved"} =>
          Answers' = Promise!Put(Answers, c, calls'[c].seen)
  BY DEF Answers, Staged, Promise!Put
<1>6. calls'[c].stage \notin {"back", "resolved"} => Answers' = Promise!Drop(Answers, c)
  BY DEF Answers, Staged, Promise!Drop
<1>7. (calls'[c].stage = "done") = (calls[c].stage = "done") => Open' = Open
  BY <1>1 DEF Open, Staged
<1>8. calls'[c].stage = "done" => Open' = Open \ {c}
  BY <1>1 DEF Open, Staged
<1>9. QED
  BY <1>2, <1>3, <1>4, <1>5, <1>6, <1>7, <1>8

\* What the promise knows of a call that was begun.
LEMMA AskedFacts ==
    ASSUME calls \in [Call -> CallRecord], NEW c \in Call, calls[c].stage # "unused"
    PROVE  /\ c \in DOMAIN Asked /\ Asked[c] = calls[c].op
           /\ Promise!Changes(c) <=> Changes(calls[c].op)
           /\ Made[c] = calls[c].applied
           /\ calls[c].stage # "done" => c \in Open
  BY DEF Asked, Staged, Promise!Changes, Changes, Made, Open, CallRecord

\* A page begins a call.
LEMMA BeginPromise ==
    ASSUME CallsOK(calls, acked), NEW c \in Call, NEW op \in Operation, NEW why \in Purpose,
           Turn(c), calls' = Begun(calls, c, op, why), acked' = acked
    PROVE  Promise!Next
<1>1. calls \in [Call -> CallRecord] /\ calls[c].stage = "unused" /\ calls[c].applied = 0
  BY DEF CallsOK, Turn
<1>2. /\ calls'[c].op = op /\ calls'[c].stage = "waiting" /\ calls'[c].applied = 0
      /\ \A d \in Call \ {c} : calls'[d] = calls[d]
  BY <1>1, BegunFacts
<1>3. c \notin DOMAIN Asked /\ Asked' = Promise!Put(Asked, c, op)
  BY <1>1, <1>2 DEF Asked, Staged, Stage, Promise!Put
<1>4. Open' = Open \cup {c}
  BY <1>1, <1>2 DEF Open, Staged, Stage
<1>5. Made' = Made /\ Answers' = Answers
  BY <1>1, <1>2 DEF Made, Answers, Staged
<1>6. Promise!Begin(c, op)
  BY <1>3, <1>4, <1>5 DEF Promise!Begin
<1>7. QED
  BY <1>6 DEF Promise!Next

\* A call ends, and the user is told if it has succeeded.
Closes(c) ==
    /\ calls[c].stage \in {"resolved", "rejected"}
    /\ acked' = acked \/ (calls[c].stage = "resolved" /\ acked' = acked \cup {c})

LEMMA EndPromise ==
    ASSUME CallsOK(calls, acked), NEW c \in Call, Closes(c), calls' = Ended(calls, c)
    PROVE  Promise!Next
<1>1. calls \in [Call -> CallRecord] /\ calls[c].stage \in {"resolved", "rejected"}
  BY DEF CallsOK, Closes
<1>2. /\ calls' \in [Call -> CallRecord] /\ calls'[c].op = calls[c].op
      /\ calls'[c].stage = "done" /\ calls'[c].applied = calls[c].applied
      /\ \A d \in Call \ {c} : calls'[d] = calls[d]
  BY <1>1, EndedFacts
<1>3. /\ Asked' = Asked /\ Made' = Made /\ Answers' = Promise!Drop(Answers, c)
      /\ Open' = Open \ {c}
  BY <1>1, <1>2, StepMaps
<1>4. c \in Open /\ (calls[c].stage = "resolved" => c \in DOMAIN Answers)
  BY <1>1 DEF Open, Answers, Staged, Stage
<1>5. Promise!GoOn(c)
  BY <1>3, <1>4 DEF Closes, Promise!GoOn
<1>6. QED
  BY <1>5 DEF Promise!Next

\* A call ends, and its page begins the next one at once.
LEMMA EndBeginPromise ==
    ASSUME CallsOK(calls, acked), NEW c \in Call, Closes(c), NEW d \in Call, Turn(d),
           NEW op \in Operation, NEW why \in Purpose,
           calls' = Begun(Ended(calls, c), d, op, why)
    PROVE  Promise!Next
<1> DEFINE f == Ended(calls, c)
<1>1. /\ calls \in [Call -> CallRecord] /\ calls[c].stage \in {"resolved", "rejected"}
      /\ calls[d].stage = "unused" /\ calls[d].applied = 0
  BY DEF CallsOK, Closes, Turn
<1>2. /\ f \in [Call -> CallRecord] /\ f[c].op = calls[c].op
      /\ f[c].stage = "done" /\ f[c].applied = calls[c].applied
      /\ \A e \in Call \ {c} : f[e] = calls[e]
  BY <1>1, EndedFacts
<1>3. calls' = Begun(f, d, op, why) /\ d # c
  BY <1>1
<1> HIDE DEF f
<1>4. /\ calls'[d].op = op /\ calls'[d].stage = "waiting" /\ calls'[d].applied = 0
      /\ \A e \in Call \ {d} : calls'[e] = f[e]
  BY <1>2, <1>3, BegunFacts
<1>5. /\ calls'[c].op = calls[c].op /\ calls'[c].stage = "done"
      /\ calls'[c].applied = calls[c].applied
      /\ \A e \in Call \ {c, d} : calls'[e] = calls[e]
  BY <1>2, <1>3, <1>4
<1>6. d \notin DOMAIN Asked /\ Asked' = Promise!Put(Asked, d, op)
  BY <1>1, <1>3, <1>4, <1>5 DEF Asked, Staged, Stage, Promise!Put
<1>7. Open' = (Open \ {c}) \cup {d}
  BY <1>1, <1>3, <1>4, <1>5 DEF Open, Staged, Stage
<1>8. Made' = Made
  BY <1>1, <1>3, <1>4, <1>5 DEF Made
<1>9. Answers' = Promise!Drop(Answers, c)
  BY <1>1, <1>3, <1>4, <1>5 DEF Answers, Staged, Promise!Drop
<1>10. c \in Open /\ (calls[c].stage = "resolved" => c \in DOMAIN Answers)
  BY <1>1 DEF Open, Answers, Staged, Stage
<1>11. Promise!GoOn(c)
  BY <1>6, <1>7, <1>8, <1>9, <1>10 DEF Closes, Promise!GoOn
<1>12. QED
  BY <1>11 DEF Promise!Next

\* Each step of ky, the network and the backend is one of the promise's.
LEMMA CallPromise ==
    ASSUME CallsOK(calls, acked), NEW c \in Call, CallStep(c)
    PROVE  [Promise!Next]_(Promise!vars)
<1>1. /\ calls \in [Call -> CallRecord] /\ calls[c] \in CallRecord
      /\ calls' \in [Call -> CallRecord]
  BY CallStepKeeps DEF CallsOK
<1>2. /\ acked' = acked /\ calls'[c].op = calls[c].op
      /\ calls'[c].stage = "unused" <=> calls[c].stage = "unused"
      /\ calls'[c].stage = "done" <=> calls[c].stage = "done"
      /\ \A d \in Call \ {c} : calls'[d] = calls[d]
  BY <1>1, CallStepFacts
<1>3. calls[c].stage # "unused"
  BY DEF CallStep, Send, Serve, ServeStray, Arrive, Break, GiveUp, CallsOK
<1>4. Asked' = Asked /\ Open' = Open
  BY <1>1, <1>2, <1>3, StepMaps
<1>5. ASSUME calls'[c].stage \notin {"back", "resolved"}, calls'[c].applied = calls[c].applied
      PROVE  Promise!Next
  <2>1. Made' = Made /\ Answers' = Promise!Drop(Answers, c)
    BY <1>1, <1>2, <1>3, <1>5, StepMaps
  <2>2. Promise!LoseAnswer(c)
    BY <1>2, <1>4, <2>1 DEF Promise!LoseAnswer
  <2>3. QED
    BY <2>2 DEF Promise!Next
<1>6. ASSUME Changes(calls[c].op), calls[c].op.method = "POST" => calls[c].applied = 0,
             calls'[c].applied = calls[c].applied + 1,
             \/ Answers' = Answers
             \/ calls[c].stage # "done" /\ Answers' = Promise!Put(Answers, c, {})
      PROVE  Promise!Next
  <2>1. /\ c \in DOMAIN Asked /\ Promise!Changes(c)
        /\ Asked[c].method = "POST" => Made[c] = 0
        /\ calls[c].stage # "done" => c \in Open
    BY <1>1, <1>3, <1>6, AskedFacts
  <2>2. Made' = [Made EXCEPT ![c] = @ + 1]
    <3>1. Made' = [Made EXCEPT ![c] = calls'[c].applied]
      BY <1>1, <1>2, <1>3, StepMaps
    <3>2. Made[c] = calls[c].applied
      BY DEF Made
    <3>3. QED
      BY <1>6, <3>1, <3>2
  <2>3. Promise!Make(c)
    BY <1>2, <1>4, <1>6, <2>1, <2>2 DEF Promise!Make
  <2>4. QED
    BY <2>3 DEF Promise!Next
<1>7. ASSUME Send(c) PROVE Promise!Next
  <2>1. calls'[c].stage = "out" /\ calls'[c].applied = calls[c].applied
    BY <1>1, <1>7 DEF Send, CallRecord
  <2>2. QED
    BY <1>5, <2>1
<1>8. ASSUME Break(c) \/ GiveUp(c) PROVE Promise!Next
  <2>1. LetGo(c, "waiting") \/ LetGo(c, "rejected")
    BY <1>8 DEF Break, GiveUp
  <2>2. /\ calls'[c].stage \in {"waiting", "rejected"}
        /\ calls'[c].applied = calls[c].applied
    BY <1>1, <2>1 DEF LetGo, CallRecord
  <2>3. QED
    BY <1>5, <2>2
<1>9. ASSUME Serve(c), Changes(calls[c].op) PROVE Promise!Next
  <2>1. /\ calls[c].stage = "out" /\ calls'[c].stage = "back" /\ calls'[c].seen = {}
        /\ calls'[c].applied = calls[c].applied + 1
    BY <1>1, <1>9 DEF Serve, CallRecord
  <2>2. calls[c].op.method = "POST" => calls[c].applied = 0
    <3>1. calls[c].applied \in Nat /\ calls[c].strays \in Nat
      BY <1>1 DEF CallRecord
    <3>2. QED
      BY <2>1, <3>1 DEF CallsOK
  <2>3. Answers' = Promise!Put(Answers, c, {})
    BY <1>1, <1>2, <1>3, <2>1, StepMaps
  <2>4. QED
    BY <1>6, <1>9, <2>1, <2>2, <2>3
<1>10. ASSUME Serve(c), ~Changes(calls[c].op) PROVE Promise!Next
  <2>1. /\ calls[c].stage = "out" /\ calls'[c].stage = "back" /\ calls'[c].seen = Effects
        /\ calls'[c].applied = 0 /\ calls[c].applied = 0
    BY <1>1, <1>10 DEF Serve, CallRecord, CallsOK
  <2>2. Made' = Made /\ Answers' = Promise!Put(Answers, c, Effects)
    BY <1>1, <1>2, <1>3, <2>1, StepMaps
  <2>3. {d \in Call : Made[d] > 0} = Effects
    BY DEF Made, Effects
  <2>4. c \in Open /\ ~Promise!Changes(c)
    BY <1>1, <1>3, <1>10, <2>1, AskedFacts
  <2>5. Promise!Look(c)
    BY <1>2, <1>4, <2>2, <2>3, <2>4 DEF Promise!Look
  <2>6. QED
    BY <2>5 DEF Promise!Next
<1>11. ASSUME ServeStray(c) PROVE Promise!Next
  <2>1. calls[c].strays > 0 /\ calls[c].strays \in Nat /\ calls[c].applied \in Nat
    BY <1>1, <1>11 DEF ServeStray, CallRecord
  <2>2. Changes(calls[c].op) /\ (calls[c].op.method = "POST" => calls[c].applied = 0)
    BY <2>1 DEF CallsOK
  <2>3. /\ calls'[c].applied = calls[c].applied + 1
        /\ calls'[c].stage = calls[c].stage /\ calls'[c].seen = calls[c].seen
    BY <1>1, <1>11 DEF ServeStray, CallRecord
  <2>4. Answers' = Answers
    BY <1>2, <2>3 DEF Answers, Staged
  <2>5. QED
    BY <1>6, <2>2, <2>3, <2>4
<1>12. ASSUME Arrive(c) PROVE UNCHANGED Promise!vars
  <2>1. /\ calls[c].stage = "back" /\ calls'[c].stage = "resolved"
        /\ calls'[c].applied = calls[c].applied /\ calls'[c].seen = calls[c].seen
    BY <1>1, <1>12 DEF Arrive, CallRecord
  <2>2. Answers' = Answers
    BY <1>2, <2>1 DEF Answers, Staged
  <2>3. Made' = Made
    BY <1>1, <1>2, <1>3, <2>1, StepMaps
  <2>4. QED
    BY <1>2, <1>4, <2>2, <2>3 DEF Promise!vars
<1>13. QED
  BY <1>7, <1>8, <1>9, <1>10, <1>11, <1>12 DEF CallStep

LEMMA StillPromise == UNCHANGED <<calls, acked>> => UNCHANGED Promise!vars
  BY DEF Promise!vars, Asked, Open, Made, Answers, Staged

LEMMA PromiseStart == ApiInit => Promise!Init
<1> SUFFICES ASSUME ApiInit PROVE Promise!Init
  OBVIOUS
<1>1. \A c \in Call : calls[c].stage = "unused" /\ calls[c].applied = 0
  BY DEF ApiInit, Blank
<1>2. acked = {}
  BY DEF ApiInit
<1>3. Asked = Promise!Empty /\ Open = {} /\ Answers = Promise!Empty
  BY <1>1 DEF Asked, Open, Answers, Staged, Promise!Empty
<1>4. Made = [c \in Call |-> 0]
  BY <1>1 DEF Made
<1>5. QED
  BY <1>2, <1>3, <1>4 DEF Promise!Init

-----------------------------------------------------------------------------
(* The client on its own                                                   *)

LEMMA ApiStart == ApiInit => ApiIInv
  BY CallsStart, BlankType DEF ApiInit, ApiIInv, ApiTypeOK

LEMMA ApiStep == ApiIInv /\ [ApiNext]_apiVars => ApiIInv'
<1> SUFFICES ASSUME ApiIInv, [ApiNext]_apiVars PROVE ApiIInv'
  OBVIOUS
<1>1. CASE UNCHANGED apiVars
  BY <1>1 DEF apiVars, ApiIInv, ApiTypeOK, CallsOK
<1>2. ASSUME NEW c \in Call, CallStep(c) PROVE ApiIInv'
  <2>1. cached' = cached
    BY <1>2 DEF CallStep, Send, Serve, ServeStray, Arrive, Break, GiveUp
  <2>2. CallsOK(calls', acked')
    BY <1>2, CallStepKeeps DEF ApiIInv
  <2>3. QED
    BY <2>1, <2>2 DEF ApiIInv, ApiTypeOK, CallsOK
<1>3. ASSUME NEW c \in Call, TakeAny(c) PROVE ApiIInv'
  <2>1. calls' = Ended(calls, c) /\ cached' = cached
        /\ \/ calls[c].stage = "resolved" /\ acked' = acked \cup {c}
           \/ calls[c].stage = "rejected" /\ acked' = acked
    BY <1>3 DEF TakeAny, Settled
  <2>2. CallsOK(calls', acked')
    BY <2>1, EndKeeps DEF ApiIInv
  <2>3. QED
    BY <2>1, <2>2 DEF ApiIInv, ApiTypeOK, CallsOK
<1>4. ASSUME NEW c \in Call, NEW op \in Operation, CallAny(c, op) PROVE ApiIInv'
  <2>1. CallsOK(calls', acked')
    BY <1>4, BeginKeeps DEF ApiIInv, CallAny, Turn, Purpose
  <2>2. QED
    BY <1>4, <2>1 DEF ApiIInv, ApiTypeOK, CallsOK, CallAny
<1>5. QED
  BY <1>1, <1>2, <1>3, <1>4 DEF ApiNext

\* Calls of any operations are right in every reachable state.
THEOREM CallsAreRight == ApiSpec => []ApiIInv
<1>1. QED
  BY ApiStart, ApiStep, PTL DEF ApiSpec

\* A POST adds at most one row, however often ky and the network try.
THEOREM PostsAtMostOnce == ApiSpec => []PostAtMostOnce
<1>1. ApiIInv => PostAtMostOnce
  BY CallsPromise DEF ApiIInv
<1>2. QED
  BY <1>1, CallsAreRight, PTL

\* A success that was told is one.
THEOREM SuccessesAreReal == ApiSpec => []SuccessIsReal
<1>1. ApiIInv => SuccessIsReal
  BY CallsPromise DEF ApiIInv
<1>2. QED
  BY <1>1, CallsAreRight, PTL

\* The client keeps its promise to a caller of any operation.
THEOREM ClientDelivers == ApiSpec => ImplementsDelivery
<1>1. ApiIInv /\ [ApiNext]_apiVars => [Promise!Next]_(Promise!vars)
  <2> SUFFICES ASSUME ApiIInv, [ApiNext]_apiVars PROVE [Promise!Next]_(Promise!vars)
    OBVIOUS
  <2>1. CallsOK(calls, acked)
    BY DEF ApiIInv
  <2>2. ASSUME NEW c \in Call, NEW op \in Operation, CallAny(c, op) PROVE Promise!Next
    BY <2>1, <2>2, BeginPromise DEF CallAny, Purpose
  <2>3. ASSUME NEW c \in Call, TakeAny(c) PROVE Promise!Next
    BY <2>1, <2>3, EndPromise DEF TakeAny, Settled, Closes
  <2>4. CASE UNCHANGED apiVars
    BY <2>4, StillPromise DEF apiVars
  <2>5. QED
    BY <2>1, <2>2, <2>3, <2>4, CallPromise DEF ApiNext
<1>2. QED
  BY <1>1, PromiseStart, CallsAreRight, PTL DEF ApiSpec, ImplementsDelivery, Promise!Spec
=============================================================================
