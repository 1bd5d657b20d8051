------------------------------ MODULE ApiClient ------------------------------
(***************************************************************************)
(* The calls the web pages make of the backend: the client orval has       *)
(* generated (frontend/app/api/generated) over frontend/lib/fetch.ts, which *)
(* hands them to ky.                                                       *)
(*                                                                         *)
(* ky sends a request again when it is answered by a server error or not   *)
(* at all, if its method may be repeated; anything but a 2xx, or half an   *)
(* hour without an answer, rejects the call.  A request the client has     *)
(* given up may still be carried out.                                      *)
(*                                                                         *)
(* The page modules extend this one and begin calls of their own.          *)
(***************************************************************************)
EXTENDS Naturals, FiniteSets

CONSTANTS
    RetryLimit,     \* how often ky sends a request again, 2
    MaxSubmits      \* bound on the changes that are asked for

ASSUME ApiClientAssumption == RetryLimit \in Nat /\ MaxSubmits \in Nat \ {0}

\* A page that lists rows fetches them first and once more after each change.
MaxCalls == 2 * MaxSubmits + 1
Call == 1..MaxCalls

-----------------------------------------------------------------------------
(* The generated operations.  Each is a function that calls the mutator    *)
(* with its method and URL, and a hook: useQuery under the key of its URL  *)
(* for a GET, useMutation for the others.                                  *)

Query(path) == [method |-> "GET", path |-> path]
Mutation(method, path) == [method |-> method, path |-> path]

DeleteAccounts       == Mutation("DELETE", "/accounts")
GetAccounts          == Query("/accounts")
PostAccounts         == Mutation("POST", "/accounts")
PutAccounts          == Mutation("PUT", "/accounts")
GetAccountsTemplates == Query("/accounts/templates")
GetAliveChecks       == Query("/alive-checks")
PostAliveChecks      == Mutation("POST", "/alive-checks")
PutAliveChecks       == Mutation("PUT", "/alive-checks")
DeleteDevices        == Mutation("DELETE", "/devices")
GetDevices           == Query("/devices")
PostDevices          == Mutation("POST", "/devices")
PutDevices           == Mutation("PUT", "/devices")
DeleteDisclosures    == Mutation("DELETE", "/disclosures")
GetDisclosures       == Query("/disclosures")
PostDisclosures      == Mutation("POST", "/disclosures")
PutDisclosures       == Mutation("PUT", "/disclosures")
GetReceivers         == Query("/receivers")
DeleteSubscriptions  == Mutation("DELETE", "/subscriptions")
GetSubscriptions     == Query("/subscriptions")
PostSubscriptions    == Mutation("POST", "/subscriptions")
PutSubscriptions     == Mutation("PUT", "/subscriptions")
DeleteTrusts         == Mutation("DELETE", "/trusts")
GetTrusts            == Query("/trusts")
PostTrusts           == Mutation("POST", "/trusts")
PutTrusts            == Mutation("PUT", "/trusts")
GetUsers             == Query("/users")
PostUsers            == Mutation("POST", "/users")
PutUsers             == Mutation("PUT", "/users")

Operation ==
    {DeleteAccounts, GetAccounts, PostAccounts, PutAccounts, GetAccountsTemplates,
     GetAliveChecks, PostAliveChecks, PutAliveChecks,
     DeleteDevices, GetDevices, PostDevices, PutDevices,
     DeleteDisclosures, GetDisclosures, PostDisclosures, PutDisclosures, GetReceivers,
     DeleteSubscriptions, GetSubscriptions, PostSubscriptions, PutSubscriptions,
     DeleteTrusts, GetTrusts, PostTrusts, PutTrusts, GetUsers, PostUsers, PutUsers}

\* A call changes rows unless it is a query.
Changes(op) == op.method # "GET"

-----------------------------------------------------------------------------
VARIABLES
    calls,      \* the calls, in the order they were begun
    acked,      \* the calls whose success the user was told
    cached      \* the paths whose query has loaded in the page's query client

apiVars == <<calls, acked, cached>>

\* waiting: to be sent, for the first time or again; out: on its way or at the
\* backend; back: its answer is on its way; then how it was settled, until the
\* page has gone on from there.
Stage == {"unused", "waiting", "out", "back", "resolved", "rejected", "done"}

\* Who awaits a call.
Purpose == {"any", "render", "list", "post"}

CallRecord ==
    [op : Operation, why : Purpose, stage : Stage,
     tries   : Nat,             \* how often it was sent
     strays  : Nat,             \* requests given up that may yet be carried out
     applied : Nat,             \* how often its change was made
     seen    : SUBSET Call]     \* the changes its answer shows

Blank ==
    [op |-> GetUsers, why |-> "any", stage |-> "unused",
     tries |-> 0, strays |-> 0, applied |-> 0, seen |-> {}]

ApiInit ==
    /\ calls = [c \in Call |-> Blank]
    /\ acked = {}
    /\ cached = {}

\* The next call is c.
Turn(c) ==
    /\ calls[c].stage = "unused"
    /\ \A e \in 1..(c - 1) : calls[e].stage # "unused"

\* The calls f after c was begun, and after its page has gone on.
Begun(f, c, op, why) ==
    [f EXCEPT ![c] = [Blank EXCEPT !.op = op, !.why = why, !.stage = "waiting"]]
Ended(f, c) == [f EXCEPT ![c].stage = "done", ![c].tries = 0, ![c].seen = {}]

Submits == Cardinality({c \in Call : calls[c].stage # "unused" /\ Changes(calls[c].op)})

-----------------------------------------------------------------------------
(* ky, the network and the backend                                         *)

\* Fault: POST is among the methods that are sent again.
RepeatableAlways(method) == TRUE

\* ky's default; lib/fetch leaves it.
Repeatable(method) == method \in {"GET", "PUT", "DELETE"}

Send(c) ==
    /\ calls[c].stage = "waiting"
    /\ calls' = [calls EXCEPT ![c].stage = "out", ![c].tries = @ + 1]
    /\ UNCHANGED <<acked, cached>>

\* The backend has no route to change or delete a disclosure.
Routes == Operation \ {PutDisclosures, DeleteDisclosures}

\* The changes made so far.
Effects == {d \in Call : calls[d].applied > 0}

\* The backend carries out a request and answers; it answers a query with the
\* rows as they are.
Serve(c) ==
    /\ calls[c].stage = "out"
    /\ calls[c].op \in Routes
    /\ calls' = [calls EXCEPT ![c].stage = "back",
                              ![c].applied = IF Changes(calls[c].op) THEN @ + 1 ELSE 0,
                              ![c].seen = IF Changes(calls[c].op) THEN {} ELSE Effects]
    /\ UNCHANGED <<acked, cached>>

\* It carries out a request whose answer nobody waits for.
ServeStray(c) ==
    /\ calls[c].strays > 0
    /\ calls[c].op \in Routes
    /\ calls' = [calls EXCEPT ![c].strays = @ - 1, ![c].applied = @ + 1]
    /\ UNCHANGED <<acked, cached>>

Arrive(c) ==
    /\ calls[c].stage = "back"
    /\ calls' = [calls EXCEPT ![c].stage = "resolved"]
    /\ UNCHANGED <<acked, cached>>

\* The client lets go of the request that is under way, if there is one.
LetGo(c, stage) ==
    calls' = [calls EXCEPT ![c].stage = stage,
                           ![c].strays = IF calls[c].stage = "out" /\ Changes(calls[c].op)
                                         THEN @ + 1 ELSE @,
                           ![c].seen = {}]

\* No answer, or one that stands for none (408, 413, 429, 5xx): the request is
\* sent again, or the call rejects.
Break(c) ==
    /\ calls[c].stage \in {"out", "back"}
    /\ IF Repeatable(calls[c].op.method) /\ calls[c].tries <= RetryLimit
       THEN LetGo(c, "waiting")
       ELSE LetGo(c, "rejected")
    /\ UNCHANGED <<acked, cached>>

\* Clerk gives no token, the backend refuses with a 4xx, also for
\* want of a route, or the half hour is over.
GiveUp(c) ==
    /\ calls[c].stage \in {"waiting", "out", "back"}
    /\ LetGo(c, "rejected")
    /\ UNCHANGED <<acked, cached>>

CallStep(c) == Send(c) \/ Serve(c) \/ ServeStray(c) \/ Arrive(c) \/ Break(c) \/ GiveUp(c)

\* A query hook has its data, under the key of its URL, from the page's query client
\* or after calls and repetitions that change nothing; when they fail it has none.
LoadQuery(op) ==
    /\ ~Changes(op)
    /\ cached' = cached \cup {op.path}
    /\ UNCHANGED <<calls, acked>>

-----------------------------------------------------------------------------
(* A caller of any operation, which tells the user how the call went       *)

CallAny(c, op) ==
    /\ Turn(c)
    /\ c <= MaxSubmits
    /\ calls' = Begun(calls, c, op, "any")
    /\ UNCHANGED <<acked, cached>>

\* The call c, awaited for this reason, was settled this way.
Settled(c, why, how) == calls[c].why = why /\ calls[c].stage = how

TakeAny(c) ==
    /\ \E how \in {"resolved", "rejected"} :
         /\ Settled(c, "any", how)
         /\ acked' = IF how = "resolved" THEN acked \cup {c} ELSE acked
    /\ calls' = Ended(calls, c)
    /\ UNCHANGED cached

ApiNext ==
    \E c \in Call : CallStep(c) \/ TakeAny(c) \/ \E op \in Operation : CallAny(c, op)

ApiSpec == ApiInit /\ [][ApiNext]_apiVars

-----------------------------------------------------------------------------
(* What must hold                                                          *)

\* Type invariant.
ApiTypeOK ==
    /\ calls \in [Call -> CallRecord]
    /\ acked \subseteq Call
    /\ cached \subseteq {op.path : op \in Operation}

\* However answers are lost, requests repeated and calls given up while their
\* requests are still under way, a POST adds at most one row.
PostAtMostOnce ==
    \A c \in Call : calls[c].op.method = "POST" => calls[c].applied <= 1

\* A change is made, whenever the user is told so.
SuccessIsReal ==
    \A c \in acked : Changes(calls[c].op) => calls[c].applied >= 1

\* Calls f, of which those of a were told, of which all this follows: a POST has
\* one request, which is under way, given up or carried out; a query changes
\* nothing; an answer to a change comes after the change; what was told has ended.
CallsOK(f, a) ==
    /\ f \in [Call -> CallRecord]
    /\ a \subseteq Call
    /\ \A c, d \in Call : f[c].stage = "unused" /\ c < d => f[d].stage = "unused"
    /\ \A c \in Call :
         /\ f[c].stage = "unused" => f[c].applied = 0 /\ f[c].strays = 0
         /\ ~Changes(f[c].op) => f[c].applied = 0 /\ f[c].strays = 0
         /\ f[c].op.method = "POST" =>
              f[c].applied + f[c].strays + (IF f[c].stage = "out" THEN 1 ELSE 0) <= 1
         /\ f[c].op.method = "POST" /\ f[c].stage \in {"unused", "waiting"} =>
              f[c].applied = 0 /\ f[c].strays = 0
         /\ Changes(f[c].op) /\ f[c].stage \in {"back", "resolved"} => f[c].applied >= 1
    /\ \A c \in a : f[c].stage = "done" /\ (Changes(f[c].op) => f[c].applied >= 1)

ApiIInv == ApiTypeOK /\ CallsOK(calls, acked)

-----------------------------------------------------------------------------
(* What the client promises                                                *)

Staged(stages) == {c \in Call : calls[c].stage \in stages}

Asked   == [c \in Staged(Stage \ {"unused"}) |-> calls[c].op]
Open    == Staged(Stage \ {"unused", "done"})
Made    == [c \in Call |-> calls[c].applied]
Answers == [c \in Staged({"back", "resolved"}) |-> calls[c].seen]

Promise == INSTANCE Delivery
             WITH ask <- Asked, open <- Open, made <- Made, answer <- Answers, told <- acked

\* The client implements Delivery, with whatever page makes the calls: a POST is
\* carried out once at most, a success that is told was one, and a query shows
\* the rows as they were at one moment of its call, however requests are
\* repeated, given up and carried out late.
ImplementsDelivery == Promise!Spec
=============================================================================
