---------------------------- MODULE PasskeyProxy ----------------------------
(***************************************************************************)
(* The Chrome extension between a page's WebAuthn calls and the passkey    *)
(* server: the service worker chrome-extension/src/background/index.ts and *)
(* the popup pages/content-ui/src/App.tsx, of chrome-ext/.                 *)
(*                                                                         *)
(* Chrome hands each navigator.credentials call to the worker as a request *)
(* with an id.  The worker keeps it in a map and tells the active tab,     *)
(* whose popup asks the user; the click comes back over a port of its own  *)
(* with the id, the worker fetches the response and completes the request. *)
(* Everything is asynchronous, the worker's maps die with the worker, and  *)
(* the popup has one state for whichever request came last.                *)
(***************************************************************************)
EXTENDS Naturals

CONSTANTS
    Request,    \* ids of WebAuthn requests, which Chrome does not reuse
    Tab,        \* tabs
    Port,       \* clicks that may have a port
    NoRequest   \* the popup's reqId before its first message

ASSUME PasskeyProxyAssumption == NoRequest \notin Request

VARIABLES
    kind,       \* the kind of each request, as the page asks for it
    page,       \* the tab of that page
    status,     \* what Chrome knows of each request
    querying,   \* requests whose listener awaits chrome.tabs.query
    requestMap, \* createRequestMap and getRequestMap
    ui,         \* the state of App in each tab
    port,       \* the ports: whose click, and how far it is
    timers,     \* setTimeouts that will hide a popup, by tab and request
    completed,  \* history variable: how often each request was completed
    lost        \* history variable: the requests the worker let go of unanswered

browser == <<kind, page, status>>
worker  == <<querying, requestMap>>
history == <<completed, lost>>
vars    == <<browser, worker, ui, port, timers, history>>

Kind == {"passkeyCreateRequest", "passkeyGetRequest"}

Popup == [show : BOOLEAN, kind : Kind, req : Request \cup {NoRequest},
          loading : BOOLEAN, complete : BOOLEAN]

\* A port: its message is on the way to the worker, the worker fetches, it has
\* given the response to Chrome, success is on the way back to the popup, nobody
\* will use it any more.  A port is open until the popup's page is left: what the
\* worker does for a closed one goes on, and reaches nobody.
Stage == {"posted", "fetching", "answered", "done", "stuck"}

Click == [tab : Tab, kind : Kind, req : Request, stage : Stage, open : BOOLEAN]

Put(f, k, v) == [x \in DOMAIN f \cup {k} |-> IF x = k THEN v ELSE f[x]]
Drop(f, k)   == [x \in DOMAIN f \ {k} |-> f[x]]

At(stages) == {p \in DOMAIN port : port[p].stage \in stages}

\* The request is in a map; the ports the worker fetches its response for.
Kept(q)  == \E k \in Kind : q \in requestMap[k]
Taken(q) == {p \in At({"fetching"}) : port[p].req = q}

Hidden == [show |-> FALSE, kind |-> "passkeyCreateRequest", req |-> NoRequest,
           loading |-> FALSE, complete |-> FALSE]

Init ==
    /\ kind \in [Request -> Kind]
    /\ page \in [Request -> Tab]
    /\ status = [q \in Request |-> "new"]
    /\ querying = {}
    /\ requestMap = [k \in Kind |-> {}]
    /\ ui = [t \in Tab |-> Hidden]
    /\ port = [p \in {} |-> p]
    /\ timers = {}
    /\ completed = [q \in Request |-> 0]
    /\ lost = {}

-----------------------------------------------------------------------------
(* The browser                                                             *)

\* A page calls navigator.credentials; onCreateRequest or onGetRequest starts
\* and awaits chrome.tabs.query.
CallWebAuthn(q) ==
    /\ status[q] = "new"
    /\ status' = [status EXCEPT ![q] = "pending"]
    /\ querying' = querying \cup {q}
    /\ UNCHANGED <<kind, page, requestMap, ui, port, timers, history>>

\* The request times out or the page aborts it; nobody listens to that event.
Abandon(q) ==
    /\ status[q] = "pending"
    /\ status' = [status EXCEPT ![q] = "abandoned"]
    /\ UNCHANGED <<kind, page, worker, ui, port, timers, history>>

\* The tab navigates, and its App starts anew.  Its requests are abandoned and
\* its ends of the ports are gone; but a click that has reached the worker is
\* carried out, and one on its way may still reach it.
Navigate(t) ==
    /\ status' = [q \in Request |->
                     IF page[q] = t /\ status[q] = "pending" THEN "abandoned"
                                                             ELSE status[q]]
    /\ ui' = [ui EXCEPT ![t] = Hidden]
    /\ \E arriving \in SUBSET At({"posted"}) :
          port' = [p \in {x \in DOMAIN port : port[x].tab = t =>
                              x \in arriving \cup At({"fetching", "answered"})} |->
                     [port[p] EXCEPT !.open = @ /\ port[p].tab # t]]
    /\ timers' = {timer \in timers : timer.tab # t}
    /\ UNCHANGED <<kind, page, worker, history>>

-----------------------------------------------------------------------------
(* The service worker                                                      *)

\* Fault: a message for a popup that is loading leaves its spinner on.
ShowLoading(t, q) == [show |-> TRUE, kind |-> kind[q], req |-> q,
                      loading |-> ui[t].loading, complete |-> FALSE]

\* handleMessage: what App shows of a request, whatever it showed before.
Show(t, q) == [show |-> TRUE, kind |-> kind[q], req |-> q,
               loading |-> FALSE, complete |-> FALSE]

\* chrome.tabs.query returns the active tab, whichever page asked: the request
\* is kept, and the popup of that tab is told.
ForwardTo(q, t) ==
    /\ q \in querying
    /\ querying' = querying \ {q}
    /\ requestMap' = [requestMap EXCEPT ![kind[q]] = @ \cup {q}]
    /\ ui' = [ui EXCEPT ![t] = Show(t, q)]
    /\ UNCHANGED <<browser, port, timers, history>>

\* The active tab runs no content script, so sendMessage rejects; or there is
\* no active tab, and the request is not even kept.
ForwardNowhere(q) ==
    /\ q \in querying
    /\ querying' = querying \ {q}
    /\ \/ /\ requestMap' = [requestMap EXCEPT ![kind[q]] = @ \cup {q}]
          /\ UNCHANGED lost
       \/ /\ lost' = lost \cup {q}
          /\ UNCHANGED requestMap
    /\ UNCHANGED <<browser, ui, port, timers, completed>>

SetStage(p, stage) == port' = [port EXCEPT ![p].stage = stage]

\* The worker has done all it will for these ports: what the popup sees of it is
\* the stage, and nobody sees it of a port that is closed.
Settle(settled, stage) ==
    port' = [p \in {x \in DOMAIN port : x \in settled => port[x].open} |->
               [port[p] EXCEPT !.stage = IF p \in settled THEN stage ELSE @]]

\* Fault: the request is deleted only when its response has come.
TakeKeeps(p) == UNCHANGED requestMap

\* The request leaves the map before it is fetched.
Take(p) == requestMap' = [requestMap EXCEPT ![port[p].kind] = @ \ {port[p].req}]

\* Fault: a click whose request is not there waits for it.
KeepWaiting(p) == UNCHANGED port

\* A click whose request is not there is logged and forgotten.
Refuse(p) == Settle({p}, "stuck")

\* The port's message arrives, with an id that is in the map or is not.
ReceiveClick(p) ==
    /\ p \in At({"posted"})
    /\ \/ /\ port[p].req \in requestMap[port[p].kind]
          /\ Take(p)
          /\ SetStage(p, "fetching")
       \/ /\ port[p].req \notin requestMap[port[p].kind]
          /\ Refuse(p)
          /\ UNCHANGED requestMap
    /\ UNCHANGED <<browser, querying, ui, timers, history>>

\* The response arrives; the worker completes the request, whether Chrome still
\* knows it or not.
CompleteRequest(p) ==
    LET q == port[p].req IN
    /\ p \in At({"fetching"})
    /\ status' = [status EXCEPT ![q] = IF @ = "pending" THEN "completed" ELSE @]
    /\ completed' = [completed EXCEPT ![q] = @ + 1]
    /\ SetStage(p, "answered")
    /\ UNCHANGED <<kind, page, worker, ui, timers, lost>>

\* Chrome calls back, and the worker posts success on the port.
ReportSuccess(p) ==
    /\ p \in At({"answered"})
    /\ Settle({p}, "done")
    /\ UNCHANGED <<browser, worker, ui, timers, history>>

\* The fetch rejects, and nothing catches it.
FetchFails(p) ==
    /\ p \in At({"fetching"})
    /\ lost' = lost \cup {port[p].req}
    /\ Settle({p}, "stuck")
    /\ UNCHANGED <<browser, worker, ui, timers, completed>>

\* Chrome ends an idle worker, or it crashes: the maps, the listeners under way
\* and the fetches are gone, and maybe clicks on the way to it.
RestartWorker ==
    /\ querying' = {}
    /\ requestMap' = [k \in Kind |-> {}]
    /\ \E missed \in SUBSET At({"posted"}) :
          Settle(missed \cup At({"fetching", "answered"}), "stuck")
    /\ lost' = lost \cup querying \cup
               {q \in Request : Kept(q) \/ Taken(q) # {}}
    /\ UNCHANGED <<browser, ui, timers, completed>>

-----------------------------------------------------------------------------
(* The popup                                                               *)

\* The buttons are disabled while it is loading.
Enabled(t) == ui[t].show /\ ~ui[t].loading

\* Fault: the popup always opens the port of a login.
ClickAlwaysGets(t) == [tab |-> t, kind |-> "passkeyGetRequest", req |-> ui[t].req,
                       stage |-> "posted", open |-> TRUE]

\* A port named after the popup's kind, and the reqId of its last message.
NewClick(t) == [tab |-> t, kind |-> ui[t].kind, req |-> ui[t].req,
                stage |-> "posted", open |-> TRUE]

\* loginWithAccount or registerWithAccount.
PickAccount(t) ==
    /\ Enabled(t)
    /\ \E p \in Port \ DOMAIN port : port' = Put(port, p, NewClick(t))
    /\ ui' = [ui EXCEPT ![t].loading = TRUE]
    /\ UNCHANGED <<browser, worker, timers, history>>

\* Cancel, and both continueWithDeviceAuth: the popup hides, no more.
Dismiss(t) ==
    /\ Enabled(t)
    /\ ui' = [ui EXCEPT ![t].show = FALSE]
    /\ UNCHANGED <<browser, worker, port, timers, history>>

\* Success arrives on a port: the popup, whatever it shows by now, is marked
\* complete, and hidden after three seconds.
ReceiveSuccess(p) ==
    LET t == port[p].tab IN
    /\ p \in At({"done"})
    /\ ui' = [ui EXCEPT ![t].loading = FALSE, ![t].complete = TRUE]
    /\ timers' = timers \cup {[tab |-> t, req |-> port[p].req]}
    /\ port' = Drop(port, p)
    /\ UNCHANGED <<browser, worker, history>>

\* "time === lastUpdated" compares a value with itself: both belong to the
\* render that the click was made in.
HidePopup(timer) ==
    /\ timer \in timers
    /\ timers' = timers \ {timer}
    /\ ui' = [ui EXCEPT ![timer.tab].show = FALSE, ![timer.tab].complete = FALSE]
    /\ UNCHANGED <<browser, worker, port, history>>

-----------------------------------------------------------------------------
PortStep(p) ==
    \/ ReceiveClick(p) \/ CompleteRequest(p) \/ FetchFails(p)
    \/ ReportSuccess(p) \/ ReceiveSuccess(p)

ForwardStep(q) == ForwardNowhere(q) \/ \E t \in Tab : ForwardTo(q, t)

Next ==
    \/ \E q \in Request : CallWebAuthn(q) \/ Abandon(q) \/ ForwardStep(q)
    \/ \E p \in Port : PortStep(p)
    \/ \E t \in Tab : PickAccount(t) \/ Dismiss(t) \/ Navigate(t)
    \/ \E timer \in timers : HidePopup(timer)
    \/ RestartWorker

Spec == Init /\ [][Next]_vars

\* The event loops run on: an event is handled, a fetch settles.  Users and pages
\* owe nothing.
Fairness ==
    /\ \A p \in Port : WF_vars(PortStep(p))
    /\ \A q \in Request : WF_vars(ForwardStep(q))

FairSpec == Spec /\ Fairness

-----------------------------------------------------------------------------
(* What must hold                                                          *)

\* Type invariant.
TypeOK ==
    /\ kind \in [Request -> Kind]
    /\ page \in [Request -> Tab]
    /\ status \in [Request -> {"new", "pending", "completed", "abandoned"}]
    /\ querying \subseteq Request
    /\ requestMap \in [Kind -> SUBSET Request]
    /\ ui \in [Tab -> Popup]
    /\ DOMAIN port \subseteq Port
    /\ port \in [DOMAIN port -> Click]
    /\ timers \subseteq [tab : Tab, req : Request]
    /\ completed \in [Request -> Nat]
    /\ lost \subseteq Request

\* Chrome is given at most one response for a request, however often the popup
\* is used, whatever fails and whenever the worker restarts.
CompletedAtMostOnce == \A q \in Request : completed[q] <= 1

\* Nobody answers a creation with an assertion: what is in a map, shown in a
\* popup or posted on a port is a request of that map's, popup's, port's kind.
KindsAgree ==
    /\ \A k \in Kind : \A q \in requestMap[k] : kind[q] = k
    /\ \A t \in Tab : ui[t].req # NoRequest => kind[ui[t].req] = ui[t].kind
    /\ \A p \in DOMAIN port : kind[port[p].req] = port[p].kind

\* Every request that was made is in one place: awaiting the tab, in its map, with
\* the one port that fetches for it, completed, or lost, and then nobody answers
\* it later.  No navigation takes it anywhere.
OnePlace ==
    \A q \in Request :
        /\ q \in querying => ~Kept(q) /\ Taken(q) = {} /\ q \notin lost /\ completed[q] = 0
        /\ Kept(q) => Taken(q) = {} /\ q \notin lost /\ completed[q] = 0
        /\ Taken(q) # {} => q \notin lost /\ completed[q] = 0
        /\ \A p1, p2 \in Taken(q) : p1 = p2
        /\ q \in lost => completed[q] = 0
        /\ status[q] = "new" <=> /\ q \notin querying /\ ~Kept(q) /\ Taken(q) = {}
                                /\ q \notin lost /\ completed[q] = 0
        /\ status[q] = "completed" => completed[q] = 1

\* A spinner is that of a click on the very request the popup shows, on a port
\* that is still open: however requests and responses overtake each other, no
\* popup is blocked by the click on a request it no longer shows.
SpinnerBacked ==
    \A t \in Tab :
        ui[t].loading =>
            \E p \in DOMAIN port : /\ port[p].tab = t /\ port[p].open
                                   /\ port[p].req = ui[t].req

\* A closed port is kept only while the worker has something to do for it.
ClosedIsAtWork == \A p \in At({"done", "stuck"}) : port[p].open

\* The inductive invariant.
IInv ==
    /\ TypeOK
    /\ CompletedAtMostOnce
    /\ KindsAgree
    /\ OnePlace
    /\ SpinnerBacked
    /\ ClosedIsAtWork
    /\ \A t \in Tab : ui[t].show => ui[t].req # NoRequest

\* A click does not stay on its way, and a request whose response is fetched is
\* completed, whether or not the page of the popup is still there, unless its
\* fetch fails or the worker dies.
EveryClickEnds ==
    /\ \A p \in Port : p \in At({"posted"}) ~> p \notin At({"posted"})
    /\ \A q \in Request : Taken(q) # {} ~> completed[q] = 1 \/ q \in lost

-----------------------------------------------------------------------------
(* What the extension promises                                             *)

Asked == {q \in Request : status[q] # "new"}

\* A hidden popup offers nothing; the click on one is an approval until the
\* worker has dropped it or given Chrome the response, and a navigation does not
\* withdraw it.
Of(x)    == [req |-> x.req, kind |-> x.kind]
Waiting  == At({"posted", "fetching"})
Offered  == {Of(ui[t]) : t \in {x \in Tab : ui[x].show}}
Approved == {Of(port[p]) : p \in Waiting}

Consent == INSTANCE PasskeyConsent
             WITH asked <- Asked, offered <- Offered, approved <- Approved,
                  answers <- completed

\* The extension implements PasskeyConsent: whatever popups overwrite, workers
\* forget and clicks repeat, a request is answered at most once, as what it is,
\* and only for a click on a popup that showed it.
ImplementsConsent == Consent!Spec

-----------------------------------------------------------------------------
(* What the repository says and the code does not do                       *)

\* App.tsx:61 hides the popup if its last update is the one at the time of the
\* success: the timer of one request would not hide the popup of another.
TimerHidesItsOwn ==
    [][\A t \in Tab :
          \A timer \in timers \ timers' :
              timer.tab = t /\ t \in {x \in Tab : ui[x].show /\ ~ui'[x].show}
                => ui[t].req = timer.req]_vars
=============================================================================
