------------------------- MODULE PasskeyProxyProofs -------------------------
(***************************************************************************)
(* Proofs about PasskeyProxy, for every number of requests, tabs and       *)
(* clicks.                                                                 *)
(***************************************************************************)
EXTENDS PasskeyProxy, TLAPS

-----------------------------------------------------------------------------
(* The ports                                                               *)

\* A click in another stage is a click.
LEMMA ClickType ==
    ASSUME NEW click \in Click, NEW stage \in Stage
    PROVE  /\ [click EXCEPT !.stage = stage] \in Click
           /\ [click EXCEPT !.stage = stage].tab = click.tab
           /\ [click EXCEPT !.stage = stage].kind = click.kind
           /\ [click EXCEPT !.stage = stage].req = click.req
           /\ [click EXCEPT !.stage = stage].open = click.open
           /\ [click EXCEPT !.stage = stage].stage = stage
           /\ [click EXCEPT !.stage = click.stage] = click
BY DEF Click

\* What happens to the clicks that are kept: the stage may be another, and the
\* port may be closed.
SameClick(p) ==
    /\ port'[p] \in Click
    /\ port'[p].tab = port[p].tab
    /\ port'[p].kind = port[p].kind
    /\ port'[p].req = port[p].req

\* A port that gets a stage keeps its click and stays as open as it is, and every
\* other port keeps everything.
LEMMA StageEffect ==
    ASSUME TypeOK, NEW p \in DOMAIN port, NEW stage \in Stage, SetStage(p, stage)
    PROVE  /\ DOMAIN port' = DOMAIN port
           /\ port' = [x \in DOMAIN port |-> port'[x]]
           /\ \A x \in DOMAIN port : SameClick(x) /\ port'[x].open = port[x].open
           /\ \A x \in DOMAIN port : x # p => port'[x] = port[x]
           /\ port'[p].stage = stage
<1>1. \A x \in DOMAIN port : port[x] \in Click
  BY DEF TypeOK
<1>2. port' = [port EXCEPT ![p] = [port[p] EXCEPT !.stage = stage]]
  BY DEF SetStage
<1>3. port = [x \in DOMAIN port |-> port[x]]
  BY DEF TypeOK
<1>4. port' = [x \in DOMAIN port |-> IF x = p THEN [port[p] EXCEPT !.stage = stage]
                                            ELSE port[x]]
  BY <1>2, <1>3
<1>5. DOMAIN port' = DOMAIN port
  BY <1>4
<1>6. port'[p] = [port[p] EXCEPT !.stage = stage]
  BY <1>4
<1>7. \A x \in DOMAIN port : x # p => port'[x] = port[x]
  BY <1>4
<1>8. SameClick(p) /\ port'[p].open = port[p].open /\ port'[p].stage = stage
  BY <1>1, <1>6, ClickType DEF SameClick
<1>9. \A x \in DOMAIN port : x # p => SameClick(x) /\ port'[x].open = port[x].open
  BY <1>1, <1>7 DEF SameClick
<1>10. QED
  BY <1>4, <1>5, <1>7, <1>8, <1>9

\* Ports that are settled get the stage if they are open, and are gone if they
\* are not; every other port keeps everything.
LEMMA SettleEffect ==
    ASSUME TypeOK, NEW settled, NEW stage \in Stage, Settle(settled, stage)
    PROVE  /\ port' = [x \in DOMAIN port' |-> port'[x]]
           /\ DOMAIN port' = {x \in DOMAIN port : x \in settled => port[x].open}
           /\ \A x \in DOMAIN port' : SameClick(x) /\ port'[x].open = port[x].open
           /\ \A x \in DOMAIN port' : x \notin settled => port'[x] = port[x]
           /\ \A x \in DOMAIN port' : x \in settled => port'[x].stage = stage
<1>1. \A x \in DOMAIN port : port[x] \in Click
  BY DEF TypeOK
<1>2. port' = [x \in {y \in DOMAIN port : y \in settled => port[y].open} |->
                [port[x] EXCEPT !.stage = IF x \in settled THEN stage
                                                         ELSE port[x].stage]]
  BY DEF Settle
<1>3. DOMAIN port' = {x \in DOMAIN port : x \in settled => port[x].open}
  BY <1>2
<1>4. ASSUME NEW x \in DOMAIN port', x \in settled
      PROVE  port'[x] = [port[x] EXCEPT !.stage = stage]
  BY <1>2, <1>4
<1>5. ASSUME NEW x \in DOMAIN port', x \notin settled PROVE port'[x] = port[x]
  <2>1. port'[x] = [port[x] EXCEPT !.stage = port[x].stage]
    BY <1>2, <1>5
  <2>2. QED
    BY <1>1, <1>3, <2>1, ClickType
<1>6. ASSUME NEW x \in DOMAIN port'
      PROVE  /\ SameClick(x) /\ port'[x].open = port[x].open
             /\ x \in settled => port'[x].stage = stage
  <2>1. port[x] \in Click
    BY <1>1, <1>3
  <2>2. CASE x \in settled
    <3>1. port'[x] = [port[x] EXCEPT !.stage = stage]
      BY <1>4, <2>2
    <3>2. QED
      BY <2>1, <2>2, <3>1, ClickType DEF SameClick
  <2>3. CASE x \notin settled
    BY <1>5, <2>1, <2>3 DEF SameClick
  <2>4. QED
    BY <2>2, <2>3
<1>7. QED
  BY <1>2, <1>3, <1>5, <1>6

\* A navigation takes the ports of its tab that the worker does nothing for, and
\* closes the others of it.
LEMMA NavigateEffect ==
    ASSUME TypeOK, NEW t \in Tab, Navigate(t)
    PROVE  /\ port' = [x \in DOMAIN port' |-> port'[x]]
           /\ DOMAIN port' \subseteq DOMAIN port
           /\ \A x \in DOMAIN port' : SameClick(x) /\ port'[x].stage = port[x].stage
           /\ \A x \in DOMAIN port : port[x].tab # t =>
                   x \in DOMAIN port' /\ port'[x].open = port[x].open
           /\ \A x \in DOMAIN port' : port[x].tab = t =>
                   port[x].stage \in {"posted", "fetching", "answered"}
           /\ \A x \in DOMAIN port :
                   port[x].stage \in {"fetching", "answered"} => x \in DOMAIN port'
<1>1. \A x \in DOMAIN port : port[x] \in Click
  BY DEF TypeOK
<1>2. PICK arriving \in SUBSET At({"posted"}) :
          port' = [p \in {x \in DOMAIN port : port[x].tab = t =>
                              x \in arriving \cup At({"fetching", "answered"})} |->
                     [port[p] EXCEPT !.open = @ /\ port[p].tab # t]]
  BY DEF Navigate
<1>3. DOMAIN port' = {x \in DOMAIN port : port[x].tab = t =>
                          x \in arriving \cup At({"fetching", "answered"})}
  BY <1>2
<1>4. ASSUME NEW x \in DOMAIN port'
      PROVE  /\ SameClick(x) /\ port'[x].stage = port[x].stage
             /\ port'[x].open = (port[x].open /\ port[x].tab # t)
  <2>1. port'[x] = [port[x] EXCEPT !.open = port[x].open /\ port[x].tab # t]
    BY <1>2
  <2>2. port[x] \in Click
    BY <1>1, <1>3
  <2>3. QED
    BY <2>1, <2>2 DEF Click, SameClick
<1>5. ASSUME NEW x \in DOMAIN port, port[x].tab # t
      PROVE  x \in DOMAIN port' /\ port'[x].open = port[x].open
  <2>1. x \in DOMAIN port'
    BY <1>3, <1>5
  <2>2. port[x].open \in BOOLEAN
    BY <1>1 DEF Click
  <2>3. QED
    BY <1>4, <1>5, <2>1, <2>2
<1>6. QED
  BY <1>2, <1>3, <1>4, <1>5 DEF At

\* The port of a click is new, has the popup's request and is posted.
LEMMA ClickEffect ==
    ASSUME TypeOK, NEW t \in Tab, ui[t].show => ui[t].req # NoRequest,
           Enabled(t), NEW p \in Port \ DOMAIN port, port' = Put(port, p, NewClick(t))
    PROVE  /\ DOMAIN port' = DOMAIN port \cup {p}
           /\ \A x \in DOMAIN port : port'[x] = port[x]
           /\ port'[p] = NewClick(t)
           /\ NewClick(t) \in Click
<1>1. ui[t] \in Popup /\ ui[t].req # NoRequest
  BY DEF TypeOK, Enabled
<1>2. NewClick(t) \in Click
  BY <1>1 DEF NewClick, Click, Stage, Popup
<1>3. QED
  BY <1>2 DEF Put

-----------------------------------------------------------------------------
(* The type invariant                                                      *)

\* A popup that is changed in some of its fields is a popup.
LEMMA PopupType ==
    ASSUME TypeOK, NEW t \in Tab, NEW new \in Popup, ui' = [ui EXCEPT ![t] = new]
    PROVE  ui' \in [Tab -> Popup]
BY DEF TypeOK

\* What is shown of a request is a popup.
LEMMA ShowType ==
    ASSUME TypeOK, NEW t \in Tab, NEW q \in Request
    PROVE  Show(t, q) \in Popup
BY DEF TypeOK, Show, Popup

\* A popup that is shown is that of a request.
Shown == \A t \in Tab : ui[t].show => ui[t].req # NoRequest

\* The ports of clicks in other stages are ports of clicks.
LEMMA PortType ==
    ASSUME TypeOK,
           \/ \E p \in DOMAIN port, stage \in Stage : SetStage(p, stage)
           \/ \E settled, stage : stage \in Stage /\ Settle(settled, stage)
    PROVE  port' \in [DOMAIN port' -> Click] /\ DOMAIN port' \subseteq Port
<1>1. ASSUME NEW p \in DOMAIN port, NEW stage \in Stage, SetStage(p, stage)
      PROVE  port' \in [DOMAIN port' -> Click] /\ DOMAIN port' \subseteq Port
  <2>1. /\ DOMAIN port' = DOMAIN port /\ port' = [x \in DOMAIN port |-> port'[x]]
        /\ \A x \in DOMAIN port : port'[x] \in Click
    BY <1>1, StageEffect DEF SameClick
  <2>2. QED
    BY <2>1 DEF TypeOK
<1>2. ASSUME NEW settled, NEW stage \in Stage, Settle(settled, stage)
      PROVE  port' \in [DOMAIN port' -> Click] /\ DOMAIN port' \subseteq Port
  <2>1. /\ DOMAIN port' \subseteq DOMAIN port /\ port' = [x \in DOMAIN port' |-> port'[x]]
        /\ \A x \in DOMAIN port' : port'[x] \in Click
    BY <1>2, SettleEffect DEF SameClick
  <2>2. QED
    BY <2>1 DEF TypeOK
<1>3. QED
  BY <1>1, <1>2

LEMMA TypeStep == TypeOK /\ Shown /\ [Next]_vars => TypeOK'
<1> SUFFICES ASSUME TypeOK, Shown, [Next]_vars PROVE TypeOK'
  OBVIOUS
<1>1. ASSUME NEW q \in Request, CallWebAuthn(q) PROVE TypeOK'
  BY <1>1 DEF TypeOK, CallWebAuthn, history
<1>2. ASSUME NEW q \in Request, Abandon(q) PROVE TypeOK'
  BY <1>2 DEF TypeOK, Abandon, worker, history
<1>3. ASSUME NEW q \in Request, NEW t \in Tab, ForwardTo(q, t) PROVE TypeOK'
  <2>1. ui' \in [Tab -> Popup]
    BY <1>3, ShowType, PopupType DEF ForwardTo
  <2>2. requestMap' \in [Kind -> SUBSET Request]
    BY <1>3 DEF ForwardTo, TypeOK
  <2>3. QED
    BY <1>3, <2>1, <2>2 DEF TypeOK, ForwardTo, browser, history
<1>4. ASSUME NEW q \in Request, ForwardNowhere(q) PROVE TypeOK'
  <2>1. requestMap' \in [Kind -> SUBSET Request]
    BY <1>4 DEF ForwardNowhere, TypeOK
  <2>2. QED
    BY <1>4, <2>1 DEF TypeOK, ForwardNowhere, browser, history
<1>5. ASSUME NEW p \in Port, ReceiveClick(p) PROVE TypeOK'
  <2>1. p \in DOMAIN port /\ {"fetching", "stuck"} \subseteq Stage
    BY <1>5 DEF ReceiveClick, At, Stage
  <2>2. requestMap' \in [Kind -> SUBSET Request]
    BY <1>5 DEF ReceiveClick, Take, TypeOK
  <2>3. port' \in [DOMAIN port' -> Click] /\ DOMAIN port' \subseteq Port
    BY <1>5, <2>1, PortType DEF ReceiveClick, Refuse
  <2>4. QED
    BY <1>5, <2>2, <2>3 DEF TypeOK, ReceiveClick, browser, history
<1>6. ASSUME NEW p \in Port, CompleteRequest(p) PROVE TypeOK'
  <2>1. p \in DOMAIN port /\ SetStage(p, "answered") /\ "answered" \in Stage
    BY <1>6 DEF CompleteRequest, Stage, At
  <2>2. port' \in [DOMAIN port' -> Click] /\ DOMAIN port' \subseteq Port
    BY <2>1, PortType
  <2>3. status' \in [Request -> {"new", "pending", "completed", "abandoned"}]
    BY <1>6 DEF CompleteRequest, TypeOK
  <2>4. completed' \in [Request -> Nat]
    <3>1. port[p].req \in Request
      BY <2>1 DEF TypeOK, Click
    <3>2. completed' = [completed EXCEPT ![port[p].req] = @ + 1]
      BY <1>6 DEF CompleteRequest
    <3>3. QED
      BY <3>1, <3>2 DEF TypeOK
  <2>5. QED
    BY <1>6, <2>2, <2>3, <2>4 DEF TypeOK, CompleteRequest, worker
<1>7. ASSUME NEW p \in Port, FetchFails(p) \/ ReportSuccess(p) PROVE TypeOK'
  <2>1. p \in DOMAIN port /\ {"done", "stuck"} \subseteq Stage
    BY <1>7 DEF FetchFails, ReportSuccess, Stage, At
  <2>2. port' \in [DOMAIN port' -> Click] /\ DOMAIN port' \subseteq Port
    BY <1>7, <2>1, PortType DEF FetchFails, ReportSuccess
  <2>3. lost' \subseteq Request
    <3>1. port[p].req \in Request
      BY <2>1 DEF TypeOK, Click
    <3>2. QED
      BY <1>7, <3>1 DEF FetchFails, ReportSuccess, history, TypeOK
  <2>4. QED
    BY <1>7, <2>2, <2>3
       DEF TypeOK, FetchFails, ReportSuccess, browser, worker, history
<1>8. ASSUME NEW p \in Port, ReceiveSuccess(p) PROVE TypeOK'
  <2>1. p \in DOMAIN port /\ port[p] \in Click
    BY <1>8 DEF ReceiveSuccess, TypeOK, At
  <2>2. port[p].tab \in Tab /\ port[p].req \in Request
    BY <2>1 DEF Click
  <2>3. ui' \in [Tab -> Popup]
    <3>1. ui[port[p].tab] \in Popup
      BY <2>2 DEF TypeOK
    <3>2. [ui[port[p].tab] EXCEPT !.loading = FALSE, !.complete = TRUE] \in Popup
      BY <3>1 DEF Popup
    <3>3. ui' = [ui EXCEPT ![port[p].tab] =
                    [ui[port[p].tab] EXCEPT !.loading = FALSE, !.complete = TRUE]]
      BY <1>8, <2>2 DEF ReceiveSuccess, TypeOK
    <3>4. QED
      BY <2>2, <3>2, <3>3, PopupType
  <2>4. port' \in [DOMAIN port' -> Click] /\ DOMAIN port' \subseteq Port
    BY <1>8 DEF ReceiveSuccess, TypeOK, Drop
  <2>5. timers' \subseteq [tab : Tab, req : Request]
    BY <1>8, <2>2 DEF ReceiveSuccess, TypeOK
  <2>6. QED
    BY <1>8, <2>3, <2>4, <2>5 DEF TypeOK, ReceiveSuccess, browser, worker, history
<1>9. ASSUME NEW t \in Tab, PickAccount(t) PROVE TypeOK'
  <2>1. PICK p \in Port \ DOMAIN port : port' = Put(port, p, NewClick(t))
    BY <1>9 DEF PickAccount
  <2>2. NewClick(t) \in Click
    BY <1>9, <2>1, ClickEffect DEF PickAccount, Shown
  <2>3. port' \in [DOMAIN port' -> Click] /\ DOMAIN port' \subseteq Port
    BY <2>1, <2>2 DEF TypeOK, Put
  <2>4. ui' \in [Tab -> Popup]
    BY <1>9 DEF PickAccount, TypeOK, Popup
  <2>5. QED
    BY <1>9, <2>3, <2>4 DEF TypeOK, PickAccount, browser, worker, history
<1>10. ASSUME NEW t \in Tab, Dismiss(t) PROVE TypeOK'
  <2>1. ui' \in [Tab -> Popup]
    BY <1>10 DEF Dismiss, TypeOK, Popup
  <2>2. QED
    BY <1>10, <2>1 DEF TypeOK, Dismiss, browser, worker, history
<1>11. ASSUME NEW t \in Tab, Navigate(t) PROVE TypeOK'
  <2>1. ui' \in [Tab -> Popup]
    <3>1. Hidden \in Popup
      BY DEF Hidden, Popup, Kind
    <3>2. QED
      BY <1>11, <3>1, PopupType DEF Navigate
  <2>2. status' \in [Request -> {"new", "pending", "completed", "abandoned"}]
    BY <1>11 DEF Navigate, TypeOK
  <2>3. port' \in [DOMAIN port' -> Click] /\ DOMAIN port' \subseteq Port
    <3>1. /\ DOMAIN port' \subseteq DOMAIN port /\ port' = [x \in DOMAIN port' |-> port'[x]]
          /\ \A x \in DOMAIN port' : port'[x] \in Click
      BY <1>11, NavigateEffect DEF SameClick
    <3>2. QED
      BY <3>1 DEF TypeOK
  <2>4. QED
    BY <1>11, <2>1, <2>2, <2>3 DEF TypeOK, Navigate, worker, history
<1>12. ASSUME NEW timer \in timers, HidePopup(timer) PROVE TypeOK'
  <2>1. timer.tab \in Tab
    BY DEF TypeOK
  <2>2. ui' \in [Tab -> Popup]
    BY <1>12, <2>1 DEF HidePopup, TypeOK, Popup
  <2>3. QED
    BY <1>12, <2>2 DEF TypeOK, HidePopup, browser, worker, history
<1>13. CASE RestartWorker
  <2>1. \E settled : Settle(settled, "stuck")
    BY <1>13 DEF RestartWorker
  <2>2. port' \in [DOMAIN port' -> Click] /\ DOMAIN port' \subseteq Port
    BY <2>1, PortType DEF Stage
  <2>3. lost' \subseteq Request /\ requestMap' \in [Kind -> SUBSET Request]
    BY <1>13 DEF RestartWorker, TypeOK
  <2>4. QED
    BY <1>13, <2>2, <2>3 DEF TypeOK, RestartWorker, browser, history
<1>14. CASE UNCHANGED vars
  BY <1>14 DEF TypeOK, vars, browser, worker, history
<1>15. QED
  BY <1>1, <1>2, <1>3, <1>4, <1>5, <1>6, <1>7, <1>8, <1>9, <1>10, <1>11,
     <1>12, <1>13, <1>14 DEF Next, PortStep, ForwardStep

-----------------------------------------------------------------------------
(* Kinds                                                                   *)

\* Every port keeps its click, or is that of a click on a popup.
LEMMA PortEffect ==
    ASSUME TypeOK, Shown, [Next]_vars, NEW p \in DOMAIN port'
    PROVE  \/ /\ p \in DOMAIN port
              /\ port'[p].kind = port[p].kind
              /\ port'[p].req = port[p].req
           \/ \E t \in Tab : Enabled(t) /\ port'[p] = NewClick(t)
<1> DEFINE Same == /\ p \in DOMAIN port
                   /\ port'[p].kind = port[p].kind
                   /\ port'[p].req = port[p].req
<1>1. ASSUME port' = port PROVE Same
  BY <1>1
<1>2. ASSUME NEW x \in DOMAIN port, NEW stage \in Stage, SetStage(x, stage) PROVE Same
  BY <1>2, StageEffect DEF SameClick
<1>3. ASSUME NEW settled, NEW stage \in Stage, Settle(settled, stage) PROVE Same
  BY <1>3, SettleEffect DEF SameClick
<1>4. ASSUME NEW x \in Port, PortStep(x) PROVE Same
  <2>1. CASE ReceiveClick(x) \/ CompleteRequest(x)
    BY <2>1, <1>2, <1>3 DEF ReceiveClick, Refuse, CompleteRequest, Stage, At
  <2>2. CASE FetchFails(x) \/ ReportSuccess(x)
    BY <2>2, <1>3 DEF FetchFails, ReportSuccess, Stage
  <2>3. CASE ReceiveSuccess(x)
    BY <2>3 DEF ReceiveSuccess, Drop
  <2>4. QED
    BY <1>4, <2>1, <2>2, <2>3 DEF PortStep
<1>5. ASSUME NEW t \in Tab, PickAccount(t)
      PROVE  Same \/ (Enabled(t) /\ port'[p] = NewClick(t))
  <2>1. PICK x \in Port \ DOMAIN port : port' = Put(port, x, NewClick(t))
    BY <1>5 DEF PickAccount
  <2>2. QED
    BY <1>5, <2>1 DEF PickAccount, Put
<1>6. ASSUME NEW t \in Tab, Navigate(t) PROVE Same
  BY <1>6, NavigateEffect DEF SameClick
<1>7. ASSUME RestartWorker PROVE Same
  <2>1. \E settled : Settle(settled, "stuck")
    BY <1>7 DEF RestartWorker
  <2>2. QED
    BY <2>1, <1>3 DEF Stage
<1>8. QED
  BY <1>1, <1>4, <1>5, <1>6, <1>7
     DEF Next, ForwardStep, CallWebAuthn, Abandon, ForwardTo, ForwardNowhere,
         Dismiss, HidePopup, vars

\* Every popup keeps its request, is reset, or shows a request it is told of.
LEMMA PopupEffect ==
    ASSUME TypeOK, [Next]_vars, NEW t \in Tab
    PROVE  \/ /\ ui'[t].kind = ui[t].kind
              /\ ui'[t].req = ui[t].req
              /\ ui'[t].show => ui[t].show
           \/ ui'[t] = Hidden
           \/ \E q \in Request : ui'[t] = Show(t, q)
<1> DEFINE Same == /\ ui'[t].kind = ui[t].kind
                   /\ ui'[t].req = ui[t].req
                   /\ ui'[t].show => ui[t].show
<1>1. ASSUME ui' = ui PROVE Same
  BY <1>1
<1>2. ui[t] \in Popup
  BY DEF TypeOK
<1>3. ASSUME NEW q \in Request, NEW x \in Tab, ForwardTo(q, x)
      PROVE  Same \/ ui'[t] = Show(t, q)
  BY <1>3 DEF ForwardTo, TypeOK
<1>4. ASSUME NEW p \in Port, ReceiveSuccess(p) PROVE Same
  BY <1>4, <1>2 DEF ReceiveSuccess, TypeOK, Popup
<1>5. ASSUME NEW x \in Tab, PickAccount(x) PROVE Same
  BY <1>5, <1>2 DEF PickAccount, TypeOK, Popup
<1>6. ASSUME NEW x \in Tab, Dismiss(x) PROVE Same
  BY <1>6, <1>2 DEF Dismiss, TypeOK, Popup
<1>7. ASSUME NEW x \in Tab, Navigate(x) PROVE Same \/ ui'[t] = Hidden
  BY <1>7 DEF Navigate, TypeOK
<1>8. ASSUME NEW timer \in timers, HidePopup(timer) PROVE Same
  BY <1>8, <1>2 DEF HidePopup, TypeOK, Popup
<1>9. QED
  BY <1>1, <1>3, <1>4, <1>5, <1>6, <1>7, <1>8
     DEF Next, PortStep, ForwardStep, CallWebAuthn, Abandon, ForwardNowhere,
         ReceiveClick, CompleteRequest, FetchFails, ReportSuccess, RestartWorker, vars

\* A map gains only requests of its kind.
LEMMA MapEffect ==
    ASSUME TypeOK, [Next]_vars, NEW k \in Kind, NEW q \in requestMap'[k]
    PROVE  q \in Request /\ (q \in requestMap[k] \/ kind[q] = k)
<1>1. requestMap \in [Kind -> SUBSET Request]
  BY DEF TypeOK
<1>2. ASSUME requestMap' = requestMap
      PROVE  q \in Request /\ (q \in requestMap[k] \/ kind[q] = k)
  BY <1>1, <1>2
<1>3. ASSUME NEW x \in Request,
             requestMap' = [requestMap EXCEPT ![kind[x]] = @ \cup {x}]
      PROVE  q \in Request /\ (q \in requestMap[k] \/ kind[q] = k)
  BY <1>1, <1>3
<1>4. ASSUME NEW x \in Request, ForwardStep(x)
      PROVE  q \in Request /\ (q \in requestMap[k] \/ kind[q] = k)
  BY <1>2, <1>3, <1>4 DEF ForwardStep, ForwardTo, ForwardNowhere
<1>5. ASSUME NEW p \in Port, ReceiveClick(p)
      PROVE  q \in Request /\ (q \in requestMap[k] \/ kind[q] = k)
  BY <1>1, <1>2, <1>5 DEF ReceiveClick, Take
<1>6. ASSUME RestartWorker PROVE FALSE
  BY <1>6 DEF RestartWorker
<1>7. QED
  BY <1>2, <1>4, <1>5, <1>6
     DEF Next, PortStep, CallWebAuthn, Abandon, CompleteRequest, FetchFails,
         ReportSuccess, ReceiveSuccess, PickAccount, Dismiss, Navigate, HidePopup, vars, worker

\* Requests keep their kind.
LEMMA KindEffect == [Next]_vars => kind' = kind
BY DEF Next, PortStep, ForwardStep, CallWebAuthn, Abandon, ForwardTo,
       ForwardNowhere, ReceiveClick, CompleteRequest, FetchFails, ReportSuccess,
       ReceiveSuccess, RestartWorker, PickAccount, Dismiss, Navigate, HidePopup, vars, browser

LEMMA ShownStep == TypeOK /\ Shown /\ [Next]_vars => Shown'
<1> SUFFICES ASSUME TypeOK, Shown, [Next]_vars, NEW t \in Tab, ui'[t].show
             PROVE  ui'[t].req # NoRequest
  BY DEF Shown
<1>1. ~Hidden.show
  BY DEF Hidden
<1>2. \A q \in Request : Show(t, q).req # NoRequest
  BY PasskeyProxyAssumption DEF Show
<1>3. QED
  BY <1>1, <1>2, PopupEffect DEF Shown

LEMMA KindsStep == TypeOK /\ Shown /\ KindsAgree /\ [Next]_vars => KindsAgree'
<1> SUFFICES ASSUME TypeOK, Shown, KindsAgree, [Next]_vars PROVE KindsAgree'
  OBVIOUS
<1>1. kind' = kind
  BY KindEffect
<1>2. ASSUME NEW k \in Kind, NEW q \in requestMap'[k] PROVE kind[q] = k
  BY <1>2, MapEffect DEF KindsAgree
<1>3. ASSUME NEW t \in Tab, ui'[t].req # NoRequest
      PROVE  kind[ui'[t].req] = ui'[t].kind
  <2>1. Hidden.req = NoRequest
    BY DEF Hidden
  <2>2. \A q \in Request : Show(t, q).req = q /\ Show(t, q).kind = kind[q]
    BY DEF Show
  <2>3. QED
    BY <1>3, <2>1, <2>2, PopupEffect DEF KindsAgree
<1>4. ASSUME NEW p \in DOMAIN port' PROVE kind[port'[p].req] = port'[p].kind
  <2>1. \A t \in Tab : Enabled(t) => ui[t].req # NoRequest
    BY DEF Enabled, Shown
  <2>2. \A t \in Tab : NewClick(t).req = ui[t].req /\ NewClick(t).kind = ui[t].kind
    BY DEF NewClick
  <2>3. QED
    BY <2>1, <2>2, PortEffect DEF KindsAgree
<1>5. QED
  BY <1>1, <1>2, <1>3, <1>4 DEF KindsAgree

-----------------------------------------------------------------------------
(* Spinners                                                                *)

\* A step that keeps a popup's request, and the ports of its tab, backs its
\* spinner if it was backed.
LEMMA SpinnerFrame ==
    ASSUME SpinnerBacked, NEW t \in Tab, ui'[t].loading => ui[t].loading,
           ui'[t].req = ui[t].req,
           \A p \in DOMAIN port :
               port[p].tab = t /\ port[p].open =>
                   /\ p \in DOMAIN port' /\ port'[p].tab = port[p].tab
                   /\ port'[p].open = port[p].open /\ port'[p].req = port[p].req
    PROVE  ui'[t].loading =>
               \E p \in DOMAIN port' : /\ port'[p].tab = t /\ port'[p].open
                                       /\ port'[p].req = ui'[t].req
BY DEF SpinnerBacked

LEMMA SpinnerStep == TypeOK /\ Shown /\ SpinnerBacked /\ [Next]_vars => SpinnerBacked'
<1> SUFFICES ASSUME TypeOK, Shown, SpinnerBacked, [Next]_vars, NEW t \in Tab
             PROVE  ui'[t].loading =>
                        \E p \in DOMAIN port' : /\ port'[p].tab = t /\ port'[p].open
                                                /\ port'[p].req = ui'[t].req
  BY DEF SpinnerBacked
<1> DEFINE Backed == ui'[t].loading =>
                         \E p \in DOMAIN port' : /\ port'[p].tab = t /\ port'[p].open
                                                 /\ port'[p].req = ui'[t].req
<1>1. ui[t] \in Popup
  BY DEF TypeOK
<1>2. ASSUME ui' = ui, port' = port PROVE Backed
  BY <1>2, SpinnerFrame
<1>3. ASSUME NEW q \in Request, NEW x \in Tab, ForwardTo(q, x) PROVE Backed
  <2>1. port' = port /\ ui' = [ui EXCEPT ![x] = Show(x, q)]
    BY <1>3 DEF ForwardTo
  <2>2. ~Show(x, q).loading
    BY DEF Show
  <2>3. CASE t = x
    BY <2>1, <2>2, <2>3 DEF TypeOK
  <2>4. CASE t # x
    BY <2>1, <2>4, SpinnerFrame DEF TypeOK
  <2>5. QED
    BY <2>3, <2>4
<1>4. ASSUME ui' = ui,
             \/ \E p \in DOMAIN port, stage \in Stage : SetStage(p, stage)
             \/ \E settled, stage : stage \in Stage /\ Settle(settled, stage)
      PROVE  Backed
  <2>1. \A p \in DOMAIN port :
            port[p].tab = t /\ port[p].open =>
                /\ p \in DOMAIN port' /\ port'[p].tab = port[p].tab
                /\ port'[p].open = port[p].open /\ port'[p].req = port[p].req
    <3>1. ASSUME NEW x \in DOMAIN port, NEW stage \in Stage, SetStage(x, stage),
                 NEW p \in DOMAIN port
          PROVE  /\ p \in DOMAIN port' /\ port'[p].tab = port[p].tab
                 /\ port'[p].open = port[p].open /\ port'[p].req = port[p].req
      BY <3>1, StageEffect DEF SameClick
    <3>2. ASSUME NEW settled, NEW stage \in Stage, Settle(settled, stage),
                 NEW p \in DOMAIN port, port[p].open
          PROVE  /\ p \in DOMAIN port' /\ port'[p].tab = port[p].tab
                 /\ port'[p].open = port[p].open /\ port'[p].req = port[p].req
      BY <3>2, SettleEffect DEF SameClick
    <3>3. QED
      BY <1>4, <3>1, <3>2
  <2>2. QED
    BY <1>4, <2>1, SpinnerFrame
<1>5. ASSUME NEW p \in Port,
             \/ ReceiveClick(p) \/ CompleteRequest(p)
             \/ FetchFails(p) \/ ReportSuccess(p)
      PROVE  Backed
  BY <1>4, <1>5
     DEF ReceiveClick, Refuse, CompleteRequest, FetchFails, ReportSuccess, Stage, At
<1>6. ASSUME NEW p \in Port, ReceiveSuccess(p) PROVE Backed
  <2>1. p \in DOMAIN port /\ port' = Drop(port, p)
    BY <1>6 DEF ReceiveSuccess, At
  <2>2. CASE t = port[p].tab
    BY <1>1, <1>6, <2>2 DEF ReceiveSuccess, TypeOK, Popup
  <2>3. CASE t # port[p].tab
    <3>1. ui'[t] = ui[t]
      BY <1>6, <2>3 DEF ReceiveSuccess, TypeOK
    <3>2. QED
      BY <2>1, <2>3, <3>1, SpinnerFrame DEF Drop
  <2>4. QED
    BY <2>2, <2>3
<1>7. ASSUME NEW x \in Tab, PickAccount(x) PROVE Backed
  <2>1. PICK p \in Port \ DOMAIN port : port' = Put(port, p, NewClick(x))
    BY <1>7 DEF PickAccount
  <2>2. DOMAIN port' = DOMAIN port \cup {p} /\ port'[p] = NewClick(x)
    BY <2>1 DEF Put
  <2>3. \A y \in DOMAIN port : port'[y] = port[y]
    BY <2>1 DEF Put
  <2>4. CASE t = x
    <3>1. ui'[t].req = ui[t].req
      BY <1>1, <1>7, <2>4 DEF PickAccount, TypeOK, Popup
    <3>2. NewClick(x).tab = t /\ NewClick(x).open /\ NewClick(x).req = ui[t].req
      BY <2>4 DEF NewClick
    <3>3. QED
      BY <2>2, <3>1, <3>2
  <2>5. CASE t # x
    <3>1. ui'[t] = ui[t]
      BY <1>7, <2>5 DEF PickAccount, TypeOK
    <3>2. QED
      BY <2>2, <2>3, <3>1, SpinnerFrame
  <2>6. QED
    BY <2>4, <2>5
<1>8. ASSUME NEW x \in Tab, Dismiss(x) PROVE Backed
  <2>1. ui'[t].loading = ui[t].loading /\ ui'[t].req = ui[t].req
    BY <1>1, <1>8 DEF Dismiss, TypeOK, Popup
  <2>2. port' = port
    BY <1>8 DEF Dismiss
  <2>3. QED
    BY <2>1, <2>2, SpinnerFrame
<1>9. ASSUME NEW x \in Tab, Navigate(x) PROVE Backed
  <2>1. CASE t = x
    BY <1>9, <2>1 DEF Navigate, Hidden, TypeOK
  <2>2. CASE t # x
    <3>1. ui'[t] = ui[t]
      BY <1>9, <2>2 DEF Navigate, TypeOK
    <3>2. \A p \in DOMAIN port :
              port[p].tab = t => /\ p \in DOMAIN port' /\ SameClick(p)
                                 /\ port'[p].open = port[p].open
      BY <1>9, <2>2, NavigateEffect
    <3>3. QED
      BY <3>1, <3>2, SpinnerFrame DEF SameClick
  <2>3. QED
    BY <2>1, <2>2
<1>10. ASSUME NEW timer \in timers, HidePopup(timer) PROVE Backed
  <2>1. ui'[t].loading = ui[t].loading /\ ui'[t].req = ui[t].req
    BY <1>1, <1>10 DEF HidePopup, TypeOK, Popup
  <2>2. port' = port
    BY <1>10 DEF HidePopup
  <2>3. QED
    BY <2>1, <2>2, SpinnerFrame
<1>11. ASSUME RestartWorker PROVE Backed
  BY <1>4, <1>11 DEF RestartWorker, Stage
<1>12. QED
  BY <1>2, <1>3, <1>5, <1>6, <1>7, <1>8, <1>9, <1>10, <1>11
     DEF Next, PortStep, ForwardStep, CallWebAuthn, Abandon, ForwardNowhere, vars

-----------------------------------------------------------------------------
(* Where a request is                                                      *)

\* What OnePlace says of one request.
InPlace(q) ==
    /\ q \in querying => ~Kept(q) /\ Taken(q) = {} /\ q \notin lost /\ completed[q] = 0
    /\ Kept(q) => Taken(q) = {} /\ q \notin lost /\ completed[q] = 0
    /\ Taken(q) # {} => q \notin lost /\ completed[q] = 0
    /\ \A p1, p2 \in Taken(q) : p1 = p2
    /\ q \in lost => completed[q] = 0
    /\ status[q] = "new" <=> /\ q \notin querying /\ ~Kept(q) /\ Taken(q) = {}
                            /\ q \notin lost /\ completed[q] = 0
    /\ status[q] = "completed" => completed[q] = 1

\* A request that is where it was is in one place if it was.
LEMMA PlaceFrame ==
    ASSUME NEW q, InPlace(q), Taken(q)' = Taken(q), Kept(q)' <=> Kept(q),
           q \in querying' <=> q \in querying, q \in lost' <=> q \in lost,
           completed'[q] = completed[q], status'[q] = "new" <=> status[q] = "new",
           status'[q] = "completed" => status[q] = "completed"
    PROVE  InPlace(q)'
BY DEF InPlace

\* Same-map steps keep Kept, same-port steps keep Taken.
LEMMA MapFrame == ASSUME NEW q, requestMap' = requestMap PROVE Kept(q)' <=> Kept(q)
BY DEF Kept

LEMMA PortFrame == ASSUME NEW q, port' = port PROVE Taken(q)' = Taken(q)
BY DEF Taken, At

\* A port that gets a stage is fetching in this stage only.
LEMMA StageFrame ==
    ASSUME TypeOK, NEW p \in DOMAIN port, NEW stage \in Stage, SetStage(p, stage),
           stage # "fetching", NEW q
    PROVE  Taken(q)' = Taken(q) \ {p}
BY StageEffect DEF Taken, At, SameClick

\* Ports that are settled are fetching no more.
LEMMA SettleFrame ==
    ASSUME TypeOK, NEW settled, NEW stage \in Stage, Settle(settled, stage),
           stage # "fetching", NEW q
    PROVE  Taken(q)' = Taken(q) \ settled
<1>1. ASSUME NEW p \in Taken(q)' PROVE p \in Taken(q) \ settled
  <2>1. p \in DOMAIN port' /\ port'[p].stage = "fetching" /\ port'[p].req = q
    BY <1>1 DEF Taken, At
  <2>2. p \notin settled
    <3>1. \A x \in DOMAIN port' : x \in settled => port'[x].stage = stage
      BY SettleEffect
    <3>2. QED
      BY <2>1, <3>1
  <2>3. p \in DOMAIN port /\ port'[p] = port[p]
    BY <2>1, <2>2, SettleEffect
  <2>4. QED
    BY <2>1, <2>2, <2>3 DEF Taken, At
<1>2. ASSUME NEW p \in Taken(q), p \notin settled PROVE p \in Taken(q)'
  <2>1. p \in DOMAIN port' /\ port'[p] = port[p]
    BY <1>2, SettleEffect DEF Taken, At
  <2>2. QED
    BY <1>2, <2>1 DEF Taken, At
<1>3. QED
  BY <1>1, <1>2

\* Every step moves a request on, or leaves it where it is.
LEMMA PlaceStep == TypeOK /\ KindsAgree /\ OnePlace /\ [Next]_vars => OnePlace'
<1> SUFFICES ASSUME TypeOK, KindsAgree, OnePlace, [Next]_vars, NEW q \in Request
             PROVE  InPlace(q)'
  BY DEF OnePlace, InPlace
<1>1. InPlace(q)
  BY DEF OnePlace, InPlace
<1>2. ASSUME NEW x \in Request, CallWebAuthn(x) PROVE InPlace(q)'
  <2>1. /\ Kept(q)' <=> Kept(q)
        /\ Taken(q)' = Taken(q)
        /\ completed' = completed /\ lost' = lost
    BY <1>2, MapFrame, PortFrame DEF CallWebAuthn, history
  <2>2. CASE q = x
    <3>1. status[q] = "new" /\ status'[q] = "pending" /\ q \in querying'
      BY <1>2, <2>2 DEF CallWebAuthn, TypeOK
    <3>2. ~Kept(q) /\ Taken(q) = {} /\ q \notin lost /\ completed[q] = 0
      BY <1>1, <3>1 DEF InPlace
    <3>3. QED
      BY <2>1, <3>1, <3>2 DEF InPlace
  <2>3. CASE q # x
    <3>1. status'[q] = status[q] /\ (q \in querying' <=> q \in querying)
      BY <1>2, <2>3 DEF CallWebAuthn, TypeOK
    <3>2. QED
      BY <1>1, <2>1, <3>1, PlaceFrame
  <2>4. QED
    BY <2>2, <2>3
<1>3. ASSUME NEW x \in Request, Abandon(x) PROVE InPlace(q)'
  <2>1. /\ Kept(q)' <=> Kept(q)
        /\ Taken(q)' = Taken(q)
        /\ completed' = completed /\ lost' = lost /\ querying' = querying
    BY <1>3, MapFrame, PortFrame DEF Abandon, worker, history
  <2>2. /\ status'[q] = "new" <=> status[q] = "new"
        /\ status'[q] = "completed" => status[q] = "completed"
    BY <1>3 DEF Abandon, TypeOK
  <2>3. QED
    BY <1>1, <2>1, <2>2, PlaceFrame
<1>4. ASSUME NEW x \in Request, ForwardStep(x) PROVE InPlace(q)'
  <2>1. /\ x \in querying /\ querying' = querying \ {x}
        /\ port' = port /\ completed' = completed /\ status' = status
    BY <1>4 DEF ForwardStep, ForwardTo, ForwardNowhere, browser, history
  <2>2. Taken(q)' = Taken(q)
    BY <2>1, PortFrame
  <2>3. \/ /\ requestMap' = [requestMap EXCEPT ![kind[x]] = @ \cup {x}]
           /\ lost' = lost
        \/ /\ lost' = lost \cup {x}
           /\ requestMap' = requestMap
    BY <1>4 DEF ForwardStep, ForwardTo, ForwardNowhere, history
  <2>4. CASE q = x
    <3>1. /\ ~Kept(q) /\ Taken(q) = {} /\ q \notin lost /\ completed[q] = 0
          /\ status[q] # "new" /\ status[q] # "completed"
      BY <1>1, <2>1, <2>4 DEF InPlace
    <3>2. CASE requestMap' = [requestMap EXCEPT ![kind[x]] = @ \cup {x}] /\ lost' = lost
      <4>1. Kept(q)'
        BY <2>4, <3>2 DEF Kept, TypeOK
      <4>2. QED
        BY <2>1, <2>2, <2>4, <3>1, <3>2, <4>1 DEF InPlace
    <3>3. CASE lost' = lost \cup {x} /\ requestMap' = requestMap
      <4>1. ~Kept(q)'
        BY <3>1, <3>3, MapFrame
      <4>2. QED
        BY <2>1, <2>2, <2>4, <3>1, <3>3, <4>1 DEF InPlace
    <3>4. QED
      BY <2>3, <3>2, <3>3
  <2>5. CASE q # x
    <3>1. Kept(q)' <=> Kept(q)
      BY <2>3, <2>5 DEF Kept, TypeOK
    <3>2. QED
      BY <1>1, <2>1, <2>2, <2>3, <2>5, <3>1, PlaceFrame
  <2>6. QED
    BY <2>4, <2>5
<1>5. ASSUME NEW p \in Port, ReceiveClick(p) PROVE InPlace(q)'
  <2> DEFINE r == port[p].req
  <2>1. /\ p \in DOMAIN port /\ port[p].stage = "posted" /\ querying' = querying
        /\ completed' = completed /\ lost' = lost /\ status' = status
    BY <1>5 DEF ReceiveClick, browser, history, At
  <2>2. ASSUME r \notin requestMap[port[p].kind] PROVE InPlace(q)'
    <3>1. Settle({p}, "stuck") /\ "stuck" \in Stage /\ requestMap' = requestMap
      BY <1>5, <2>2 DEF ReceiveClick, Refuse, Stage
    <3>2. Taken(q)' = Taken(q)
      BY <2>1, <3>1, SettleFrame DEF Taken, At
    <3>3. QED
      BY <1>1, <2>1, <3>1, <3>2, MapFrame, PlaceFrame
  <2>3. ASSUME r \in requestMap[port[p].kind] PROVE InPlace(q)'
    <3>1. SetStage(p, "fetching") /\ "fetching" \in Stage /\ Take(p)
      BY <1>5, <2>3 DEF ReceiveClick, Stage
    <3>2. port[p].kind \in Kind /\ r \in Request
      BY <2>1 DEF TypeOK, Click
    <3>3. /\ requestMap \in [Kind -> SUBSET Request]
          /\ requestMap' = [requestMap EXCEPT ![port[p].kind] = @ \ {r}]
      BY <3>1 DEF Take, TypeOK
    <3>4. /\ DOMAIN port' = DOMAIN port /\ port'[p].stage = "fetching"
          /\ port'[p].req = r
          /\ \A y \in DOMAIN port : y # p => port'[y] = port[y]
      BY <2>1, <3>1, StageEffect DEF SameClick
    <3>5. CASE q = r
      <4>1. Kept(q)
        BY <2>3, <3>2, <3>5 DEF Kept
      <4>2. ~Kept(q)'
        <5>1. kind[r] = port[p].kind
          BY <2>3, <3>2 DEF KindsAgree
        <5>2. \A k \in Kind : r \in requestMap[k] => k = port[p].kind
          BY <5>1 DEF KindsAgree
        <5>3. \A k \in Kind : r \notin requestMap'[k]
          BY <3>2, <3>3, <5>2
        <5>4. QED
          BY <3>5, <5>3 DEF Kept
      <4>3. /\ Taken(q) = {} /\ completed[q] = 0 /\ q \notin querying /\ q \notin lost
            /\ status[q] # "new" /\ status[q] # "completed"
        BY <1>1, <4>1 DEF InPlace
      <4>4. Taken(q)' = {p}
        BY <2>1, <3>4, <3>5, <4>3 DEF Taken, At
      <4>5. QED
        BY <2>1, <4>2, <4>3, <4>4 DEF InPlace
    <3>6. CASE q # r
      <4>1. Taken(q)' = Taken(q)
        BY <2>1, <3>4, <3>6 DEF Taken, At
      <4>2. Kept(q)' <=> Kept(q)
        BY <3>2, <3>3, <3>6 DEF Kept
      <4>3. QED
        BY <1>1, <2>1, <4>1, <4>2, PlaceFrame
    <3>7. QED
      BY <3>5, <3>6
  <2>4. QED
    BY <2>2, <2>3
<1>6. ASSUME NEW p \in Port, CompleteRequest(p) PROVE InPlace(q)'
  <2> DEFINE r == port[p].req
  <2>1. /\ p \in DOMAIN port /\ port[p].stage = "fetching"
        /\ SetStage(p, "answered") /\ "answered" \in Stage
        /\ querying' = querying /\ requestMap' = requestMap /\ lost' = lost
        /\ status' = [status EXCEPT ![r] = IF @ = "pending" THEN "completed" ELSE @]
        /\ completed' = [completed EXCEPT ![r] = @ + 1]
    BY <1>6 DEF CompleteRequest, worker, Stage, At
  <2>2. Taken(q)' = Taken(q) \ {p}
    BY <2>1, StageFrame
  <2>3. Kept(q)' <=> Kept(q)
    BY <2>1, MapFrame
  <2>4. CASE q = r
    <3>1. p \in Taken(q)
      BY <2>1, <2>4 DEF Taken, At
    <3>2. /\ completed[q] = 0 /\ Taken(q) \ {p} = {} /\ ~Kept(q) /\ q \notin querying
          /\ q \notin lost /\ status[q] # "new"
      BY <1>1, <3>1 DEF InPlace
    <3>3. completed'[q] = 1 /\ status'[q] # "new"
      BY <2>1, <2>4, <3>2 DEF TypeOK
    <3>4. QED
      BY <2>1, <2>2, <2>3, <3>2, <3>3 DEF InPlace
  <2>5. CASE q # r
    <3>1. status'[q] = status[q] /\ completed'[q] = completed[q]
      BY <2>1, <2>5 DEF TypeOK
    <3>2. p \notin Taken(q)
      BY <2>5 DEF Taken
    <3>3. QED
      BY <1>1, <2>1, <2>2, <2>3, <3>1, <3>2, PlaceFrame
  <2>6. QED
    BY <2>4, <2>5
<1>7. ASSUME NEW p \in Port, FetchFails(p) PROVE InPlace(q)'
  <2> DEFINE r == port[p].req
  <2>1. /\ p \in DOMAIN port /\ port[p].stage = "fetching"
        /\ Settle({p}, "stuck") /\ "stuck" \in Stage /\ lost' = lost \cup {r}
        /\ querying' = querying /\ requestMap' = requestMap
        /\ completed' = completed /\ status' = status
    BY <1>7 DEF FetchFails, worker, browser, Stage, At
  <2>2. Taken(q)' = Taken(q) \ {p} /\ (Kept(q)' <=> Kept(q))
    BY <2>1, SettleFrame, MapFrame
  <2>3. CASE q = r
    <3>1. p \in Taken(q)
      BY <2>1, <2>3 DEF Taken, At
    <3>2. /\ completed[q] = 0 /\ Taken(q) \ {p} = {} /\ ~Kept(q) /\ q \notin querying
          /\ status[q] # "new" /\ status[q] # "completed"
      BY <1>1, <3>1 DEF InPlace
    <3>3. QED
      BY <2>1, <2>2, <2>3, <3>2 DEF InPlace
  <2>4. CASE q # r
    <3>1. p \notin Taken(q)
      BY <2>4 DEF Taken
    <3>2. QED
      BY <1>1, <2>1, <2>2, <2>4, <3>1, PlaceFrame
  <2>5. QED
    BY <2>3, <2>4
<1>8. ASSUME NEW p \in Port, ReportSuccess(p) \/ ReceiveSuccess(p) PROVE InPlace(q)'
  <2>1. /\ querying' = querying /\ requestMap' = requestMap
        /\ completed' = completed /\ status' = status /\ lost' = lost
    BY <1>8 DEF ReportSuccess, ReceiveSuccess, worker, browser, history
  <2>2. Taken(q)' = Taken(q)
    <3>1. CASE ReportSuccess(p)
      <4>1. p \notin Taken(q) /\ Settle({p}, "done") /\ "done" \in Stage
        BY <3>1 DEF ReportSuccess, Taken, At, Stage
      <4>2. QED
        BY <4>1, SettleFrame
    <3>2. CASE ReceiveSuccess(p)
      BY <3>2 DEF ReceiveSuccess, Taken, At, Drop
    <3>3. QED
      BY <1>8, <3>1, <3>2
  <2>3. QED
    BY <1>1, <2>1, <2>2, MapFrame, PlaceFrame
<1>9. ASSUME NEW t \in Tab, PickAccount(t) PROVE InPlace(q)'
  <2>1. /\ querying' = querying /\ requestMap' = requestMap
        /\ completed' = completed /\ status' = status /\ lost' = lost
    BY <1>9 DEF PickAccount, worker, browser, history
  <2>2. PICK p \in Port \ DOMAIN port : port' = Put(port, p, NewClick(t))
    BY <1>9 DEF PickAccount
  <2>3. Taken(q)' = Taken(q)
    BY <2>2 DEF Taken, At, Put, NewClick
  <2>4. QED
    BY <1>1, <2>1, <2>3, MapFrame, PlaceFrame
<1>10. ASSUME NEW t \in Tab, Navigate(t) PROVE InPlace(q)'
  <2>1. /\ querying' = querying /\ requestMap' = requestMap
        /\ completed' = completed /\ lost' = lost
    BY <1>10 DEF Navigate, worker, history
  <2>2. Taken(q)' = Taken(q)
    BY <1>10, NavigateEffect DEF Taken, At, SameClick
  <2>3. /\ status'[q] = "new" <=> status[q] = "new"
        /\ status'[q] = "completed" => status[q] = "completed"
    BY <1>10 DEF Navigate
  <2>4. QED
    BY <1>1, <2>1, <2>2, <2>3, MapFrame, PlaceFrame
<1>11. ASSUME RestartWorker PROVE InPlace(q)'
  <2>1. /\ querying' = {} /\ completed' = completed /\ status' = status
        /\ lost' = lost \cup querying \cup {x \in Request : Kept(x) \/ Taken(x) # {}}
        /\ \A k \in Kind : requestMap'[k] = {}
    BY <1>11 DEF RestartWorker, browser
  <2>2. ~Kept(q)'
    BY <2>1 DEF Kept
  <2>3. Taken(q)' = {}
    <3>1. PICK missed : Settle(missed \cup At({"fetching", "answered"}), "stuck")
      BY <1>11 DEF RestartWorker
    <3>2. Taken(q)' = Taken(q) \ (missed \cup At({"fetching", "answered"}))
      BY <3>1, SettleFrame DEF Stage
    <3>3. QED
      BY <3>2 DEF Taken, At
  <2>4. q \in lost' <=> q \in lost \/ q \in querying \/ Kept(q) \/ Taken(q) # {}
    BY <2>1
  <2>5. QED
    BY <1>1, <2>1, <2>2, <2>3, <2>4 DEF InPlace
<1>12. ASSUME querying' = querying, requestMap' = requestMap, port' = port,
              completed' = completed, lost' = lost, status' = status
       PROVE  InPlace(q)'
  BY <1>1, <1>12, MapFrame, PortFrame, PlaceFrame
<1>13. QED
  BY <1>2, <1>3, <1>4, <1>5, <1>6, <1>7, <1>8, <1>9, <1>10, <1>11, <1>12
     DEF Next, PortStep, Dismiss, HidePopup, vars, browser, worker, history

-----------------------------------------------------------------------------
(* The inductive invariant                                                 *)

\* The worker forgets a closed port when it has nothing left to do for it.
LEMMA ClosedStep ==
    TypeOK /\ ClosedIsAtWork /\ [Next]_vars => ClosedIsAtWork'
<1> SUFFICES ASSUME TypeOK, ClosedIsAtWork, [Next]_vars, NEW p \in DOMAIN port',
                    port'[p].stage \in {"done", "stuck"}
             PROVE  port'[p].open
  BY DEF ClosedIsAtWork, At
<1>1. ASSUME p \in DOMAIN port, port'[p] = port[p] PROVE port'[p].open
  BY <1>1 DEF ClosedIsAtWork, At
<1>2. ASSUME NEW x \in DOMAIN port, NEW stage \in Stage, SetStage(x, stage),
             stage \notin {"done", "stuck"}
      PROVE  port'[p].open
  BY <1>1, <1>2, StageEffect
<1>3. ASSUME NEW settled, NEW stage \in Stage, Settle(settled, stage)
      PROVE  port'[p].open
  <2>1. p \in DOMAIN port /\ (p \in settled => port[p].open)
    BY <1>3, SettleEffect
  <2>2. port'[p].open = port[p].open
    BY <1>3, SettleEffect
  <2>3. CASE p \in settled
    BY <2>1, <2>2, <2>3
  <2>4. CASE p \notin settled
    BY <1>1, <1>3, <2>1, <2>4, SettleEffect
  <2>5. QED
    BY <2>3, <2>4
<1>4. ASSUME NEW x \in Port, PortStep(x) PROVE port'[p].open
  <2>1. CASE ReceiveClick(x) \/ CompleteRequest(x)
    BY <2>1, <1>2, <1>3 DEF ReceiveClick, Refuse, CompleteRequest, Stage, At
  <2>2. CASE FetchFails(x) \/ ReportSuccess(x)
    BY <2>2, <1>3 DEF FetchFails, ReportSuccess, Stage
  <2>3. CASE ReceiveSuccess(x)
    BY <2>3, <1>1 DEF ReceiveSuccess, Drop
  <2>4. QED
    BY <1>4, <2>1, <2>2, <2>3 DEF PortStep
<1>5. ASSUME NEW t \in Tab, PickAccount(t) PROVE port'[p].open
  BY <1>5, <1>1 DEF PickAccount, Put, NewClick
<1>6. ASSUME NEW t \in Tab, Navigate(t) PROVE port'[p].open
  BY <1>6, NavigateEffect DEF ClosedIsAtWork, At
<1>7. ASSUME RestartWorker PROVE port'[p].open
  BY <1>7, <1>3 DEF RestartWorker, Stage
<1>8. QED
  BY <1>1, <1>4, <1>5, <1>6, <1>7
     DEF Next, ForwardStep, CallWebAuthn, Abandon, ForwardTo, ForwardNowhere,
         Dismiss, HidePopup, vars

\* A request is completed by the one port that has taken it, so once.
LEMMA OnceStep ==
    TypeOK /\ OnePlace /\ CompletedAtMostOnce /\ [Next]_vars => CompletedAtMostOnce'
<1> SUFFICES ASSUME TypeOK, OnePlace, CompletedAtMostOnce, [Next]_vars,
                    NEW q \in Request
             PROVE  completed'[q] <= 1
  BY DEF CompletedAtMostOnce
<1>1. ASSUME completed' = completed PROVE completed'[q] <= 1
  BY <1>1 DEF CompletedAtMostOnce
<1>2. ASSUME NEW p \in Port, CompleteRequest(p) PROVE completed'[q] <= 1
  <2>1. p \in Taken(port[p].req) /\ port[p].req \in Request
    BY <1>2 DEF CompleteRequest, Taken, At, TypeOK, Click
  <2>2. completed[port[p].req] = 0
    BY <2>1 DEF OnePlace
  <2>3. completed' = [completed EXCEPT ![port[p].req] = @ + 1]
    BY <1>2 DEF CompleteRequest
  <2>4. QED
    BY <2>2, <2>3 DEF TypeOK, CompletedAtMostOnce
<1>3. QED
  BY <1>1, <1>2
     DEF Next, PortStep, ForwardStep, CallWebAuthn, Abandon, ForwardTo,
         ForwardNowhere, ReceiveClick, FetchFails, ReportSuccess, ReceiveSuccess,
         RestartWorker, PickAccount, Dismiss, Navigate, HidePopup, vars, history

LEMMA InvStep == IInv /\ [Next]_vars => IInv'
<1>1. IInv => TypeOK /\ Shown /\ KindsAgree /\ SpinnerBacked /\ OnePlace
                /\ ClosedIsAtWork /\ CompletedAtMostOnce
  BY DEF IInv, Shown
<1>2. TypeOK' /\ Shown' /\ KindsAgree' /\ SpinnerBacked' /\ OnePlace'
        /\ ClosedIsAtWork' /\ CompletedAtMostOnce' => IInv'
  BY DEF IInv, Shown
<1>3. QED
  BY <1>1, <1>2, TypeStep, ShownStep, KindsStep, SpinnerStep, PlaceStep, ClosedStep,
     OnceStep

\* The inductive invariant of the extension holds however calls, clicks,
\* restarts of the worker and navigations interleave.
THEOREM Invariance == Spec => []IInv
<1>1. Init => IInv
  <2>1. ASSUME Init PROVE TypeOK
    BY <2>1 DEF Init, TypeOK, Hidden, Popup, Kind, Click
  <2>2. ASSUME Init PROVE OnePlace
    BY <2>2 DEF Init, OnePlace, Kept, Taken, At
  <2>3. ASSUME Init PROVE KindsAgree /\ SpinnerBacked /\ CompletedAtMostOnce
    BY <2>3 DEF Init, KindsAgree, SpinnerBacked, CompletedAtMostOnce, Hidden
  <2>4. ASSUME Init PROVE Shown /\ ClosedIsAtWork
    BY <2>4 DEF Init, Shown, ClosedIsAtWork, At, Hidden
  <2>5. QED
    BY <2>1, <2>2, <2>3, <2>4 DEF IInv, Shown
<1>2. QED
  BY <1>1, InvStep, PTL DEF Spec

\* background/index.ts gives Chrome at most one response for a request, because
\* a click takes the request out of its map before it fetches.
THEOREM RequestsAreCompletedOnce == Spec => []CompletedAtMostOnce
<1>1. IInv => CompletedAtMostOnce
  BY DEF IInv
<1>2. QED
  BY <1>1, Invariance, PTL

\* App.tsx never shows the spinner of a click on another request than the one
\* shown, although its state is shared by all of them.
THEOREM SpinnersAreBacked == Spec => []SpinnerBacked
<1>1. IInv => SpinnerBacked
  BY DEF IInv
<1>2. QED
  BY <1>1, Invariance, PTL

\* No request is answered as one of the other kind.
THEOREM KindsAlwaysAgree == Spec => []KindsAgree
<1>1. IInv => KindsAgree
  BY DEF IInv
<1>2. QED
  BY <1>1, Invariance, PTL

\* A request that was made is in one place: with the worker, in one click, completed
\* or lost, whichever pages go away meanwhile.
THEOREM RequestsAreInOnePlace == Spec => []OnePlace
<1>1. IInv => OnePlace
  BY DEF IInv
<1>2. QED
  BY <1>1, Invariance, PTL

-----------------------------------------------------------------------------
(* The extension implements PasskeyConsent                                 *)

\* A popup that is not shown anew, and shows what it did, offers nothing new.
LEMMA OfferedFrame ==
    ASSUME \A t \in Tab : ui'[t].show => ui[t].show /\ Of(ui'[t]) = Of(ui[t])
    PROVE  Offered' \subseteq Offered
BY DEF Offered

\* A port that was not waiting does not wait now, unless it is new.
LEMMA ApprovedFrame ==
    ASSUME \A p \in Waiting' : p \in Waiting /\ Of(port'[p]) = Of(port[p])
    PROVE  Approved' \subseteq Approved
BY DEF Approved

LEMMA LoseConsent ==
    ASSUME kind' = kind, Asked' = Asked, completed' = completed,
           Offered' \subseteq Offered, Approved' \subseteq Approved
    PROVE  Consent!Next
BY DEF Consent!Next, Consent!Lose

\* What nobody changes is the same for the promise.
LEMMA SameConsent ==
    /\ status' = status => Asked' = Asked
    /\ ui' = ui => Offered' = Offered
    /\ port' = port => Approved' = Approved
BY DEF Asked, Offered, Approved, Waiting, At

LEMMA CallConsent ==
    ASSUME TypeOK, NEW q \in Request, CallWebAuthn(q)
    PROVE  Consent!Next
<1>1. Asked' = Asked \cup {q} /\ q \notin Asked
  BY DEF CallWebAuthn, Asked, TypeOK
<1>2. UNCHANGED <<kind, Offered, Approved, completed>>
  BY SameConsent DEF CallWebAuthn, history
<1>3. Consent!Call(q)
  BY <1>1, <1>2 DEF Consent!Call
<1>4. QED
  BY <1>3 DEF Consent!Next

\* The worker keeps and offers only what was asked for.
LEMMA ForwardConsent ==
    ASSUME TypeOK, OnePlace, NEW q \in Request, NEW t \in Tab, ForwardTo(q, t)
    PROVE  Consent!Next
<1>1. q \in Asked
  BY DEF ForwardTo, OnePlace, Asked
<1>2. UNCHANGED <<kind, Asked, Approved, completed>>
  BY SameConsent DEF ForwardTo, browser, history
<1>3. Of(Show(t, q)) = Consent!Itself(q)
  BY DEF Of, Show, Consent!Itself
<1>4. ASSUME NEW x \in Tab
      PROVE  ui'[x] = ui[x] \/ ui'[x] = Show(t, q)
  BY DEF ForwardTo, TypeOK
<1>5. Offered' \subseteq Offered \cup {Consent!Itself(q)}
  BY <1>3, <1>4 DEF Offered
<1>6. Consent!Offer(q)
  BY <1>1, <1>2, <1>5 DEF Consent!Offer
<1>7. QED
  BY <1>6 DEF Consent!Next

\* A click approves what its popup shows.
LEMMA PickConsent ==
    ASSUME TypeOK, NEW t \in Tab, PickAccount(t)
    PROVE  Consent!Next
<1>1. PICK p \in Port \ DOMAIN port : port' = Put(port, p, NewClick(t))
  BY DEF PickAccount
<1>2. Of(ui[t]) \in Offered
  BY DEF PickAccount, Enabled, Offered
<1>3. UNCHANGED <<kind, Asked, completed>>
  BY SameConsent DEF PickAccount, browser, history
<1>4. Offered' = Offered
  <2>1. ui[t] \in Popup
    BY DEF TypeOK
  <2>2. \A x \in Tab : ui'[x].show = ui[x].show /\ Of(ui'[x]) = Of(ui[x])
    BY <2>1 DEF PickAccount, TypeOK, Of, Popup
  <2>3. QED
    BY <2>2 DEF Offered
<1>5. Approved' = Approved \cup {Of(ui[t])}
  <2>1. /\ DOMAIN port' = DOMAIN port \cup {p} /\ port'[p] = NewClick(t)
        /\ \A x \in DOMAIN port : port'[x] = port[x]
    BY <1>1 DEF Put
  <2>2. Waiting' = Waiting \cup {p}
    <3>1. port'[p].stage = "posted" /\ p \notin DOMAIN port
      BY <1>1, <2>1 DEF NewClick
    <3>2. QED
      BY <2>1, <3>1 DEF Waiting, At
  <2>3. Of(port'[p]) = Of(ui[t])
    BY <2>1 DEF Of, NewClick
  <2>4. \A x \in Waiting : port'[x] = port[x]
    BY <2>1 DEF Waiting, At
  <2>5. QED
    BY <2>2, <2>3, <2>4 DEF Approved
<1>6. Consent!Approve(Of(ui[t]))
  BY <1>3, <1>4, <1>5 DEF Consent!Approve
<1>7. QED
  BY <1>2, <1>6 DEF Consent!Next

\* The request is answered as what it is, because kinds agree, and for the first
\* time, because it is in one place.
LEMMA CompleteConsent ==
    ASSUME TypeOK, KindsAgree, OnePlace, NEW p \in Port, CompleteRequest(p)
    PROVE  Consent!Next
<1> DEFINE q == port[p].req
<1>1. /\ p \in DOMAIN port /\ port[p].stage = "fetching"
      /\ SetStage(p, "answered") /\ "answered" \in Stage
  BY DEF CompleteRequest, Stage, At
<1>2. q \in Request /\ p \in Taken(q)
  BY <1>1 DEF TypeOK, Click, Taken, At
<1>3. completed[q] = 0 /\ status[q] # "new"
  BY <1>2 DEF OnePlace
<1>4. Of(port[p]) = Consent!Itself(q)
  BY <1>1 DEF KindsAgree, Of, Consent!Itself
<1>5. p \in Waiting /\ Of(port[p]) \in Approved
  BY <1>1 DEF Waiting, At, Approved
<1>6. Approved' \in {Approved, Approved \ {Consent!Itself(q)}}
  <2>1. Waiting' = Waiting \ {p}
    BY <1>1, StageEffect DEF Waiting, At
  <2>2. Approved' = {Of(port[x]) : x \in Waiting \ {p}}
    <3>1. \A x \in Waiting \ {p} : Of(port'[x]) = Of(port[x])
      BY <1>1, StageEffect DEF Waiting, At, SameClick, Of
    <3>2. QED
      BY <2>1, <3>1 DEF Approved
  <2>3. Approved = {Of(port[x]) : x \in Waiting \ {p}} \cup {Of(port[p])}
    BY <1>5 DEF Approved
  <2>4. QED
    BY <1>4, <2>2, <2>3
<1>7. completed' = [completed EXCEPT ![q] = 1]
  BY <1>2, <1>3 DEF CompleteRequest, TypeOK
<1>8. Asked' = Asked
  BY <1>3, <1>2 DEF CompleteRequest, TypeOK, Asked
<1>9. UNCHANGED <<kind, Offered>>
  BY SameConsent DEF CompleteRequest
<1>10. Consent!Answer(q)
  BY <1>3, <1>4, <1>5, <1>6, <1>7, <1>8, <1>9 DEF Consent!Answer
<1>11. QED
  BY <1>2, <1>10 DEF Consent!Next

\* Of every other step the promise sees a loss, or nothing.
LEMMA DropConsent ==
    ASSUME TypeOK, [Next]_vars,
           \A q \in Request : ~CallWebAuthn(q) /\ \A t \in Tab : ~ForwardTo(q, t),
           \A t \in Tab : ~PickAccount(t), \A p \in Port : ~CompleteRequest(p)
    PROVE  Consent!Next
<1>1. UNCHANGED <<kind, completed>>
  BY KindEffect
     DEF Next, PortStep, ForwardStep, Abandon, ForwardNowhere, ReceiveClick,
         FetchFails, ReportSuccess, ReceiveSuccess, RestartWorker, Dismiss,
         Navigate, HidePopup, vars, history
<1>2. Asked' = Asked
  <2>1. ASSUME NEW q \in Request, Abandon(q) PROVE Asked' = Asked
    BY <2>1 DEF Abandon, Asked, TypeOK
  <2>2. ASSUME NEW t \in Tab, Navigate(t) PROVE Asked' = Asked
    BY <2>2 DEF Navigate, Asked
  <2>3. QED
    BY <2>1, <2>2, SameConsent
       DEF Next, PortStep, ForwardStep, ForwardNowhere, ReceiveClick, FetchFails,
           ReportSuccess, ReceiveSuccess, RestartWorker, Dismiss, HidePopup, vars,
           browser
<1>3. Offered' \subseteq Offered
  <2>1. \A t \in Tab : ui[t] \in Popup
    BY DEF TypeOK
  <2>2. ASSUME NEW p \in Port, ReceiveSuccess(p) PROVE Offered' \subseteq Offered
    BY <2>1, <2>2, OfferedFrame DEF ReceiveSuccess, TypeOK, Popup, Of
  <2>3. ASSUME NEW t \in Tab, Dismiss(t) PROVE Offered' \subseteq Offered
    BY <2>1, <2>3, OfferedFrame DEF Dismiss, TypeOK, Popup, Of
  <2>4. ASSUME NEW t \in Tab, Navigate(t) PROVE Offered' \subseteq Offered
    BY <2>1, <2>4, OfferedFrame DEF Navigate, TypeOK, Popup, Hidden, Of
  <2>5. ASSUME NEW timer \in timers, HidePopup(timer) PROVE Offered' \subseteq Offered
    BY <2>1, <2>5, OfferedFrame DEF HidePopup, TypeOK, Popup, Of
  <2>6. QED
    BY <2>2, <2>3, <2>4, <2>5, SameConsent
       DEF Next, PortStep, ForwardStep, Abandon, ForwardNowhere, ReceiveClick,
           FetchFails, ReportSuccess, RestartWorker, vars
<1>4. Approved' \subseteq Approved
  <2>1. ASSUME NEW settled, NEW stage \in Stage, Settle(settled, stage),
               stage \notin {"posted", "fetching"}
        PROVE  Approved' \subseteq Approved
    <3>1. ASSUME NEW x \in Waiting' PROVE x \in Waiting /\ Of(port'[x]) = Of(port[x])
      <4>1. x \in DOMAIN port' /\ port'[x].stage \in {"posted", "fetching"}
        BY <3>1 DEF Waiting, At
      <4>2. x \in DOMAIN port /\ port'[x] = port[x]
        <5>1. /\ DOMAIN port' \subseteq DOMAIN port
              /\ \A y \in DOMAIN port' : y \notin settled => port'[y] = port[y]
              /\ \A y \in DOMAIN port' : y \in settled => port'[y].stage = stage
          BY <2>1, SettleEffect
        <5>2. QED
          BY <2>1, <4>1, <5>1
      <4>3. QED
        BY <4>1, <4>2 DEF Waiting, At
    <3>2. QED
      BY <3>1, ApprovedFrame
  <2>2. ASSUME NEW p \in Port, ReceiveClick(p) PROVE Approved' \subseteq Approved
    <3>1. CASE Settle({p}, "stuck")
      BY <2>1, <3>1 DEF Stage
    <3>2. CASE SetStage(p, "fetching")
      <4>1. p \in Waiting /\ "fetching" \in Stage
        BY <2>2 DEF ReceiveClick, Waiting, At, Stage
      <4>2. \A x \in Waiting' : x \in Waiting /\ Of(port'[x]) = Of(port[x])
        BY <3>2, <4>1, StageEffect DEF Waiting, At, SameClick, Of
      <4>3. QED
        BY <4>2, ApprovedFrame
    <3>3. QED
      BY <2>2, <3>1, <3>2 DEF ReceiveClick, Refuse
  <2>3. ASSUME NEW p \in Port, FetchFails(p) \/ ReportSuccess(p)
        PROVE  Approved' \subseteq Approved
    BY <2>1, <2>3 DEF FetchFails, ReportSuccess, Stage
  <2>4. ASSUME NEW p \in Port, ReceiveSuccess(p) PROVE Approved' \subseteq Approved
    BY <2>4, ApprovedFrame DEF ReceiveSuccess, Drop, Waiting, At
  <2>5. ASSUME NEW t \in Tab, Navigate(t) PROVE Approved' \subseteq Approved
    BY <2>5, NavigateEffect, ApprovedFrame DEF Waiting, At, SameClick, Of
  <2>6. ASSUME RestartWorker PROVE Approved' \subseteq Approved
    BY <2>1, <2>6 DEF RestartWorker, Stage
  <2>7. QED
    BY <2>2, <2>3, <2>4, <2>5, <2>6, SameConsent
       DEF Next, PortStep, ForwardStep, Abandon, ForwardNowhere, Dismiss,
           HidePopup, vars
<1>5. QED
  BY <1>1, <1>2, <1>3, <1>4, LoseConsent

\* background/index.ts and App.tsx together answer for a user only what this user
\* was shown and clicked on, once, although the click, the popup and the request
\* each live in another process.
THEOREM ExtensionAsksForConsent == Spec => ImplementsConsent
<1>1. Init => Consent!Init
  <2>1. ASSUME Init PROVE Asked = {} /\ Offered = {} /\ Approved = {}
    BY <2>1 DEF Init, Asked, Offered, Approved, Waiting, At, Hidden
  <2>2. QED
    BY <2>1 DEF Init, Consent!Init
<1>2. IInv /\ [Next]_vars => [Consent!Next]_(Consent!vars)
  <2>1. IInv => TypeOK /\ KindsAgree /\ OnePlace
    BY DEF IInv
  <2>2. QED
    BY <2>1, CallConsent, ForwardConsent, PickConsent, CompleteConsent, DropConsent
<1>3. QED
  BY <1>1, <1>2, Invariance, PTL DEF Spec, ImplementsConsent, Consent!Spec
=============================================================================
