------------------------------ MODULE ExtStorage ------------------------------
(***************************************************************************)
(* One key of the extension's storage, as its pages share it               *)
(* (chrome-ext/packages/storage/lib/base/base.ts, with the theme of        *)
(* lib/impl and the hook of packages/shared/lib/hooks/useStorage.tsx).     *)
(*                                                                         *)
(* Popup, options, side panel and devtools panel each load the module, so  *)
(* that each has a cache of its own in front of chrome.storage.local.  A   *)
(* click computes the next value from the cache, stores it there, and      *)
(* sends it; changes come back to every open page as events.  Answers and  *)
(* events reach a page in the order the storage area produced them.        *)
(*                                                                         *)
(* Every name ends in Storage, or is of the storage only, so that module   *)
(* Client can extend this one.                                             *)
(***************************************************************************)
EXTENDS Naturals, Sequences

CONSTANTS
    Page,       \* the pages that may be open
    Value,      \* the values of the key
    Fallback,   \* what a read of an absent key returns
    Updater,    \* the functions that pages pass to set
    Apply,      \* what they compute
    NoUpdater,  \* a call that carries none
    Null,       \* null in JavaScript, and the value of an absent key
    MaxSets     \* bound on the calls of set

ASSUME ExtStorageAssumption ==
    /\ Fallback \in Value
    /\ Apply \in [Updater -> [Value -> Value]]
    /\ NoUpdater \notin Updater
    /\ Null \notin Value
    /\ MaxSets \in Nat

VARIABLES
    stored,     \* the key in the storage area
    opened,     \* the pages that are open
    cache,      \* cache of each page
    inited,     \* initedCache of each page
    shown,      \* what its components have rendered, Null while suspended
    sent,       \* its calls of chrome.storage, not yet carried out
    inbox,      \* answers and events on their way to it
    acks,       \* answers to its writes on their way to it
    failed,     \* history: a write failed and nothing was taken over since
    sets        \* history: calls of set so far

storageVars == <<stored, opened, cache, inited, shown, sent, inbox, acks, failed, sets>>

\* Reads are those of createStorage, of useStorage and of set; the last one
\* goes on with the updater.
Message == [type : {"init", "suspend", "read", "write", "event"},
            upd : Updater \cup {NoUpdater}, val : Value \cup {Null}]

Read(why, u) == [type |-> why, upd |-> u, val |-> Null]
Write(v)     == [type |-> "write", upd |-> NoUpdater, val |-> v]
Event(v)     == [type |-> "event", upd |-> NoUpdater, val |-> v]

StorageInit ==
    /\ stored \in Value \cup {Null}
    /\ opened = {}
    /\ cache = [x \in Page |-> Null]
    /\ inited = [x \in Page |-> FALSE]
    /\ shown = [x \in Page |-> Null]
    /\ sent = [x \in Page |-> <<>>]
    /\ inbox = [x \in Page |-> <<>>]
    /\ acks = [x \in Page |-> 0]
    /\ failed = [x \in Page |-> FALSE]
    /\ sets = 0

\* What a read returns: deserialize(value[key]) ?? fallback.
Current == IF stored = Null THEN Fallback ELSE stored

-----------------------------------------------------------------------------
(* The pages                                                               *)

\* A page loads: createStorage reads the key, useStorage reads it again and
\* suspends the components.
OpenPage(x) ==
    /\ x \notin opened
    /\ sent[x] = <<>>
    /\ opened' = opened \cup {x}
    /\ sent' = [sent EXCEPT ![x] = <<Read("init", NoUpdater), Read("suspend", NoUpdater)>>]
    /\ UNCHANGED <<stored, cache, inited, shown, inbox, acks, failed, sets>>

\* A page closes, the popup whenever it loses the focus; what it has sent is
\* carried out nevertheless.
ClosePage(x) ==
    /\ x \in opened
    /\ opened' = opened \ {x}
    /\ cache' = [cache EXCEPT ![x] = Null]
    /\ inited' = [inited EXCEPT ![x] = FALSE]
    /\ shown' = [shown EXCEPT ![x] = Null]
    /\ inbox' = [inbox EXCEPT ![x] = <<>>]
    /\ acks' = [acks EXCEPT ![x] = 0]
    /\ failed' = [failed EXCEPT ![x] = FALSE]
    /\ UNCHANGED <<stored, sent, sets>>

\* The cache takes a value, and the value is sent to be written.
Store(x, v) ==
    /\ cache' = [cache EXCEPT ![x] = v]
    /\ sent' = [sent EXCEPT ![x] = Append(@, Write(v))]

\* set, as toggle calls it.  Without an initial value it reads for itself.
SetValue(x, u) ==
    /\ x \in opened
    /\ sets < MaxSets
    /\ sets' = sets + 1
    /\ \/ inited[x] /\ Store(x, Apply[u][cache[x]])
       \/ /\ ~inited[x]
          /\ sent' = [sent EXCEPT ![x] = Append(@, Read("read", u))]
          /\ UNCHANGED cache
    /\ UNCHANGED <<stored, opened, inited, shown, inbox, acks, failed>>

\* _emitChange: mounted components render the cache.
Emit(x, v) == shown' = [shown EXCEPT ![x] = IF @ = Null THEN Null ELSE v]

\* What the storage area has said goes to the cache, and is emitted.
TakeOver(x, v) ==
    /\ cache' = [cache EXCEPT ![x] = v]
    /\ Emit(x, v)
    /\ failed' = [failed EXCEPT ![x] = FALSE]

\* Takes the next answer or event off the inbox of an open page.
Take(x, type) ==
    /\ inbox[x] # <<>>
    /\ Head(inbox[x]).type = type
    /\ inbox' = [inbox EXCEPT ![x] = Tail(@)]

\* The initial read of createStorage ends.
ReceiveInit(x) ==
    /\ Take(x, "init")
    /\ TakeOver(x, Head(inbox[x]).val)
    /\ inited' = [inited EXCEPT ![x] = TRUE]
    /\ UNCHANGED <<stored, opened, sent, acks, sets>>

\* The read of useStorage ends: the components render the cache if there is
\* one, or else what was read.
ReceiveSuspend(x) ==
    /\ Take(x, "suspend")
    /\ shown' = [shown EXCEPT ![x] = IF cache[x] # Null THEN cache[x] ELSE Head(inbox[x]).val]
    /\ UNCHANGED <<stored, opened, cache, inited, sent, acks, failed, sets>>

\* The read of a set ends: its value goes to the cache and through the updater.
ReceiveRead(x) ==
    /\ Take(x, "read")
    /\ Store(x, Apply[Head(inbox[x]).upd][Head(inbox[x]).val])
    /\ UNCHANGED <<stored, opened, inited, shown, acks, failed, sets>>

\* _updateFromStorageOnChanged: a value the cache has already is dropped, and
\* nothing is emitted for it.
ReceiveEvent(x) ==
    /\ Take(x, "event")
    /\ IF cache[x] = Head(inbox[x]).val
       THEN UNCHANGED <<cache, shown, failed>>
       ELSE TakeOver(x, Head(inbox[x]).val)
    /\ UNCHANGED <<stored, opened, inited, sent, acks, sets>>

\* The write of a set ends, and its page emits.
ReceiveAck(x) ==
    /\ acks[x] > 0
    /\ acks' = [acks EXCEPT ![x] = @ - 1]
    /\ Emit(x, cache[x])
    /\ UNCHANGED <<stored, opened, cache, inited, sent, inbox, failed, sets>>

-----------------------------------------------------------------------------
(* The storage area                                                        *)

\* Fault: the default of the option.
LiveUpdateDefault == FALSE

\* liveUpdate, which both storages in use set.
LiveUpdate == TRUE

\* The inboxes after m was sent to the pages of S that are open.
Deliver(S, m) == [x \in Page |-> IF x \in S \cap opened THEN Append(inbox[x], m) ELSE inbox[x]]

AnswerRead(x) ==
    /\ sent[x] # <<>>
    /\ Head(sent[x]).type # "write"
    /\ inbox' = Deliver({x}, [Head(sent[x]) EXCEPT !.val = Current])
    /\ sent' = [sent EXCEPT ![x] = Tail(@)]
    /\ UNCHANGED <<stored, opened, cache, inited, shown, acks, failed, sets>>

\* A write that changes the value is told to every open page that listens, its
\* own page included.
ApplyWrite(x) ==
    LET v == Head(sent[x]).val IN
    /\ sent[x] # <<>>
    /\ Head(sent[x]).type = "write"
    /\ sent' = [sent EXCEPT ![x] = Tail(@)]
    /\ stored' = v
    /\ inbox' = IF LiveUpdate /\ stored # v THEN Deliver(Page, Event(v)) ELSE inbox
    /\ acks' = IF x \in opened THEN [acks EXCEPT ![x] = @ + 1] ELSE acks
    /\ UNCHANGED <<opened, cache, inited, shown, failed, sets>>

\* A write is rejected, by a quota or the disk: the set rejects, its cache stays.
FailWrite(x) ==
    /\ sent[x] # <<>>
    /\ Head(sent[x]).type = "write"
    /\ sent' = [sent EXCEPT ![x] = Tail(@)]
    /\ failed' = IF x \in opened THEN [failed EXCEPT ![x] = TRUE] ELSE failed
    /\ UNCHANGED <<stored, opened, cache, inited, shown, inbox, acks, sets>>

-----------------------------------------------------------------------------
AreaStep(x) == AnswerRead(x) \/ ApplyWrite(x) \/ FailWrite(x)

Receive(x) ==
    ReceiveInit(x) \/ ReceiveSuspend(x) \/ ReceiveRead(x) \/ ReceiveEvent(x) \/ ReceiveAck(x)

StorageNext ==
    \/ \E x \in Page : OpenPage(x) \/ ClosePage(x) \/ AreaStep(x) \/ Receive(x)
    \/ \E x \in Page, u \in Updater : SetValue(x, u)

StorageSpec == StorageInit /\ [][StorageNext]_storageVars

-----------------------------------------------------------------------------
(* What must hold                                                          *)

\* Type invariant.
StorageTypeOK ==
    /\ stored \in Value \cup {Null}
    /\ opened \subseteq Page
    /\ cache \in [Page -> Value \cup {Null}]
    /\ inited \in [Page -> BOOLEAN]
    /\ shown \in [Page -> Value \cup {Null}]
    /\ sent \in [Page -> Seq(Message)]
    /\ inbox \in [Page -> Seq(Message)]
    /\ acks \in [Page -> Nat]
    /\ failed \in [Page -> BOOLEAN]
    /\ sets \in Nat

\* Nothing that could change what the page x holds is under way.
Quiet(x) == sent[x] = <<>> /\ inbox[x] = <<>> /\ acks[x] = 0

\* "Keeps state live in sync between all instances of the extension": however
\* the clicks of the pages, their writes and the events overtake each other, a
\* page that has heard everything holds and shows the value that is stored,
\* unless a write of its own has failed.
PagesInSync ==
    \A x \in opened :
        Quiet(x) /\ ~failed[x] => cache[x] = Current /\ shown[x] = Current

\* The queue q has a message of these types, and the last of them has this value.
Has(q, types) == \E i \in 1..Len(q) : q[i].type \in types
LastIs(q, types, v) ==
    \E i \in 1..Len(q) :
        /\ q[i].type \in types /\ q[i].val = v
        /\ \A j \in (i + 1)..Len(q) : q[j].type \notin types

\* What an inbox brings to the cache.
News == {"init", "read", "event"}

\* The messages of a queue are well formed, and the initial read of a page is the
\* first of its calls.
SentOK(q) ==
    \A i \in 1..Len(q) :
        /\ q[i].type # "event"
        /\ q[i].type = "init" => i = 1
        /\ q[i].type = "write" => q[i].val \in Value
        /\ q[i].type = "read" => q[i].upd \in Updater

InboxOK(q) ==
    \A i \in 1..Len(q) :
        /\ q[i].type # "write"
        /\ q[i].val \in Value
        /\ q[i].type = "read" => q[i].upd \in Updater

\* The initial read is in the inbox q, and no read of useStorage is before it.
InitComes(q) ==
    \E i \in 1..Len(q) : q[i].type = "init" /\ \A j \in 1..i : q[j].type # "suspend"

\* The reads an open page starts with are under way until they have ended, in
\* their order.
StartOK(x) ==
    /\ ~inited[x] => \/ Has(sent[x], {"init"}) /\ ~Has(inbox[x], {"suspend"})
                     \/ InitComes(inbox[x])
    /\ inited[x] => cache[x] # Null
    /\ shown[x] = Null => Has(sent[x], {"suspend"}) \/ Has(inbox[x], {"suspend"})
    /\ shown[x] # Null => cache[x] # Null

\* The last news of an open page is the value that is stored; without news, its
\* cache is, or the page is about to store it; and what it shows is its cache, or
\* will be when its writes have ended.
FreshOK(x) ==
    /\ Has(inbox[x], News) => LastIs(inbox[x], News, Current)
    /\ ~Has(inbox[x], News) => \/ cache[x] = Current
                               \/ LastIs(sent[x], {"write"}, cache[x])
                               \/ failed[x]
                               \/ Has(sent[x], {"init"})
    /\ shown[x] = Null \/ shown[x] = cache[x] \/ Has(sent[x], {"write"}) \/ acks[x] > 0 \/ failed[x]

\* The inductive invariant of the storage.
PageOK(x) ==
    /\ SentOK(sent[x]) /\ InboxOK(inbox[x])
    /\ IF x \in opened
       THEN StartOK(x) /\ FreshOK(x)
       ELSE /\ ~inited[x] /\ cache[x] = Null /\ shown[x] = Null
            /\ inbox[x] = <<>> /\ acks[x] = 0 /\ ~failed[x]

StorageIInv == StorageTypeOK /\ \A x \in Page : PageOK(x)
=============================================================================
