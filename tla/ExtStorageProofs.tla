--------------------------- MODULE ExtStorageProofs ---------------------------
(***************************************************************************)
(* Proofs about ExtStorage, for every number of pages, values, updaters    *)
(* and calls of set.                                                       *)
(***************************************************************************)
EXTENDS ExtStorage, TLAPS

-----------------------------------------------------------------------------
(* Queues                                                                  *)

LEMMA AppendFacts ==
    ASSUME NEW q \in Seq(Message), NEW m \in Message, NEW types
    PROVE  /\ Append(q, m) \in Seq(Message)
           /\ Has(Append(q, m), types) <=> Has(q, types) \/ m.type \in types
           /\ m.type \in types => LastIs(Append(q, m), types, m.val)
           /\ \A v : m.type \notin types /\ LastIs(q, types, v) => LastIs(Append(q, m), types, v)
<1> DEFINE p == Append(q, m)
<1>1. /\ p \in Seq(Message) /\ Len(p) = Len(q) + 1 /\ Len(q) \in Nat
      /\ p[Len(p)] = m /\ \A i \in 1..Len(q) : p[i] = q[i]
  OBVIOUS
<1> HIDE DEF p
<1>2. Has(p, types) => Has(q, types) \/ m.type \in types
  BY <1>1 DEF Has
<1>3. Has(q, types) \/ m.type \in types => Has(p, types)
  BY <1>1 DEF Has
<1>4. m.type \in types => LastIs(p, types, m.val)
  BY <1>1 DEF LastIs
<1>5. \A v : m.type \notin types /\ LastIs(q, types, v) => LastIs(p, types, v)
  BY <1>1 DEF LastIs
<1>6. QED
  BY <1>1, <1>2, <1>3, <1>4, <1>5 DEF p

LEMMA TailFacts ==
    ASSUME NEW q \in Seq(Message), q # <<>>, NEW types
    PROVE  /\ Tail(q) \in Seq(Message) /\ Head(q) = q[1] /\ Head(q) \in Message
           /\ Has(q, types) <=> Has(Tail(q), types) \/ Head(q).type \in types
           /\ \A v : LastIs(q, types, v) =>
                \/ LastIs(Tail(q), types, v)
                \/ Head(q).type \in types /\ Head(q).val = v /\ ~Has(Tail(q), types)
           /\ \A v : LastIs(q, types, v) /\ ~Has(Tail(q), types) => Head(q).val = v
<1> DEFINE p == Tail(q)
<1>1. /\ p \in Seq(Message) /\ Len(q) = Len(p) + 1 /\ Len(p) \in Nat /\ Head(q) = q[1]
      /\ \A i \in 1..Len(p) : p[i] = q[i + 1]
  OBVIOUS
<1>2. q[1] \in Message
  BY <1>1
<1> HIDE DEF p
<1>3. Has(q, types) => Has(p, types) \/ Head(q).type \in types
  <2> SUFFICES ASSUME NEW i \in 1..Len(q), q[i].type \in types, i # 1 PROVE Has(p, types)
    BY <1>1 DEF Has
  <2>1. i - 1 \in 1..Len(p) /\ p[i - 1] = q[i]
    BY <1>1
  <2>2. QED
    BY <2>1 DEF Has
<1>4. Has(p, types) \/ Head(q).type \in types => Has(q, types)
  BY <1>1 DEF Has
<1>5. ASSUME NEW v, LastIs(q, types, v)
      PROVE  \/ LastIs(p, types, v)
             \/ Head(q).type \in types /\ Head(q).val = v /\ ~Has(p, types)
  <2>1. PICK i \in 1..Len(q) : /\ q[i].type \in types /\ q[i].val = v
                               /\ \A j \in (i + 1)..Len(q) : q[j].type \notin types
    BY <1>5 DEF LastIs
  <2>2. CASE i = 1
    BY <2>1, <2>2, <1>1 DEF Has
  <2>3. CASE i # 1
    <3>1. i - 1 \in 1..Len(p) /\ p[i - 1] = q[i]
      BY <1>1, <2>3
    <3>2. \A j \in ((i - 1) + 1)..Len(p) : p[j].type \notin types
      BY <1>1, <2>1
    <3>3. QED
      BY <2>1, <3>1, <3>2 DEF LastIs
  <2>4. QED
    BY <2>2, <2>3
<1>6. \A v : LastIs(p, types, v) => Has(p, types)
  BY DEF LastIs, Has
<1>7. QED
  BY <1>1, <1>2, <1>3, <1>4, <1>5, <1>6 DEF p

\* What a message is made of.
LEMMA MessageFacts ==
    ASSUME NEW m \in Message
    PROVE  /\ m.type \in {"init", "suspend", "read", "write", "event"}
           /\ m.upd \in Updater \cup {NoUpdater} /\ m.val \in Value \cup {Null}
           /\ \A v \in Value : /\ [m EXCEPT !.val = v] \in Message
                               /\ [m EXCEPT !.val = v].type = m.type
                               /\ [m EXCEPT !.val = v].upd = m.upd
                               /\ [m EXCEPT !.val = v].val = v
  BY DEF Message

LEMMA MadeMessages ==
    /\ \A v \in Value : /\ Write(v) \in Message /\ Write(v).type = "write" /\ Write(v).val = v
                        /\ Event(v) \in Message /\ Event(v).type = "event" /\ Event(v).val = v
    /\ \A u \in Updater \cup {NoUpdater}, why \in {"init", "suspend", "read"} :
         Read(why, u) \in Message /\ Read(why, u).type = why /\ Read(why, u).upd = u
  BY DEF Write, Event, Read, Message

LEMMA CurrentIsValue == StorageTypeOK => Current \in Value
  BY ExtStorageAssumption DEF StorageTypeOK, Current
-----------------------------------------------------------------------------
(* The queues of a page                                                    *)

LEMMA SentAppend ==
    ASSUME NEW q \in Seq(Message), SentOK(q), NEW m \in Message,
           m.type \in {"suspend", "read", "write"},
           m.type = "write" => m.val \in Value, m.type = "read" => m.upd \in Updater
    PROVE  SentOK(Append(q, m))
<1> DEFINE p == Append(q, m)
<1>1. /\ Len(p) = Len(q) + 1 /\ Len(q) \in Nat
      /\ p[Len(p)] = m /\ \A i \in 1..Len(q) : p[i] = q[i]
  OBVIOUS
<1> HIDE DEF p
<1>2. SentOK(p)
  BY <1>1 DEF SentOK
<1>3. QED
  BY <1>2 DEF p

LEMMA SentTail ==
    ASSUME NEW q \in Seq(Message), SentOK(q), q # <<>>
    PROVE  /\ SentOK(Tail(q)) /\ ~Has(Tail(q), {"init"})
           /\ Head(q).type # "event"
           /\ Head(q).type = "write" => Head(q).val \in Value
           /\ Head(q).type = "read" => Head(q).upd \in Updater
<1> DEFINE p == Tail(q)
<1>1. /\ Len(q) = Len(p) + 1 /\ Len(p) \in Nat /\ Head(q) = q[1]
      /\ \A i \in 1..Len(p) : p[i] = q[i + 1]
  OBVIOUS
<1> HIDE DEF p
<1>2. SentOK(p) /\ ~Has(p, {"init"})
  <2>1. \A i \in 1..Len(p) : i + 1 \in 1..Len(q) /\ i + 1 # 1
    BY <1>1
  <2>2. QED
    BY <1>1, <2>1 DEF SentOK, Has
<1>3. 1 \in 1..Len(q)
  BY <1>1
<1>4. QED
  BY <1>1, <1>2, <1>3 DEF SentOK, p

LEMMA InboxAppend ==
    ASSUME NEW q \in Seq(Message), InboxOK(q), NEW m \in Message,
           m.type # "write", m.val \in Value, m.type = "read" => m.upd \in Updater
    PROVE  /\ InboxOK(Append(q, m))
           /\ InitComes(q) => InitComes(Append(q, m))
           /\ m.type = "init" /\ ~Has(q, {"suspend"}) => InitComes(Append(q, m))
<1> DEFINE p == Append(q, m)
<1>1. /\ Len(p) = Len(q) + 1 /\ Len(q) \in Nat
      /\ p[Len(p)] = m /\ \A i \in 1..Len(q) : p[i] = q[i]
  OBVIOUS
<1> HIDE DEF p
<1>2. InboxOK(p)
  BY <1>1 DEF InboxOK
<1>3. InitComes(q) => InitComes(p)
  BY <1>1 DEF InitComes
<1>4. ASSUME m.type = "init", ~Has(q, {"suspend"}) PROVE InitComes(p)
  <2>1. Len(p) \in 1..Len(p) /\ \A j \in 1..Len(p) : p[j].type # "suspend"
    BY <1>1, <1>4 DEF Has
  <2>2. QED
    BY <1>1, <1>4, <2>1 DEF InitComes
<1>5. QED
  BY <1>2, <1>3, <1>4 DEF p

LEMMA InboxTail ==
    ASSUME NEW q \in Seq(Message), InboxOK(q), q # <<>>
    PROVE  /\ InboxOK(Tail(q))
           /\ Head(q).type # "write" /\ Head(q).val \in Value
           /\ Head(q).type = "read" => Head(q).upd \in Updater
           /\ InitComes(q) => Head(q).type # "suspend"
           /\ InitComes(q) /\ Head(q).type # "init" => InitComes(Tail(q))
<1> DEFINE p == Tail(q)
<1>1. /\ Len(q) = Len(p) + 1 /\ Len(p) \in Nat /\ Head(q) = q[1]
      /\ \A i \in 1..Len(p) : p[i] = q[i + 1]
  OBVIOUS
<1> HIDE DEF p
<1>2. InboxOK(p)
  BY <1>1 DEF InboxOK
<1>3. 1 \in 1..Len(q)
  BY <1>1
<1>4. ASSUME InitComes(q)
      PROVE  q[1].type # "suspend" /\ (q[1].type # "init" => InitComes(p))
  <2>1. PICK i \in 1..Len(q) : q[i].type = "init" /\ \A j \in 1..i : q[j].type # "suspend"
    BY <1>4 DEF InitComes
  <2>2. 1 \in 1..i
    BY <1>1
  <2>3. ASSUME q[1].type # "init" PROVE InitComes(p)
    <3>1. i - 1 \in 1..Len(p) /\ p[i - 1] = q[i]
      BY <1>1, <2>1, <2>3
    <3>2. \A j \in 1..(i - 1) : p[j].type # "suspend"
      BY <1>1, <2>1
    <3>3. QED
      BY <2>1, <3>1, <3>2 DEF InitComes
  <2>4. QED
    BY <2>1, <2>2, <2>3
<1>5. QED
  BY <1>1, <1>2, <1>3, <1>4 DEF InboxOK, p

-----------------------------------------------------------------------------
(* Steps                                                                   *)

LEMMA PageType ==
    ASSUME StorageTypeOK, NEW x \in Page
    PROVE  /\ sent[x] \in Seq(Message) /\ inbox[x] \in Seq(Message)
           /\ cache[x] \in Value \cup {Null} /\ shown[x] \in Value \cup {Null}
           /\ acks[x] \in Nat /\ inited[x] \in BOOLEAN /\ failed[x] \in BOOLEAN
  BY DEF StorageTypeOK

LEMMA ApplyType ==
    ASSUME NEW u \in Updater, NEW v \in Value
    PROVE  Apply[u][v] \in Value
  BY ExtStorageAssumption

\* A page that a step does not touch.
LEMMA Untouched ==
    ASSUME NEW y \in Page, PageOK(y), Current' = Current, y \in opened' <=> y \in opened,
           cache'[y] = cache[y], inited'[y] = inited[y], shown'[y] = shown[y],
           sent'[y] = sent[y], inbox'[y] = inbox[y], acks'[y] = acks[y], failed'[y] = failed[y]
    PROVE  PageOK(y)'
  BY DEF PageOK, StartOK, FreshOK

LEMMA OpenPageKeeps ==
    ASSUME StorageIInv, NEW x \in Page, OpenPage(x)
    PROVE  StorageIInv'
<1> DEFINE q == <<Read("init", NoUpdater), Read("suspend", NoUpdater)>>
<1>1. /\ q \in Seq(Message) /\ Len(q) = 2
      /\ q[1].type = "init" /\ q[2].type = "suspend"
  BY MadeMessages
<1> HIDE DEF q
<1>2. /\ x \notin opened /\ opened' = opened \cup {x} /\ sent' = [sent EXCEPT ![x] = q]
      /\ UNCHANGED <<stored, cache, inited, shown, inbox, acks, failed, sets>>
  BY DEF OpenPage, q
<1>3. StorageTypeOK'
  BY <1>1, <1>2 DEF StorageIInv, StorageTypeOK
<1>4. ASSUME NEW y \in Page, y # x PROVE PageOK(y)'
  BY <1>2, <1>4, Untouched DEF StorageIInv, StorageTypeOK, Current
<1>5. sent'[x] = q /\ x \in opened'
  BY <1>2 DEF StorageIInv, StorageTypeOK
<1>6. /\ inited'[x] = FALSE /\ cache'[x] = Null /\ shown'[x] = Null /\ inbox'[x] = <<>>
  BY <1>2, PageType DEF StorageIInv, PageOK
<1>7. SentOK(q) /\ Has(q, {"init"}) /\ Has(q, {"suspend"})
  BY <1>1 DEF SentOK, Has
<1>8. InboxOK(<<>>) /\ ~Has(<<>>, {"suspend"}) /\ ~Has(<<>>, News)
  BY DEF InboxOK, Has
<1>9. StartOK(x)'
  BY <1>5, <1>6, <1>7, <1>8 DEF StartOK
<1>10. FreshOK(x)'
  BY <1>5, <1>6, <1>7, <1>8 DEF FreshOK
<1>11. PageOK(x)'
  BY <1>5, <1>6, <1>7, <1>8, <1>9, <1>10 DEF PageOK
<1>12. QED
  BY <1>3, <1>4, <1>11 DEF StorageIInv

LEMMA ClosePageKeeps ==
    ASSUME StorageIInv, NEW x \in Page, ClosePage(x)
    PROVE  StorageIInv'
<1>1. StorageTypeOK'
  BY DEF StorageIInv, StorageTypeOK, ClosePage
<1>2. ASSUME NEW y \in Page, y # x PROVE PageOK(y)'
  BY <1>2, Untouched DEF StorageIInv, StorageTypeOK, Current, ClosePage
<1>3. InboxOK(<<>>)
  BY DEF InboxOK
<1>4. PageOK(x)'
  BY <1>3 DEF StorageIInv, StorageTypeOK, ClosePage, PageOK
<1>5. QED
  BY <1>1, <1>2, <1>4 DEF StorageIInv

LEMMA SetValueKeeps ==
    ASSUME StorageIInv, NEW x \in Page, NEW u \in Updater, SetValue(x, u)
    PROVE  StorageIInv'
<1>1. /\ x \in opened /\ sets' \in Nat
      /\ UNCHANGED <<stored, opened, inited, shown, inbox, acks, failed>>
  BY DEF SetValue, StorageIInv, StorageTypeOK
<1>2. /\ StorageTypeOK /\ SentOK(sent[x]) /\ InboxOK(inbox[x]) /\ StartOK(x) /\ FreshOK(x)
  BY <1>1 DEF StorageIInv, PageOK
<1>3. Current' = Current
  BY <1>1 DEF Current
<1>4. CASE inited[x] /\ Store(x, Apply[u][cache[x]])
  <2> DEFINE v == Apply[u][cache[x]]
  <2>1. cache[x] \in Value
    BY <1>2, <1>4, PageType DEF StartOK
  <2>2. v \in Value /\ v # Null
    BY <2>1, ApplyType, ExtStorageAssumption
  <2> HIDE DEF v
  <2>3. Write(v) \in Message /\ Write(v).type = "write" /\ Write(v).val = v
    BY <2>2, MadeMessages
  <2>4. /\ cache' = [cache EXCEPT ![x] = v]
        /\ sent' = [sent EXCEPT ![x] = Append(sent[x], Write(v))]
    BY <1>4 DEF Store, v
  <2>5. sent[x] \in Seq(Message)
    BY <1>2, PageType
  <2>6. Append(sent[x], Write(v)) \in Seq(Message)
    BY <2>3, <2>5
  <2>7. StorageTypeOK'
    BY <1>1, <1>2, <2>2, <2>4, <2>6 DEF StorageTypeOK
  <2>8. cache'[x] = v /\ sent'[x] = Append(sent[x], Write(v))
    BY <2>4, <1>2 DEF StorageTypeOK
  <2>9. ASSUME NEW y \in Page, y # x PROVE PageOK(y)'
    BY <1>1, <1>3, <2>4, <2>9, Untouched DEF StorageIInv, StorageTypeOK
  <2>10. SentOK(sent'[x])
    BY <1>2, <2>2, <2>3, <2>5, <2>8, SentAppend
  <2>11. /\ Has(sent[x], {"suspend"}) => Has(sent'[x], {"suspend"})
         /\ Has(sent'[x], {"write"}) /\ LastIs(sent'[x], {"write"}, v)
    BY <2>3, <2>5, <2>8, AppendFacts
  <2>12. StartOK(x)'
    BY <1>1, <1>2, <1>4, <2>2, <2>8, <2>11 DEF StartOK
  <2>13. FreshOK(x)'
    BY <1>1, <1>2, <1>3, <2>8, <2>11 DEF FreshOK
  <2>14. PageOK(x)'
    BY <1>1, <1>2, <2>10, <2>12, <2>13 DEF PageOK
  <2>15. QED
    BY <2>7, <2>9, <2>14 DEF StorageIInv
<1>5. CASE ~inited[x] /\ sent' = [sent EXCEPT ![x] = Append(@, Read("read", u))] /\ cache' = cache
  <2> DEFINE m == Read("read", u)
  <2>1. m \in Message /\ m.type = "read" /\ m.upd = u
    BY MadeMessages
  <2>2. sent' = [sent EXCEPT ![x] = Append(sent[x], m)] /\ cache' = cache
    BY <1>5
  <2> HIDE DEF m
  <2>3. sent[x] \in Seq(Message)
    BY <1>2, PageType
  <2>4. Append(sent[x], m) \in Seq(Message)
    BY <2>1, <2>3
  <2>5. StorageTypeOK'
    BY <1>1, <1>2, <2>2, <2>4 DEF StorageTypeOK
  <2>6. sent'[x] = Append(sent[x], m)
    BY <2>2, <1>2 DEF StorageTypeOK
  <2>7. ASSUME NEW y \in Page, y # x PROVE PageOK(y)'
    BY <1>1, <1>3, <2>2, <2>7, Untouched DEF StorageIInv, StorageTypeOK
  <2>8. SentOK(sent'[x])
    BY <1>2, <2>1, <2>3, <2>6, SentAppend
  <2>9. /\ Has(sent[x], {"suspend"}) => Has(sent'[x], {"suspend"})
        /\ Has(sent[x], {"init"}) => Has(sent'[x], {"init"})
        /\ Has(sent[x], {"write"}) => Has(sent'[x], {"write"})
        /\ \A v : LastIs(sent[x], {"write"}, v) => LastIs(sent'[x], {"write"}, v)
    BY <2>1, <2>3, <2>6, AppendFacts
  <2>10. StartOK(x)'
    BY <1>1, <1>2, <2>2, <2>9 DEF StartOK
  <2>11. FreshOK(x)'
    BY <1>1, <1>2, <1>3, <2>2, <2>9 DEF FreshOK
  <2>12. PageOK(x)'
    BY <1>1, <1>2, <2>8, <2>10, <2>11 DEF PageOK
  <2>13. QED
    BY <2>5, <2>7, <2>12 DEF StorageIInv
<1>6. QED
  BY <1>4, <1>5 DEF SetValue

\* What is left when the head of an inbox was taken.
LEMMA TakeFacts ==
    ASSUME StorageTypeOK, NEW x \in Page, PageOK(x), NEW type, Take(x, type)
    PROVE  /\ x \in opened /\ SentOK(sent[x]) /\ StartOK(x) /\ FreshOK(x)
           /\ inbox' = [inbox EXCEPT ![x] = Tail(inbox[x])]
           /\ inbox'[x] \in Seq(Message) /\ InboxOK(inbox'[x])
           /\ Head(inbox[x]).val \in Value
           /\ type = "read" => Head(inbox[x]).upd \in Updater
           /\ InitComes(inbox[x]) => type # "suspend" /\ (type # "init" => InitComes(inbox'[x]))
           /\ Has(inbox'[x], {"suspend"}) => Has(inbox[x], {"suspend"})
           /\ Has(inbox[x], {"suspend"}) => type = "suspend" \/ Has(inbox'[x], {"suspend"})
           /\ type = "suspend" => Has(inbox[x], {"suspend"})
           /\ Has(inbox'[x], News) => LastIs(inbox'[x], News, Current)
           /\ type \in News /\ ~Has(inbox'[x], News) => Head(inbox[x]).val = Current
           /\ type = "suspend" /\ ~Has(inbox'[x], News) => ~Has(inbox[x], News)
<1> DEFINE q == inbox[x]
<1>1. /\ q \in Seq(Message) /\ q # <<>> /\ Head(q).type = type
      /\ inbox' = [inbox EXCEPT ![x] = Tail(q)] /\ inbox'[x] = Tail(q)
  BY DEF Take, StorageTypeOK
<1>2. x \in opened /\ SentOK(sent[x]) /\ StartOK(x) /\ FreshOK(x) /\ InboxOK(q)
  BY <1>1 DEF PageOK
<1>3. /\ Has(q, News) => LastIs(q, News, Current)
  BY <1>2 DEF FreshOK
<1> HIDE DEF q
<1>4. /\ InboxOK(Tail(q)) /\ Head(q).val \in Value
      /\ Head(q).type = "read" => Head(q).upd \in Updater
      /\ InitComes(q) => Head(q).type # "suspend"
      /\ InitComes(q) /\ Head(q).type # "init" => InitComes(Tail(q))
  BY <1>1, <1>2, InboxTail
<1>5. /\ Tail(q) \in Seq(Message)
      /\ Has(q, {"suspend"}) <=> Has(Tail(q), {"suspend"}) \/ Head(q).type \in {"suspend"}
  BY <1>1, TailFacts
<1>6. /\ Has(q, News) <=> Has(Tail(q), News) \/ Head(q).type \in News
      /\ LastIs(q, News, Current) =>
           \/ LastIs(Tail(q), News, Current)
           \/ Head(q).type \in News /\ Head(q).val = Current /\ ~Has(Tail(q), News)
      /\ LastIs(q, News, Current) /\ ~Has(Tail(q), News) => Head(q).val = Current
  BY <1>1, TailFacts
<1>7. "suspend" \notin News
  BY DEF News
<1>8. QED
  BY <1>1, <1>2, <1>3, <1>4, <1>5, <1>6, <1>7 DEF q

\* A receiving page disturbs no other.
LEMMA ReceiveOthers ==
    ASSUME StorageIInv, NEW x \in Page, NEW y \in Page, y # x,
           UNCHANGED <<stored, opened>>, NEW q, inbox' = [inbox EXCEPT ![x] = q],
           NEW c, cache' = [cache EXCEPT ![x] = c], NEW i, inited' = [inited EXCEPT ![x] = i],
           NEW s, shown' = [shown EXCEPT ![x] = s], NEW p, sent' = [sent EXCEPT ![x] = p],
           NEW f, failed' = [failed EXCEPT ![x] = f], acks'[y] = acks[y]
    PROVE  PageOK(y)'
<1>1. PageOK(y) /\ Current' = Current /\ opened' = opened
  BY DEF StorageIInv, Current
<1>2. /\ cache'[y] = cache[y] /\ inited'[y] = inited[y] /\ shown'[y] = shown[y]
      /\ sent'[y] = sent[y] /\ inbox'[y] = inbox[y] /\ acks'[y] = acks[y] /\ failed'[y] = failed[y]
  BY DEF StorageIInv, StorageTypeOK
<1>3. QED
  BY <1>1, <1>2, Untouched

LEMMA ReceiveInitKeeps ==
    ASSUME StorageIInv, NEW x \in Page, ReceiveInit(x)
    PROVE  StorageIInv'
<1> DEFINE v == Head(inbox[x]).val
           s == IF shown[x] = Null THEN Null ELSE v
<1>1. StorageTypeOK /\ PageOK(x) /\ Take(x, "init")
  BY DEF StorageIInv, ReceiveInit
<1>2. /\ x \in opened /\ v \in Value /\ StartOK(x) /\ FreshOK(x) /\ SentOK(sent[x])
      /\ inbox' = [inbox EXCEPT ![x] = Tail(inbox[x])]
      /\ inbox'[x] \in Seq(Message) /\ InboxOK(inbox'[x])
      /\ Has(inbox[x], {"suspend"}) => Has(inbox'[x], {"suspend"})
      /\ Has(inbox'[x], News) => LastIs(inbox'[x], News, Current)
      /\ ~Has(inbox'[x], News) => v = Current
  BY <1>1, TakeFacts DEF News
<1>3. /\ cache' = [cache EXCEPT ![x] = v] /\ inited' = [inited EXCEPT ![x] = TRUE]
      /\ shown' = [shown EXCEPT ![x] = s] /\ failed' = [failed EXCEPT ![x] = FALSE]
      /\ UNCHANGED <<stored, opened, sent, acks, sets>>
  BY DEF ReceiveInit, TakeOver, Emit
<1>4. s \in Value \cup {Null} /\ v # Null /\ (s = Null <=> shown[x] = Null) /\ (s = Null \/ s = v)
  BY <1>2, ExtStorageAssumption
<1> HIDE DEF v, s
<1>5. inbox' \in [Page -> Seq(Message)]
  BY <1>1, <1>2 DEF StorageTypeOK
<1>6. StorageTypeOK'
  BY <1>1, <1>2, <1>3, <1>4, <1>5 DEF StorageTypeOK
<1>7. ASSUME NEW y \in Page, y # x PROVE PageOK(y)'
  <2>1. sent' = [sent EXCEPT ![x] = sent[x]] /\ acks'[y] = acks[y]
    BY <1>1, <1>3 DEF StorageTypeOK
  <2>2. QED
    BY <1>2, <1>3, <1>7, <2>1, ReceiveOthers
<1>8. /\ cache'[x] = v /\ inited'[x] = TRUE /\ shown'[x] = s /\ sent'[x] = sent[x]
      /\ Current' = Current
  BY <1>1, <1>3 DEF StorageTypeOK, Current
<1>9. StartOK(x)'
  BY <1>2, <1>4, <1>8 DEF StartOK
<1>10. FreshOK(x)'
  BY <1>2, <1>4, <1>8 DEF FreshOK
<1>11. PageOK(x)'
  BY <1>2, <1>3, <1>8, <1>9, <1>10 DEF PageOK
<1>12. QED
  BY <1>6, <1>7, <1>11 DEF StorageIInv

LEMMA ReceiveSuspendKeeps ==
    ASSUME StorageIInv, NEW x \in Page, ReceiveSuspend(x)
    PROVE  StorageIInv'
<1> DEFINE s == IF cache[x] # Null THEN cache[x] ELSE Head(inbox[x]).val
<1>1. StorageTypeOK /\ PageOK(x) /\ Take(x, "suspend")
  BY DEF StorageIInv, ReceiveSuspend
<1>2. /\ x \in opened /\ StartOK(x) /\ FreshOK(x) /\ SentOK(sent[x])
      /\ inbox' = [inbox EXCEPT ![x] = Tail(inbox[x])]
      /\ inbox'[x] \in Seq(Message) /\ InboxOK(inbox'[x])
      /\ ~InitComes(inbox[x]) /\ Has(inbox[x], {"suspend"})
      /\ Has(inbox'[x], News) => LastIs(inbox'[x], News, Current)
      /\ ~Has(inbox'[x], News) => ~Has(inbox[x], News)
  BY <1>1, TakeFacts
<1>3. inited[x] /\ cache[x] # Null /\ s = cache[x]
  BY <1>2 DEF StartOK
<1>4. /\ shown' = [shown EXCEPT ![x] = s]
      /\ UNCHANGED <<stored, opened, cache, inited, sent, acks, failed, sets>>
  BY DEF ReceiveSuspend
<1> HIDE DEF s
<1>5. inbox' \in [Page -> Seq(Message)] /\ s \in Value \cup {Null}
  BY <1>1, <1>2, <1>3 DEF StorageTypeOK
<1>6. StorageTypeOK'
  BY <1>1, <1>4, <1>5 DEF StorageTypeOK
<1>7. ASSUME NEW y \in Page, y # x PROVE PageOK(y)'
  <2>1. /\ sent' = [sent EXCEPT ![x] = sent[x]] /\ cache' = [cache EXCEPT ![x] = cache[x]]
        /\ inited' = [inited EXCEPT ![x] = inited[x]] /\ failed' = [failed EXCEPT ![x] = failed[x]]
        /\ acks'[y] = acks[y]
    BY <1>1, <1>4 DEF StorageTypeOK
  <2>2. QED
    BY <1>2, <1>4, <1>7, <2>1, ReceiveOthers
<1>8. shown'[x] = s /\ Current' = Current
  BY <1>1, <1>4 DEF StorageTypeOK, Current
<1>9. StartOK(x)'
  BY <1>2, <1>3, <1>4, <1>8 DEF StartOK
<1>10. FreshOK(x)'
  BY <1>2, <1>3, <1>4, <1>8 DEF FreshOK
<1>11. PageOK(x)'
  BY <1>2, <1>4, <1>9, <1>10 DEF PageOK
<1>12. QED
  BY <1>6, <1>7, <1>11 DEF StorageIInv

LEMMA ReceiveReadKeeps ==
    ASSUME StorageIInv, NEW x \in Page, ReceiveRead(x)
    PROVE  StorageIInv'
<1> DEFINE v == Apply[Head(inbox[x]).upd][Head(inbox[x]).val]
<1>1. StorageTypeOK /\ PageOK(x) /\ Take(x, "read")
  BY DEF StorageIInv, ReceiveRead
<1>2. /\ x \in opened /\ StartOK(x) /\ FreshOK(x) /\ SentOK(sent[x])
      /\ inbox' = [inbox EXCEPT ![x] = Tail(inbox[x])]
      /\ inbox'[x] \in Seq(Message) /\ InboxOK(inbox'[x])
      /\ Head(inbox[x]).val \in Value /\ Head(inbox[x]).upd \in Updater
      /\ InitComes(inbox[x]) => InitComes(inbox'[x])
      /\ Has(inbox[x], {"suspend"}) <=> Has(inbox'[x], {"suspend"})
      /\ Has(inbox'[x], News) => LastIs(inbox'[x], News, Current)
  BY <1>1, TakeFacts
<1>3. v \in Value /\ v # Null
  BY <1>2, ApplyType, ExtStorageAssumption
<1>4. /\ cache' = [cache EXCEPT ![x] = v] /\ sent' = [sent EXCEPT ![x] = Append(sent[x], Write(v))]
      /\ UNCHANGED <<stored, opened, inited, shown, acks, failed, sets>>
  BY DEF ReceiveRead, Store
<1> HIDE DEF v
<1>5. /\ Write(v) \in Message /\ Write(v).type = "write" /\ Write(v).val = v
      /\ sent[x] \in Seq(Message)
  BY <1>1, <1>3, MadeMessages, PageType
<1>6. Append(sent[x], Write(v)) \in Seq(Message)
  BY <1>5
<1>7. inbox' \in [Page -> Seq(Message)] /\ sent' \in [Page -> Seq(Message)]
  BY <1>1, <1>2, <1>4, <1>6 DEF StorageTypeOK
<1>8. StorageTypeOK'
  BY <1>1, <1>3, <1>4, <1>7 DEF StorageTypeOK
<1>9. ASSUME NEW y \in Page, y # x PROVE PageOK(y)'
  <2>1. /\ shown' = [shown EXCEPT ![x] = shown[x]] /\ failed' = [failed EXCEPT ![x] = failed[x]]
        /\ inited' = [inited EXCEPT ![x] = inited[x]] /\ acks'[y] = acks[y]
    BY <1>1, <1>4 DEF StorageTypeOK
  <2>2. QED
    BY <1>2, <1>4, <1>9, <2>1, ReceiveOthers
<1>10. cache'[x] = v /\ sent'[x] = Append(sent[x], Write(v)) /\ Current' = Current
  BY <1>1, <1>4 DEF StorageTypeOK, Current
<1>11. SentOK(sent'[x])
  BY <1>2, <1>3, <1>5, <1>10, SentAppend
<1>12. /\ Has(sent[x], {"suspend"}) => Has(sent'[x], {"suspend"})
       /\ Has(sent[x], {"init"}) => Has(sent'[x], {"init"})
       /\ Has(sent'[x], {"write"}) /\ LastIs(sent'[x], {"write"}, v)
  BY <1>5, <1>10, AppendFacts
<1>13. StartOK(x)'
  BY <1>2, <1>3, <1>4, <1>10, <1>12 DEF StartOK
<1>14. FreshOK(x)'
  BY <1>2, <1>4, <1>10, <1>12 DEF FreshOK
<1>15. PageOK(x)'
  BY <1>2, <1>4, <1>11, <1>13, <1>14 DEF PageOK
<1>16. QED
  BY <1>8, <1>9, <1>15 DEF StorageIInv

LEMMA ReceiveEventKeeps ==
    ASSUME StorageIInv, NEW x \in Page, ReceiveEvent(x)
    PROVE  StorageIInv'
<1> DEFINE v == Head(inbox[x]).val
           s == IF cache[x] = v \/ shown[x] = Null THEN shown[x] ELSE v
           f == IF cache[x] = v THEN failed[x] ELSE FALSE
<1>1. StorageTypeOK /\ PageOK(x) /\ Take(x, "event")
  BY DEF StorageIInv, ReceiveEvent
<1>2. /\ x \in opened /\ v \in Value /\ StartOK(x) /\ FreshOK(x) /\ SentOK(sent[x])
      /\ inbox' = [inbox EXCEPT ![x] = Tail(inbox[x])]
      /\ inbox'[x] \in Seq(Message) /\ InboxOK(inbox'[x])
      /\ InitComes(inbox[x]) => InitComes(inbox'[x])
      /\ Has(inbox[x], {"suspend"}) <=> Has(inbox'[x], {"suspend"})
      /\ Has(inbox'[x], News) => LastIs(inbox'[x], News, Current)
      /\ ~Has(inbox'[x], News) => v = Current
  BY <1>1, TakeFacts DEF News
<1>3. /\ cache' = [cache EXCEPT ![x] = v] /\ shown' = [shown EXCEPT ![x] = s]
      /\ failed' = [failed EXCEPT ![x] = f]
      /\ UNCHANGED <<stored, opened, inited, sent, acks, sets>>
  BY <1>1 DEF ReceiveEvent, TakeOver, Emit, StorageTypeOK
<1>4. /\ s \in Value \cup {Null} /\ f \in BOOLEAN /\ v # Null
      /\ s = Null <=> shown[x] = Null
      /\ s = v \/ s = Null \/ (cache[x] = v /\ s = shown[x] /\ f = failed[x])
  BY <1>1, <1>2, ExtStorageAssumption DEF StorageTypeOK
<1> HIDE DEF v, s, f
<1>5. inbox' \in [Page -> Seq(Message)]
  BY <1>1, <1>2 DEF StorageTypeOK
<1>6. StorageTypeOK'
  BY <1>1, <1>2, <1>3, <1>4, <1>5 DEF StorageTypeOK
<1>7. ASSUME NEW y \in Page, y # x PROVE PageOK(y)'
  <2>1. /\ sent' = [sent EXCEPT ![x] = sent[x]] /\ acks'[y] = acks[y]
        /\ inited' = [inited EXCEPT ![x] = inited[x]]
    BY <1>1, <1>3 DEF StorageTypeOK
  <2>2. QED
    BY <1>2, <1>3, <1>7, <2>1, ReceiveOthers
<1>8. /\ cache'[x] = v /\ shown'[x] = s /\ failed'[x] = f
      /\ Current' = Current
  BY <1>1, <1>3 DEF StorageTypeOK, Current
<1>9. StartOK(x)'
  BY <1>2, <1>3, <1>4, <1>8 DEF StartOK
<1>10. FreshOK(x)'
  BY <1>2, <1>3, <1>4, <1>8 DEF FreshOK
<1>11. PageOK(x)'
  BY <1>2, <1>3, <1>9, <1>10 DEF PageOK
<1>12. QED
  BY <1>6, <1>7, <1>11 DEF StorageIInv

LEMMA ReceiveAckKeeps ==
    ASSUME StorageIInv, NEW x \in Page, ReceiveAck(x)
    PROVE  StorageIInv'
<1> DEFINE s == IF shown[x] = Null THEN Null ELSE cache[x]
<1>1. StorageTypeOK /\ PageOK(x) /\ acks[x] \in Nat /\ acks[x] > 0
  BY DEF StorageIInv, StorageTypeOK, ReceiveAck
<1>2. x \in opened /\ StartOK(x) /\ FreshOK(x) /\ SentOK(sent[x]) /\ InboxOK(inbox[x])
  BY <1>1 DEF PageOK
<1>3. /\ acks' = [acks EXCEPT ![x] = acks[x] - 1] /\ shown' = [shown EXCEPT ![x] = s]
      /\ UNCHANGED <<stored, opened, cache, inited, sent, inbox, failed, sets>>
  BY DEF ReceiveAck, Emit
<1>4. /\ s \in Value \cup {Null} /\ (s = Null <=> shown[x] = Null) /\ (s = Null \/ s = cache[x])
      /\ acks[x] - 1 \in Nat
  BY <1>1, <1>2 DEF StorageTypeOK, StartOK
<1> HIDE DEF s
<1>5. StorageTypeOK'
  BY <1>1, <1>3, <1>4 DEF StorageTypeOK
<1>6. ASSUME NEW y \in Page, y # x PROVE PageOK(y)'
  BY <1>3, <1>6, Untouched DEF StorageIInv, StorageTypeOK, Current
<1>7. shown'[x] = s /\ Current' = Current
  BY <1>1, <1>3 DEF StorageTypeOK, Current
<1>8. StartOK(x)'
  BY <1>2, <1>3, <1>4, <1>7 DEF StartOK
<1>9. FreshOK(x)'
  BY <1>2, <1>3, <1>4, <1>7 DEF FreshOK
<1>10. PageOK(x)'
  BY <1>2, <1>3, <1>8, <1>9 DEF PageOK
<1>11. QED
  BY <1>5, <1>6, <1>10 DEF StorageIInv
\* What is left when the head of the calls of a page was carried out.
LEMMA DoneFacts ==
    ASSUME StorageTypeOK, NEW x \in Page, PageOK(x), sent[x] # <<>>,
           sent' = [sent EXCEPT ![x] = Tail(@)]
    PROVE  /\ Head(sent[x]) \in Message /\ Head(sent[x]).type # "event"
           /\ Head(sent[x]).type = "write" => Head(sent[x]).val \in Value
           /\ Head(sent[x]).type = "read" => Head(sent[x]).upd \in Updater
           /\ sent' \in [Page -> Seq(Message)] /\ sent'[x] = Tail(sent[x]) /\ SentOK(sent'[x])
           /\ Has(sent[x], {"init"}) => Head(sent[x]).type = "init"
           /\ Has(sent[x], {"suspend"}) => Head(sent[x]).type = "suspend" \/ Has(sent'[x], {"suspend"})
           /\ Has(sent[x], {"write"}) => Head(sent[x]).type = "write" \/ Has(sent'[x], {"write"})
           /\ \A v : LastIs(sent[x], {"write"}, v) =>
                \/ LastIs(sent'[x], {"write"}, v)
                \/ Head(sent[x]).type = "write" /\ Head(sent[x]).val = v
<1> DEFINE q == sent[x]
<1>1. q \in Seq(Message) /\ q # <<>> /\ SentOK(q)
  BY DEF StorageTypeOK, PageOK
<1>2. Tail(q) \in Seq(Message) /\ Head(q) \in Message
  BY <1>1
<1>3. sent' \in [Page -> Seq(Message)] /\ sent'[x] = Tail(q)
  BY <1>2 DEF StorageTypeOK
<1> HIDE DEF q
<1>4. /\ SentOK(Tail(q)) /\ ~Has(Tail(q), {"init"}) /\ Head(q).type # "event"
      /\ Head(q).type = "write" => Head(q).val \in Value
      /\ Head(q).type = "read" => Head(q).upd \in Updater
  BY <1>1, SentTail
<1>5. \A t : Has(q, {t}) => Head(q).type = t \/ Has(Tail(q), {t})
  BY <1>1, TailFacts
<1>6. \A v : LastIs(q, {"write"}, v) =>
        \/ LastIs(Tail(q), {"write"}, v)
        \/ Head(q).type = "write" /\ Head(q).val = v
  BY <1>1, TailFacts
<1>7. QED
  BY <1>2, <1>3, <1>4, <1>5, <1>6 DEF q

LEMMA AnswerReadKeeps ==
    ASSUME StorageIInv, NEW x \in Page, AnswerRead(x)
    PROVE  StorageIInv'
<1> DEFINE h == Head(sent[x])
           m == [h EXCEPT !.val = Current]
<1>1. /\ StorageTypeOK /\ PageOK(x) /\ Current \in Value /\ Current' = Current
      /\ sent[x] # <<>> /\ h.type # "write" /\ inbox' = Deliver({x}, m)
      /\ sent' = [sent EXCEPT ![x] = Tail(@)]
      /\ UNCHANGED <<stored, opened, cache, inited, shown, acks, failed, sets>>
  BY CurrentIsValue DEF StorageIInv, AnswerRead, Current
<1>2. /\ h \in Message /\ h.type # "event" /\ (h.type = "read" => h.upd \in Updater)
      /\ sent' \in [Page -> Seq(Message)] /\ SentOK(sent'[x])
      /\ Has(sent[x], {"init"}) => h.type = "init"
      /\ Has(sent[x], {"suspend"}) => h.type = "suspend" \/ Has(sent'[x], {"suspend"})
      /\ Has(sent[x], {"write"}) => Has(sent'[x], {"write"})
      /\ \A v : LastIs(sent[x], {"write"}, v) => LastIs(sent'[x], {"write"}, v)
  BY <1>1, DoneFacts
<1> HIDE DEF h
<1>3. m \in Message /\ m.type = h.type /\ m.upd = h.upd /\ m.val = Current
  BY <1>1, <1>2, MessageFacts
<1>4. h.type \in {"init", "suspend", "read"}
  BY <1>1, <1>2, MessageFacts
<1> HIDE DEF m
<1>5. \A y \in Page : inbox'[y] = IF y = x /\ y \in opened THEN Append(inbox[y], m) ELSE inbox[y]
  BY <1>1 DEF Deliver
<1>6. Append(inbox[x], m) \in Seq(Message) /\ inbox[x] \in Seq(Message)
  BY <1>1, <1>3 DEF StorageTypeOK
<1>7. inbox' \in [Page -> Seq(Message)]
  BY <1>1, <1>6 DEF StorageTypeOK, Deliver
<1>8. StorageTypeOK'
  BY <1>1, <1>2, <1>7 DEF StorageTypeOK
<1>9. ASSUME NEW y \in Page, y # x PROVE PageOK(y)'
  <2>1. sent'[y] = sent[y] /\ inbox'[y] = inbox[y]
    BY <1>1, <1>5, <1>9 DEF StorageTypeOK
  <2>2. QED
    BY <1>1, <2>1, Untouched DEF StorageIInv
<1>10. ASSUME x \notin opened PROVE PageOK(x)'
  BY <1>1, <1>2, <1>5, <1>10 DEF PageOK
<1>11. ASSUME x \in opened PROVE PageOK(x)'
  <2>1. inbox'[x] = Append(inbox[x], m) /\ InboxOK(inbox[x]) /\ StartOK(x) /\ FreshOK(x)
    BY <1>1, <1>5, <1>11 DEF PageOK
  <2>2. /\ InboxOK(inbox'[x])
        /\ InitComes(inbox[x]) => InitComes(inbox'[x])
        /\ m.type = "init" /\ ~Has(inbox[x], {"suspend"}) => InitComes(inbox'[x])
    BY <1>1, <1>2, <1>3, <1>6, <2>1, InboxAppend
  <2>3. Has(inbox'[x], {"suspend"}) <=> Has(inbox[x], {"suspend"}) \/ m.type = "suspend"
    BY <1>3, <1>6, <2>1, AppendFacts
  <2>4. /\ Has(inbox'[x], News) <=> Has(inbox[x], News) \/ m.type \in News
        /\ m.type \in News => LastIs(inbox'[x], News, m.val)
        /\ m.type \notin News /\ LastIs(inbox[x], News, Current) => LastIs(inbox'[x], News, Current)
    BY <1>3, <1>6, <2>1, AppendFacts
  <2>5. m.type \notin News => m.type = "suspend"
    BY <1>3, <1>4 DEF News
  <2>6. StartOK(x)'
    BY <1>1, <1>2, <1>3, <2>1, <2>2, <2>3 DEF StartOK
  <2>7. FreshOK(x)'
    BY <1>1, <1>2, <1>3, <2>1, <2>4, <2>5 DEF FreshOK
  <2>8. QED
    BY <1>1, <1>2, <1>11, <2>2, <2>6, <2>7 DEF PageOK
<1>12. QED
  BY <1>8, <1>9, <1>10, <1>11 DEF StorageIInv

\* An open page hears of a write that changes the value.
LEMMA EventKeeps ==
    ASSUME StorageTypeOK, NEW y \in Page, PageOK(y), y \in opened, NEW v \in Value, Current' = v,
           inbox'[y] = Append(inbox[y], Event(v)), SentOK(sent'[y]),
           Has(sent[y], {"init"}) => Has(sent'[y], {"init"}),
           Has(sent[y], {"suspend"}) => Has(sent'[y], {"suspend"}),
           Has(sent[y], {"write"}) \/ acks[y] > 0 => Has(sent'[y], {"write"}) \/ acks'[y] > 0,
           UNCHANGED <<opened, cache, inited, shown, failed>>
    PROVE  PageOK(y)'
<1>1. inbox[y] \in Seq(Message) /\ InboxOK(inbox[y]) /\ StartOK(y) /\ FreshOK(y)
  BY DEF StorageTypeOK, PageOK
<1>2. Event(v) \in Message /\ Event(v).type = "event" /\ Event(v).val = v
  BY MadeMessages
<1>3. InboxOK(inbox'[y]) /\ (InitComes(inbox[y]) => InitComes(inbox'[y]))
  BY <1>1, <1>2, InboxAppend
<1>4. Has(inbox'[y], {"suspend"}) <=> Has(inbox[y], {"suspend"})
  BY <1>1, <1>2, AppendFacts
<1>5. Has(inbox'[y], News) /\ LastIs(inbox'[y], News, v)
  BY <1>1, <1>2, AppendFacts DEF News
<1>6. StartOK(y)'
  BY <1>1, <1>3, <1>4 DEF StartOK
<1>7. FreshOK(y)'
  BY <1>1, <1>5 DEF FreshOK
<1>8. QED
  BY <1>3, <1>6, <1>7 DEF PageOK

LEMMA ApplyWriteKeeps ==
    ASSUME StorageIInv, NEW x \in Page, ApplyWrite(x)
    PROVE  StorageIInv'
<1> DEFINE h == Head(sent[x])
           v == h.val
<1>1. /\ StorageTypeOK /\ PageOK(x) /\ sent[x] # <<>> /\ h.type = "write"
      /\ sent' = [sent EXCEPT ![x] = Tail(@)] /\ stored' = v
      /\ inbox' = IF stored # v THEN Deliver(Page, Event(v)) ELSE inbox
      /\ acks' = IF x \in opened THEN [acks EXCEPT ![x] = @ + 1] ELSE acks
      /\ UNCHANGED <<opened, cache, inited, shown, failed, sets>>
  BY DEF StorageIInv, ApplyWrite, LiveUpdate
<1>2. /\ v \in Value /\ sent' \in [Page -> Seq(Message)] /\ SentOK(sent'[x])
      /\ ~Has(sent[x], {"init"})
      /\ Has(sent[x], {"suspend"}) => Has(sent'[x], {"suspend"})
      /\ \A w : LastIs(sent[x], {"write"}, w) => LastIs(sent'[x], {"write"}, w) \/ v = w
  BY <1>1, DoneFacts
<1> HIDE DEF h, v
<1>3. Event(v) \in Message /\ v # Null
  BY <1>2, MadeMessages, ExtStorageAssumption
<1>4. Current' = v /\ (stored = v => Current = v)
  BY <1>1, <1>3 DEF Current
<1>5. \A y \in Page : Append(inbox[y], Event(v)) \in Seq(Message)
  BY <1>1, <1>3 DEF StorageTypeOK
<1>6. inbox' \in [Page -> Seq(Message)]
  BY <1>1, <1>5 DEF StorageTypeOK, Deliver
<1>7. acks' \in [Page -> Nat] /\ (x \in opened => acks'[x] > 0)
  BY <1>1 DEF StorageTypeOK
<1>8. StorageTypeOK'
  BY <1>1, <1>2, <1>6, <1>7 DEF StorageTypeOK
<1>9. ASSUME NEW y \in Page, y # x PROVE sent'[y] = sent[y] /\ acks'[y] = acks[y] /\ PageOK(y)
  BY <1>1, <1>9 DEF StorageIInv, StorageTypeOK
<1>10. \A y \in Page : inbox'[y] = IF stored # v /\ y \in opened
                                   THEN Append(inbox[y], Event(v)) ELSE inbox[y]
  BY <1>1 DEF Deliver
<1>11. ASSUME NEW y \in Page, y \notin opened PROVE PageOK(y)'
  <2>1. PageOK(y) /\ inbox'[y] = inbox[y] /\ acks'[y] = acks[y]
    BY <1>1, <1>9, <1>10, <1>11 DEF StorageTypeOK
  <2>2. SentOK(sent'[y])
    BY <1>2, <1>9, <2>1 DEF PageOK
  <2>3. QED
    BY <1>1, <1>11, <2>1, <2>2 DEF PageOK
<1>12. ASSUME NEW y \in Page, y \in opened, stored # v PROVE PageOK(y)'
  <2>1. PageOK(y) /\ inbox'[y] = Append(inbox[y], Event(v))
    BY <1>1, <1>9, <1>10, <1>12
  <2>2. /\ SentOK(sent'[y])
        /\ Has(sent[y], {"init"}) => Has(sent'[y], {"init"})
        /\ Has(sent[y], {"suspend"}) => Has(sent'[y], {"suspend"})
        /\ Has(sent[y], {"write"}) \/ acks[y] > 0 => Has(sent'[y], {"write"}) \/ acks'[y] > 0
    BY <1>2, <1>7, <1>9, <1>12, <2>1 DEF PageOK
  <2>3. QED
    BY <1>1, <1>2, <1>4, <1>12, <2>1, <2>2, EventKeeps
<1>13. ASSUME NEW y \in Page, y # x, stored = v PROVE PageOK(y)'
  BY <1>1, <1>4, <1>9, <1>10, <1>13, Untouched
<1>14. ASSUME x \in opened, stored = v PROVE PageOK(x)'
  <2>1. StartOK(x) /\ FreshOK(x) /\ InboxOK(inbox[x]) /\ inbox'[x] = inbox[x] /\ Current' = Current
    BY <1>1, <1>4, <1>10, <1>14 DEF PageOK
  <2>2. StartOK(x)'
    BY <1>1, <1>2, <2>1 DEF StartOK
  <2>3. FreshOK(x)'
    BY <1>1, <1>2, <1>4, <1>7, <1>14, <2>1 DEF FreshOK
  <2>4. QED
    BY <1>1, <1>2, <1>14, <2>1, <2>2, <2>3 DEF PageOK
<1>15. QED
  BY <1>8, <1>11, <1>12, <1>13, <1>14 DEF StorageIInv

LEMMA FailWriteKeeps ==
    ASSUME StorageIInv, NEW x \in Page, FailWrite(x)
    PROVE  StorageIInv'
<1>1. /\ StorageTypeOK /\ PageOK(x) /\ sent[x] # <<>> /\ Head(sent[x]).type = "write"
      /\ sent' = [sent EXCEPT ![x] = Tail(@)] /\ Current' = Current
      /\ failed' = IF x \in opened THEN [failed EXCEPT ![x] = TRUE] ELSE failed
      /\ UNCHANGED <<stored, opened, cache, inited, shown, inbox, acks, sets>>
  BY DEF StorageIInv, FailWrite, Current
<1>2. /\ sent' \in [Page -> Seq(Message)] /\ SentOK(sent'[x])
      /\ ~Has(sent[x], {"init"})
      /\ Has(sent[x], {"suspend"}) => Has(sent'[x], {"suspend"})
  BY <1>1, DoneFacts
<1>3. StorageTypeOK'
  BY <1>1, <1>2 DEF StorageTypeOK
<1>4. ASSUME NEW y \in Page, y # x PROVE PageOK(y)'
  <2>1. sent'[y] = sent[y] /\ failed'[y] = failed[y] /\ PageOK(y)
    BY <1>1, <1>4 DEF StorageIInv, StorageTypeOK
  <2>2. QED
    BY <1>1, <2>1, Untouched
<1>5. ASSUME x \notin opened PROVE PageOK(x)'
  BY <1>1, <1>2, <1>5 DEF PageOK
<1>6. ASSUME x \in opened PROVE PageOK(x)'
  <2>1. StartOK(x) /\ FreshOK(x) /\ InboxOK(inbox[x]) /\ failed'[x] = TRUE
    BY <1>1, <1>6 DEF PageOK, StorageTypeOK
  <2>2. StartOK(x)'
    BY <1>1, <1>2, <2>1 DEF StartOK
  <2>3. FreshOK(x)'
    BY <1>1, <2>1 DEF FreshOK
  <2>4. QED
    BY <1>1, <1>2, <1>6, <2>1, <2>2, <2>3 DEF PageOK
<1>7. QED
  BY <1>3, <1>4, <1>5, <1>6 DEF StorageIInv

-----------------------------------------------------------------------------
(* Theorems                                                                *)

LEMMA StorageStart == StorageInit => StorageIInv
<1> SUFFICES ASSUME StorageInit PROVE StorageIInv
  OBVIOUS
<1>1. SentOK(<<>>) /\ InboxOK(<<>>) /\ <<>> \in Seq(Message)
  BY DEF SentOK, InboxOK
<1>2. StorageTypeOK
  BY <1>1 DEF StorageInit, StorageTypeOK
<1>3. ASSUME NEW x \in Page PROVE PageOK(x)
  BY <1>1, <1>3 DEF StorageInit, PageOK
<1>4. QED
  BY <1>2, <1>3 DEF StorageIInv

LEMMA StorageStill == StorageIInv /\ UNCHANGED storageVars => StorageIInv'
<1> SUFFICES ASSUME StorageIInv, UNCHANGED storageVars PROVE StorageIInv'
  OBVIOUS
<1>1. StorageTypeOK'
  BY DEF StorageIInv, StorageTypeOK, storageVars
<1>2. ASSUME NEW x \in Page PROVE PageOK(x)'
  BY <1>2, Untouched DEF StorageIInv, storageVars, Current
<1>3. QED
  BY <1>1, <1>2 DEF StorageIInv

LEMMA StorageStep == StorageIInv /\ [StorageNext]_storageVars => StorageIInv'
<1> SUFFICES ASSUME StorageIInv, [StorageNext]_storageVars PROVE StorageIInv'
  OBVIOUS
<1>1. ASSUME NEW x \in Page, OpenPage(x) PROVE StorageIInv'
  BY <1>1, OpenPageKeeps
<1>2. ASSUME NEW x \in Page, ClosePage(x) PROVE StorageIInv'
  BY <1>2, ClosePageKeeps
<1>3. ASSUME NEW x \in Page, AreaStep(x) PROVE StorageIInv'
  BY <1>3, AnswerReadKeeps, ApplyWriteKeeps, FailWriteKeeps DEF AreaStep
<1>4. ASSUME NEW x \in Page, Receive(x) PROVE StorageIInv'
  BY <1>4, ReceiveInitKeeps, ReceiveSuspendKeeps, ReceiveReadKeeps, ReceiveEventKeeps,
     ReceiveAckKeeps DEF Receive
<1>5. ASSUME NEW x \in Page, NEW u \in Updater, SetValue(x, u) PROVE StorageIInv'
  BY <1>5, SetValueKeeps
<1>6. ASSUME UNCHANGED storageVars PROVE StorageIInv'
  BY <1>6, StorageStill
<1>7. QED
  BY <1>1, <1>2, <1>3, <1>4, <1>5, <1>6 DEF StorageNext

\* The inductive invariant of the storage holds for every number of pages and
\* calls: the initial read of a page comes before the read that unsuspends it,
\* and the last news on its way to a page is the value that is stored.
THEOREM StorageIsRight == StorageSpec => []StorageIInv
  BY StorageStart, StorageStep, PTL DEF StorageSpec

LEMMA QuietPagesAgree == StorageIInv => PagesInSync
<1> SUFFICES ASSUME StorageIInv, NEW x \in opened, Quiet(x), ~failed[x]
             PROVE  cache[x] = Current /\ shown[x] = Current
  BY DEF PagesInSync
<1>1. x \in Page /\ StartOK(x) /\ FreshOK(x)
  BY DEF StorageIInv, StorageTypeOK, PageOK
<1>2. \A types : ~Has(<<>>, types) /\ \A v : ~LastIs(<<>>, types, v)
  BY DEF Has, LastIs
<1>3. sent[x] = <<>> /\ inbox[x] = <<>> /\ acks[x] = 0
  BY DEF Quiet
<1>4. shown[x] # Null
  BY <1>1, <1>2, <1>3 DEF StartOK
<1>5. cache[x] = Current
  BY <1>1, <1>2, <1>3 DEF FreshOK
<1>6. shown[x] = cache[x]
  BY <1>1, <1>2, <1>3, <1>4 DEF FreshOK
<1>7. QED
  BY <1>5, <1>6

\* A page with nothing under way holds and shows what is stored, unless a write of
\* its own failed, whatever the pages, the values and the calls of set are.
THEOREM PagesAgree == StorageSpec => []PagesInSync
  BY StorageIsRight, QuietPagesAgree, PTL
=============================================================================
