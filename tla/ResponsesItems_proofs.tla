----------------------- MODULE ResponsesItems_proofs -----------------------
(***************************************************************************)
(* The output items of the Responses API, for chunks of any number and     *)
(* calls of any names: the completed response lists all of its items       *)
(* whole, and the events of an item come in order and say what its done    *)
(* event repeats.                                                          *)
(***************************************************************************)
EXTENDS GatewayStream_proofs

-----------------------------------------------------------------------------
(* The Responses API: what the events say of an item.                      *)

EventsFor(k) == {e \in ResponseEvents : e.kind = k}
Additions == {e \in ResponseEvents : e.type = "added"}
DonesOf(k) == {e \in ResponseEvents : e.type = "done" /\ e.kind = k}
Ends == {e \in ResponseEvents : e.type = "end"}

\* An item is added once, before its other events, all under its index; it has as
\* many pieces as deltas, and is done when it is closed.
Tells(s, item, k) ==
  /\ item.size = Count(s, ItemDeltas(k))
  /\ item.state = "none" => At(s, EventsFor(k)) = {}
  /\ item.state # "none" =>
       \E n \in At(s, Additions) :
         /\ s[n].kind = k
         /\ \A i \in At(s, EventsFor(k)) :
              n <= i /\ s[i].index = item.index /\ (s[i].type = "added" => i = n)
  /\ item.state = "closed" => At(s, DonesOf(k)) # {}
Tracked(a) == \A k \in Items : Tells(a.sent, a.item[k], k)

\* What is added takes the next index.
Indexed(a) ==
  \A i \in At(a.sent, Additions) :
    /\ a.sent[i].kind \in Items /\ a.sent[i].index < a.next
    /\ \A j \in At(a.sent, Additions) : i < j => a.sent[i].index < a.sent[j].index

\* The calls that were added are listed.
Listed(a) == ToSet(a.calls) = Opened(a)

\* The places of an event more.
LEMMA PlacesAppend ==
  ASSUME NEW s \in Seq(ResponseEvents), NEW e \in ResponseEvents
  PROVE  /\ Append(s, e) \in Seq(ResponseEvents) /\ Len(s) \in Nat
         /\ \A i \in 1..Len(s) : Append(s, e)[i] = s[i]
         /\ Append(s, e)[Len(s) + 1] = e
         /\ \A T : /\ At(s, T) \subseteq 1..Len(s)
                   /\ At(Append(s, e), T) = At(s, T) \cup (IF e \in T THEN {Len(s) + 1} ELSE {})
                   /\ Count(s, T) \in Nat
                   /\ Count(Append(s, e), T) = Count(s, T) + (IF e \in T THEN 1 ELSE 0)
  <1>1. /\ Append(s, e) \in Seq(ResponseEvents) /\ Len(s) \in Nat
        /\ \A i \in 1..Len(s) : Append(s, e)[i] = s[i]
        /\ Append(s, e)[Len(s) + 1] = e
    BY AppendFacts
  <1>2. ASSUME NEW T
        PROVE  /\ At(s, T) \subseteq 1..Len(s)
               /\ At(Append(s, e), T) = At(s, T) \cup (IF e \in T THEN {Len(s) + 1} ELSE {})
               /\ Count(s, T) \in Nat
               /\ Count(Append(s, e), T) = Count(s, T) + (IF e \in T THEN 1 ELSE 0)
    BY CountAppend, CountZero
  <1>3. QED
    BY <1>1, <1>2

\* An event of another item says nothing of this one.
LEMMA TellsOther ==
  ASSUME NEW s \in Seq(ResponseEvents), NEW e \in ResponseEvents, NEW k \in Items, e.kind # k,
         NEW item \in ItemType, Tells(s, item, k)
  PROVE  Tells(Append(s, e), item, k)
  <1> DEFINE t == Append(s, e)
  <1>1. /\ \A i \in 1..Len(s) : t[i] = s[i]
        /\ \A T : /\ At(s, T) \subseteq 1..Len(s)
                  /\ At(t, T) = At(s, T) \cup (IF e \in T THEN {Len(s) + 1} ELSE {})
                  /\ Count(s, T) \in Nat
                  /\ Count(t, T) = Count(s, T) + (IF e \in T THEN 1 ELSE 0)
    BY PlacesAppend
  <1> HIDE DEF t
  <1>2. e \notin ItemDeltas(k) /\ e \notin EventsFor(k) /\ e \notin DonesOf(k)
    BY DEF ItemDeltas, EventsFor, DonesOf
  <1>3. Count(t, ItemDeltas(k)) = Count(s, ItemDeltas(k))
    <2>1. Count(t, ItemDeltas(k)) = Count(s, ItemDeltas(k)) + 0 /\ Count(s, ItemDeltas(k)) \in Nat
      BY <1>1, <1>2
    <2>2. QED
      BY <2>1
  <1>4. At(t, EventsFor(k)) = At(s, EventsFor(k)) /\ At(t, DonesOf(k)) = At(s, DonesOf(k))
    BY <1>1, <1>2
  <1>5. At(s, Additions) \subseteq At(t, Additions)
    BY <1>1
  <1>6. ASSUME item.state # "none"
        PROVE  \E n \in At(t, Additions) :
                 /\ t[n].kind = k
                 /\ \A i \in At(t, EventsFor(k)) :
                      n <= i /\ t[i].index = item.index /\ (t[i].type = "added" => i = n)
    <2>1. PICK n \in At(s, Additions) :
            /\ s[n].kind = k
            /\ \A i \in At(s, EventsFor(k)) :
                 n <= i /\ s[i].index = item.index /\ (s[i].type = "added" => i = n)
      BY <1>6 DEF Tells
    <2>2. n \in 1..Len(s) /\ At(s, EventsFor(k)) \subseteq 1..Len(s)
      BY <1>1
    <2>3. QED
      BY <1>1, <1>4, <1>5, <2>1, <2>2
  <1>7. QED
    BY <1>3, <1>4, <1>6 DEF Tells, t

\* The event that adds an item.
LEMMA TellsAdded ==
  ASSUME NEW s \in Seq(ResponseEvents), NEW k \in Items, NEW n \in Nat,
         NEW item \in ItemType, item.state = "none", Tells(s, item, k)
  PROVE  Tells(Append(s, Event("added", k, n, 0)), [state |-> "open", index |-> n, size |-> 0], k)
  <1> DEFINE e == Event("added", k, n, 0)
             t == Append(s, e)
             w == [state |-> "open", index |-> n, size |-> 0]
             l == Len(s) + 1
  <1>1. e \in ResponseEvents /\ e.type = "added" /\ e.kind = k /\ e.index = n
    <2>1. k \in Items \cup {"response"} /\ 0 \in Nat
      OBVIOUS
    <2>2. e \in ResponseEvents /\ e.type = "added" /\ e.kind = k
      BY <2>1, ResponseEvent
    <2>3. e.index = n
      BY DEF Event
    <2>4. QED
      BY <2>2, <2>3
  <1>2. w.state = "open" /\ w.index = n /\ w.size = 0
    OBVIOUS
  <1> HIDE DEF e, w
  <1>3. /\ \A i \in 1..Len(s) : t[i] = s[i]
        /\ t[l] = e /\ Len(s) \in Nat
        /\ \A T : /\ At(s, T) \subseteq 1..Len(s)
                  /\ At(t, T) = At(s, T) \cup (IF e \in T THEN {l} ELSE {})
    BY <1>1, PlacesAppend
  <1> HIDE DEF t, l
  <1>4. At(s, EventsFor(k)) = {}
    BY DEF Tells
  <1>5. At(t, EventsFor(k)) = {l} /\ l \in At(t, Additions)
    BY <1>1, <1>3, <1>4 DEF EventsFor, Additions
  <1>6. Count(t, ItemDeltas(k)) = 0
    <2>1. At(s, ItemDeltas(k)) = {}
      BY <1>4 DEF At, EventsFor, ItemDeltas
    <2>2. e \notin ItemDeltas(k)
      BY <1>1 DEF ItemDeltas
    <2>3. At(t, ItemDeltas(k)) = {}
      BY <1>3, <2>1, <2>2
    <2>4. QED
      BY <2>3, FS_EmptySet DEF Count
  <1>7. \E m \in At(t, Additions) :
          /\ t[m].kind = k
          /\ \A i \in At(t, EventsFor(k)) : m <= i /\ t[i].index = w.index /\ (t[i].type = "added" => i = m)
    <2>1. l <= l
      BY <1>3 DEF l
    <2>2. QED
      BY <1>1, <1>2, <1>3, <1>5, <2>1
  <1>8. Tells(t, w, k)
    BY <1>2, <1>6, <1>7 DEF Tells
  <1>9. QED
    BY <1>8 DEF t, e, w

\* A delta and a done of an item that was added.
LEMMA TellsMore ==
  ASSUME NEW s \in Seq(ResponseEvents), NEW k \in Items, NEW item \in ItemType, item.state # "none",
         Tells(s, item, k), NEW type \in {"delta", "done"}, NEW m \in Nat, NEW next \in ItemType,
         next.index = item.index, next.state # "none",
         next.size = item.size + (IF type = "delta" THEN 1 ELSE 0),
         next.state = "closed" => item.state = "closed" \/ type = "done"
  PROVE  Tells(Append(s, Event(type, k, item.index, m)), next, k)
  <1> DEFINE x == item.index
             e == Event(type, k, x, m)
             t == Append(s, e)
             l == Len(s) + 1
  <1>1. e \in ResponseEvents /\ e.type = type /\ e.kind = k /\ e.index = x
    <2>1. k \in Items \cup {"response"} /\ x \in Nat
      BY DEF ItemType
    <2> HIDE DEF x
    <2>2. e \in ResponseEvents /\ e.type = type /\ e.kind = k
      BY <2>1, ResponseEvent
    <2>3. e.index = x
      BY DEF Event
    <2>4. QED
      BY <2>2, <2>3
  <1> HIDE DEF e
  <1>3. /\ \A i \in 1..Len(s) : t[i] = s[i]
        /\ t[l] = e /\ Len(s) \in Nat
        /\ \A T : /\ At(s, T) \subseteq 1..Len(s)
                  /\ At(t, T) = At(s, T) \cup (IF e \in T THEN {l} ELSE {})
                  /\ Count(s, T) \in Nat
                  /\ Count(t, T) = Count(s, T) + (IF e \in T THEN 1 ELSE 0)
    BY <1>1, PlacesAppend
  <1> HIDE DEF t, l
  <1>4. (e \in ItemDeltas(k) <=> type = "delta") /\ (e \in DonesOf(k) <=> type = "done") /\ e \in EventsFor(k)
    BY <1>1 DEF ItemDeltas, DonesOf, EventsFor
  <1>5. next.size = Count(t, ItemDeltas(k))
    <2>1. item.size = Count(s, ItemDeltas(k))
      BY DEF Tells
    <2>2. QED
      BY <1>3, <1>4, <2>1
  <1>6. next.state = "closed" => At(t, DonesOf(k)) # {}
    <2>1. CASE type = "done"
      BY <1>3, <1>4, <2>1
    <2>2. CASE type # "done"
      <3>1. next.state = "closed" => At(s, DonesOf(k)) # {}
        BY <2>2 DEF Tells
      <3>2. At(s, DonesOf(k)) \subseteq At(t, DonesOf(k))
        BY <1>3
      <3>3. QED
        BY <3>1, <3>2
    <2>3. QED
      BY <2>1, <2>2
  <1>7. PICK n \in At(s, Additions) :
          /\ s[n].kind = k
          /\ \A i \in At(s, EventsFor(k)) : n <= i /\ s[i].index = x /\ (s[i].type = "added" => i = n)
    BY DEF Tells
  <1>8. /\ n \in 1..Len(s) /\ At(s, EventsFor(k)) \subseteq 1..Len(s)
        /\ At(t, EventsFor(k)) = At(s, EventsFor(k)) \cup {l} /\ n \in At(t, Additions) /\ n <= l
    <2>1. n \in 1..Len(s) /\ At(s, EventsFor(k)) \subseteq 1..Len(s)
      BY <1>3
    <2>2. n <= l
      BY <1>3, <2>1 DEF l
    <2>3. QED
      BY <1>3, <1>4, <2>1, <2>2
  <1>9. \A i \in At(t, EventsFor(k)) : n <= i /\ t[i].index = x /\ (t[i].type = "added" => i = n)
    BY <1>1, <1>3, <1>7, <1>8
  <1>10. t[n].kind = k
    BY <1>3, <1>7, <1>8
  <1>11. Tells(t, next, k)
    BY <1>5, <1>6, <1>8, <1>9, <1>10 DEF Tells
  <1>12. QED
    BY <1>11 DEF t, e

Booked(a) == Tracked(a) /\ Indexed(a)

\* What an event more means for the order of what was added.
LEMMA IndexedAppend ==
  ASSUME NEW a \in ResponsesType, NEW b \in ResponsesType, NEW e \in ResponseEvents, Indexed(a),
         b.sent = Append(a.sent, e), b.next >= a.next,
         e.type = "added" => e.kind \in Items /\ e.index = a.next /\ b.next = a.next + 1
  PROVE  Indexed(b)
  <1> DEFINE s == a.sent
             l == Len(s) + 1
             t == b.sent
             n == a.next
             m == b.next
  <1>1. s \in Seq(ResponseEvents) /\ n \in Nat /\ m \in Nat
    BY DEF ResponsesType
  <1>2. /\ \A i \in 1..Len(s) : t[i] = s[i]
        /\ t[l] = e /\ Len(s) \in Nat
        /\ At(s, Additions) \subseteq 1..Len(s)
        /\ At(t, Additions) = At(s, Additions) \cup (IF e \in Additions THEN {l} ELSE {})
    BY <1>1, PlacesAppend
  <1>3. \A i \in At(s, Additions) :
          /\ s[i].kind \in Items /\ s[i].index < n /\ s[i].index \in Nat
          /\ \A j \in At(s, Additions) : i < j => s[i].index < s[j].index
    <2>1. \A i \in At(s, Additions) : s[i] \in ResponseEvents
      BY DEF At, Additions
    <2>2. \A i \in At(s, Additions) : s[i].index \in Nat
      BY <2>1 DEF ResponseEvents
    <2>3. QED
      BY <2>2 DEF Indexed
  <1>4. m >= n /\ (e \in Additions => e.kind \in Items /\ e.index = n /\ m = n + 1)
    BY DEF Additions
  <1> HIDE DEF s, l, t, n, m
  <1>5. \A i \in At(t, Additions) :
          /\ t[i].kind \in Items /\ t[i].index < m
          /\ \A j \in At(t, Additions) : i < j => t[i].index < t[j].index
    <2>1. CASE e \in Additions
      <3>1. At(t, Additions) = At(s, Additions) \cup {l} /\ e.kind \in Items /\ e.index = n /\ m = n + 1
        BY <1>2, <1>4, <2>1
      <3>2. \A i \in At(s, Additions) : t[i] = s[i] /\ i \in 1..Len(s) /\ i < l
        BY <1>2 DEF l
      <3>3. t[l].kind \in Items /\ t[l].index < m /\ t[l].index = n
        BY <1>1, <1>2, <3>1
      <3>4. ~(l < l) /\ \A i \in At(s, Additions) : ~(l < i)
        BY <1>2, <3>2 DEF l
      <3>5. ASSUME NEW i \in At(t, Additions) PROVE t[i].kind \in Items /\ t[i].index < m
        <4>1. CASE i = l
          BY <3>3, <4>1
        <4>2. CASE i # l
          <5>1. i \in At(s, Additions)
            BY <3>1, <4>2
          <5>2. t[i] = s[i]
            BY <3>2, <5>1
          <5>3. QED
            BY <1>1, <1>3, <3>1, <5>1, <5>2
        <4>3. QED
          BY <4>1, <4>2
      <3>6. ASSUME NEW i \in At(t, Additions), NEW j \in At(t, Additions), i < j
            PROVE  t[i].index < t[j].index
        <4>1. i \in At(s, Additions)
          BY <3>1, <3>4, <3>6
        <4>2. t[i] = s[i] /\ s[i].index < n
          BY <1>3, <3>2, <4>1
        <4>3. CASE j = l
          BY <3>3, <4>2, <4>3
        <4>4. CASE j # l
          BY <1>3, <3>1, <3>2, <3>6, <4>1, <4>4
        <4>5. QED
          BY <4>3, <4>4
      <3>7. QED
        BY <3>5, <3>6
    <2>2. CASE e \notin Additions
      <3>1. At(t, Additions) = At(s, Additions)
        BY <1>2, <2>2
      <3>2. \A i \in At(s, Additions) : t[i] = s[i]
        BY <1>2
      <3>3. \A i \in At(s, Additions) : s[i].index < m
        BY <1>1, <1>3, <1>4
      <3>4. QED
        BY <1>3, <3>1, <3>2, <3>3
    <2>3. QED
      BY <2>1, <2>2
  <1>6. QED
    BY <1>5 DEF Indexed, t, m

\* What an event more means for all items, when its own is accounted for.
LEMMA TrackedAppend ==
  ASSUME NEW a \in ResponsesType, NEW b \in ResponsesType, NEW e \in ResponseEvents, Tracked(a),
         b.sent = Append(a.sent, e), \A k \in Items : k # e.kind => b.item[k] = a.item[k],
         e.kind \in Items => Tells(b.sent, b.item[e.kind], e.kind)
  PROVE  Tracked(b)
  <1>1. ASSUME NEW k \in Items PROVE Tells(b.sent, b.item[k], k)
    <2>1. CASE k = e.kind
      BY <2>1
    <2>2. CASE k # e.kind
      <3>1. a.sent \in Seq(ResponseEvents) /\ a.item[k] \in ItemType /\ Tells(a.sent, a.item[k], k)
        BY DEF ResponsesType, Tracked
      <3>2. Tells(Append(a.sent, e), a.item[k], k)
        BY <2>2, <3>1, TellsOther
      <3>3. QED
        BY <2>2, <3>2
    <2>3. QED
      BY <2>1, <2>2
  <1>2. QED
    BY <1>1 DEF Tracked

\* The rest of the adapter.
SameRest(a, b) ==
  /\ b.full = a.full /\ b.thought = a.thought /\ b.buffered = a.buffered /\ b.deferred = a.deferred
  /\ b.completed = a.completed
SameOthers(a, b, k) == \A j \in Items : j # k => b.item[j] = a.item[j]

\* Adding an item.
LEMMA AddItemBooked ==
  ASSUME NEW a \in ResponsesType, NEW k \in Items, a.item[k].state = "none", Booked(a)
  PROVE  LET b == AddItem(a, k)
         IN  /\ b \in ResponsesType /\ Booked(b) /\ SameRest(a, b) /\ SameOthers(a, b, k) /\ b.calls = a.calls
             /\ b.item[k] = [state |-> "open", index |-> a.next, size |-> 0]
             /\ b.sent = Append(a.sent, Event("added", k, a.next, 0))
             /\ Event("added", k, a.next, 0) \in ResponseEvents
  <1> DEFINE n == a.next
             i == [state |-> "open", index |-> n, size |-> 0]
             e == Event("added", k, n, 0)
             w == [a.item EXCEPT ![k] = i]
             b == AddItem(a, k)
  <1>1. /\ b \in ResponsesType /\ b.calls = a.calls /\ b.full = a.full /\ b.thought = a.thought
        /\ b.buffered = a.buffered /\ b.deferred = a.deferred /\ b.completed = a.completed
    BY AddItemEffect
  <1>2. n \in Nat /\ a.sent \in Seq(ResponseEvents) /\ a.item \in [Items -> ItemType] /\ a.item[k] \in ItemType
    BY DEF ResponsesType
  <1>3. b.item = w /\ b.sent = Append(a.sent, e) /\ b.next = n + 1
    BY DEF AddItem, Emit, ResponsesType
  <1>4. e \in ResponseEvents /\ e.type = "added" /\ e.kind = k /\ e.index = n
    <2>1. k \in Items \cup {"response"} /\ 0 \in Nat
      OBVIOUS
    <2> HIDE DEF n
    <2>2. e \in ResponseEvents /\ e.type = "added" /\ e.kind = k
      BY <1>2, <2>1, ResponseEvent
    <2>3. e.index = n
      BY DEF Event
    <2>4. QED
      BY <2>2, <2>3
  <1>5. Tells(Append(a.sent, e), i, k)
    <2>1. Tells(a.sent, a.item[k], k)
      BY DEF Booked, Tracked
    <2> HIDE DEF n
    <2>2. QED
      BY <1>2, <2>1, TellsAdded
  <1> HIDE DEF e, b, i, n
  <1>6. w[k] = i /\ \A j \in Items : j # k => w[j] = a.item[j]
    BY <1>2
  <1> HIDE DEF w
  <1>7. Tracked(b)
    <2>1. \A j \in Items : j # e.kind => b.item[j] = a.item[j]
      BY <1>3, <1>4, <1>6
    <2>2. Tells(b.sent, b.item[e.kind], e.kind)
      BY <1>3, <1>4, <1>5, <1>6
    <2>3. QED
      BY <1>1, <1>3, <1>4, <2>1, <2>2, TrackedAppend DEF Booked
  <1>8. Indexed(b)
    <2>1. b.next >= a.next /\ e.kind \in Items /\ e.index = a.next /\ b.next = a.next + 1
      BY <1>2, <1>3, <1>4 DEF n
    <2>2. QED
      BY <1>1, <1>3, <1>4, <2>1, IndexedAppend DEF Booked
  <1>9. QED
    BY <1>1, <1>3, <1>4, <1>6, <1>7, <1>8 DEF Booked, SameRest, SameOthers, b, e, i, n

\* A piece of an item that was added.
LEMMA GrowBooked ==
  ASSUME NEW a \in ResponsesType, NEW k \in Items, a.item[k].state # "none", Booked(a)
  PROVE  LET b == Grow(a, k)
         IN  /\ b \in ResponsesType /\ Booked(b) /\ SameRest(a, b) /\ SameOthers(a, b, k) /\ b.calls = a.calls
             /\ b.item[k] = [a.item[k] EXCEPT !.size = @ + 1]
             /\ b.sent = Append(a.sent, Event("delta", k, a.item[k].index, 1))
             /\ Event("delta", k, a.item[k].index, 1) \in ResponseEvents
  <1> DEFINE x == a.item[k].index
             i == [a.item[k] EXCEPT !.size = @ + 1]
             e == Event("delta", k, x, 1)
             w == [a.item EXCEPT ![k] = i]
             b == Grow(a, k)
  <1>1. /\ b \in ResponsesType /\ b.calls = a.calls /\ b.full = a.full /\ b.thought = a.thought
        /\ b.buffered = a.buffered /\ b.deferred = a.deferred /\ b.completed = a.completed
    BY GrowEffect
  <1>2. a.sent \in Seq(ResponseEvents) /\ a.item \in [Items -> ItemType] /\ a.item[k] \in ItemType /\ x \in Nat /\ a.next \in Nat
    BY DEF ResponsesType, ItemType
  <1>3. b.item = w /\ b.sent = Append(a.sent, e) /\ b.next = a.next
    BY <1>2 DEF Grow, Emit, ResponsesType
  <1>4. e \in ResponseEvents /\ e.type = "delta" /\ e.kind = k
    <2>1. k \in Items \cup {"response"} /\ 1 \in Nat
      OBVIOUS
    <2> HIDE DEF x
    <2>2. QED
      BY <1>2, <2>1, ResponseEvent
  <1>5. i \in ItemType /\ i.state = a.item[k].state /\ i.index = x /\ i.size = a.item[k].size + 1
    BY <1>2 DEF ItemType
  <1>6. Tells(Append(a.sent, e), i, k)
    <2>1. Tells(a.sent, a.item[k], k)
      BY DEF Booked, Tracked
    <2> HIDE DEF i
    <2>2. /\ i.index = a.item[k].index /\ i.state # "none" /\ i.size = a.item[k].size + (IF "delta" = "delta" THEN 1 ELSE 0)
          /\ (i.state = "closed" => a.item[k].state = "closed" \/ "delta" = "done")
          /\ "delta" \in {"delta", "done"} /\ 1 \in Nat
      BY <1>5
    <2>3. Tells(Append(a.sent, Event("delta", k, a.item[k].index, 1)), i, k)
      BY <1>2, <1>5, <2>1, <2>2, TellsMore
    <2>4. QED
      BY <2>3
  <1> HIDE DEF e, b, i, x
  <1>7. w[k] = i /\ \A j \in Items : j # k => w[j] = a.item[j]
    BY <1>2
  <1> HIDE DEF w
  <1>8. Tracked(b)
    <2>1. \A j \in Items : j # e.kind => b.item[j] = a.item[j]
      BY <1>3, <1>4, <1>7
    <2>2. Tells(b.sent, b.item[e.kind], e.kind)
      BY <1>3, <1>4, <1>6, <1>7
    <2>3. QED
      BY <1>1, <1>3, <1>4, <2>1, <2>2, TrackedAppend DEF Booked
  <1>9. Indexed(b)
    <2>1. b.next >= a.next /\ e.type # "added"
      BY <1>2, <1>3, <1>4
    <2>2. QED
      BY <1>1, <1>3, <1>4, <2>1, IndexedAppend DEF Booked
  <1>10. QED
    BY <1>1, <1>3, <1>4, <1>7, <1>8, <1>9 DEF Booked, SameRest, SameOthers, b, e, i, x

\* The done events of an open item.
LEMMA CloseItemBooked ==
  ASSUME NEW a \in ResponsesType, NEW k \in Items, NEW m \in Nat, a.item[k].state = "open", Booked(a)
  PROVE  LET b == CloseItem(a, k, m)
         IN  /\ b \in ResponsesType /\ Booked(b) /\ SameRest(a, b) /\ SameOthers(a, b, k) /\ b.calls = a.calls
             /\ b.item[k] = [a.item[k] EXCEPT !.state = "closed"]
             /\ b.sent = Append(a.sent, Event("done", k, a.item[k].index, m))
             /\ Event("done", k, a.item[k].index, m) \in ResponseEvents
  <1> DEFINE x == a.item[k].index
             i == [a.item[k] EXCEPT !.state = "closed"]
             e == Event("done", k, x, m)
             w == [a.item EXCEPT ![k] = i]
             b == CloseItem(a, k, m)
  <1>1. /\ b \in ResponsesType /\ b.calls = a.calls /\ b.full = a.full /\ b.thought = a.thought
        /\ b.buffered = a.buffered /\ b.deferred = a.deferred /\ b.completed = a.completed
    BY CloseItemEffect
  <1>2. a.sent \in Seq(ResponseEvents) /\ a.item \in [Items -> ItemType] /\ a.item[k] \in ItemType /\ x \in Nat /\ a.next \in Nat
    BY DEF ResponsesType, ItemType
  <1>3. b.item = w /\ b.sent = Append(a.sent, e) /\ b.next = a.next
    BY <1>2 DEF CloseItem, Emit, ResponsesType
  <1>4. e \in ResponseEvents /\ e.type = "done" /\ e.kind = k
    <2>1. k \in Items \cup {"response"}
      OBVIOUS
    <2> HIDE DEF x
    <2>2. QED
      BY <1>2, <2>1, ResponseEvent
  <1>5. i \in ItemType /\ i.state = "closed" /\ i.index = x /\ i.size = a.item[k].size /\ a.item[k].size \in Nat
    BY <1>2 DEF ItemType
  <1>6. Tells(Append(a.sent, e), i, k)
    <2>1. Tells(a.sent, a.item[k], k)
      BY DEF Booked, Tracked
    <2> HIDE DEF i
    <2>2. /\ i.index = a.item[k].index /\ i.state # "none" /\ i.size = a.item[k].size + (IF "done" = "delta" THEN 1 ELSE 0)
          /\ (i.state = "closed" => a.item[k].state = "closed" \/ "done" = "done")
          /\ "done" \in {"delta", "done"} /\ a.item[k].state # "none"
      BY <1>5
    <2>3. Tells(Append(a.sent, Event("done", k, a.item[k].index, m)), i, k)
      BY <1>2, <1>5, <2>1, <2>2, TellsMore
    <2>4. QED
      BY <2>3
  <1> HIDE DEF e, b, i, x
  <1>7. w[k] = i /\ \A j \in Items : j # k => w[j] = a.item[j]
    BY <1>2
  <1> HIDE DEF w
  <1>8. Tracked(b)
    <2>1. \A j \in Items : j # e.kind => b.item[j] = a.item[j]
      BY <1>3, <1>4, <1>7
    <2>2. Tells(b.sent, b.item[e.kind], e.kind)
      BY <1>3, <1>4, <1>6, <1>7
    <2>3. QED
      BY <1>1, <1>3, <1>4, <2>1, <2>2, TrackedAppend DEF Booked
  <1>9. Indexed(b)
    <2>1. b.next >= a.next /\ e.type # "added"
      BY <1>2, <1>3, <1>4
    <2>2. QED
      BY <1>1, <1>3, <1>4, <2>1, IndexedAppend DEF Booked
  <1>10. QED
    BY <1>1, <1>3, <1>4, <1>7, <1>8, <1>9 DEF Booked, SameRest, SameOthers, b, e, i, x

-----------------------------------------------------------------------------
(* The Responses API: what the calls of a chunk keep.                      *)

StartCall(a, k) == [AddItem(a, k) EXCEPT !.calls = Append(@, k)]

\* J is kept by what happens to calls: each is started once, grows while it is open,
\* or also behind its end when it is in V, and is closed once.
CallSteps(J, V) ==
  /\ J \subseteq ResponsesType
  /\ \A x \in J, k \in Calls :
       /\ x.item[k].state = "none" => StartCall(x, k) \in J
       /\ x.item[k].state = "open" \/ (x.item[k].state = "closed" /\ k \in V) => Grow(x, k) \in J
       /\ x.item[k].state = "open" => CloseItem(x, k, x.item[k].size) \in J

\* An entry starts a call or goes on with one.
Fits(a, t, V) ==
  IF t.start THEN a.item[t.call].state = "none"
  ELSE a.item[t.call].state = "open" \/ (a.item[t.call].state = "closed" /\ t.call \in V)

\* The item of k may have been started and closed, no other was touched.
Touched(a, b, k) == b.item[k].state # "none" /\ SameOthers(a, b, k)

\* An entry of a chunk.
LEMMA ToolEntryLeads ==
  ASSUME NEW J, NEW V, CallSteps(J, V), NEW a \in J, NEW t \in ToolType, Fits(a, t, V)
  PROVE  /\ ToolEntry(a, t) \in J /\ Touched(a, ToolEntry(a, t), t.call)
         /\ ToolEntry(a, t).item[t.call].state = "closed" => a.item[t.call].state = "closed" \/ t.args = "last"
  <1> DEFINE k == t.call
             b == IF t.start THEN StartCall(a, k) ELSE a
             c == IF t.args = "none" THEN b ELSE Grow(b, k)
             d == IF t.args = "last" /\ c.item[k].state = "open" THEN CloseItem(c, k, c.item[k].size) ELSE c
  <1>1. k \in Calls /\ k \in Items /\ a \in ResponsesType /\ t.start \in BOOLEAN
    BY ItemKinds DEF ToolType, CallSteps
  <1>2. ToolEntry(a, t) = d
    BY DEF ToolEntry, StartCall
  <1>3. b \in J /\ b.item[k].state # "none" /\ SameOthers(a, b, k)
        /\ (b.item[k].state = "open" \/ (b.item[k].state = "closed" /\ k \in V))
        /\ (b.item[k].state = "closed" => a.item[k].state = "closed")
    <2>1. CASE t.start
      <3> DEFINE x == AddItem(a, k)
      <3>1. x \in ResponsesType /\ x.item[k].state = "open" /\ \A j \in Items : j # k => x.item[j] = a.item[j]
        BY <1>1, AddItemEffect
      <3>2. StartCall(a, k).item = x.item
        BY <3>1 DEF StartCall, ResponsesType
      <3>3. StartCall(a, k) \in J
        BY <1>1, <2>1 DEF CallSteps, Fits
      <3> HIDE DEF x
      <3>4. b = StartCall(a, k)
        BY <2>1
      <3> HIDE DEF b
      <3>5. QED
        BY <3>1, <3>2, <3>3, <3>4 DEF SameOthers
    <2>2. CASE ~t.start
      <3>1. b = a /\ (a.item[k].state = "open" \/ (a.item[k].state = "closed" /\ k \in V))
        BY <2>2 DEF Fits
      <3> HIDE DEF b, k
      <3>2. QED
        BY <3>1 DEF SameOthers
    <2>3. QED
      BY <2>1, <2>2
  <1>4. b \in ResponsesType
    BY <1>3 DEF CallSteps
  <1> HIDE DEF b
  <1>5. c \in J /\ \A j \in Items : c.item[j].state = b.item[j].state /\ (j # k => c.item[j] = b.item[j])
    <2>1. CASE t.args = "none"
      BY <1>3, <2>1
    <2>2. CASE t.args # "none"
      <3>1. /\ \A j \in Items : Grow(b, k).item[j].state = b.item[j].state
            /\ \A j \in Items : j # k => Grow(b, k).item[j] = b.item[j]
        BY <1>1, <1>4, GrowEffect
      <3>2. Grow(b, k) \in J
        BY <1>1, <1>3 DEF CallSteps
      <3>3. QED
        BY <2>2, <3>1, <3>2
    <2>3. QED
      BY <2>1, <2>2
  <1>6. c \in ResponsesType
    BY <1>5 DEF CallSteps
  <1> HIDE DEF c
  <1>7. /\ d \in J /\ d.item[k].state # "none" /\ \A j \in Items : j # k => d.item[j] = c.item[j]
        /\ (d.item[k].state = "closed" => c.item[k].state = "closed" \/ t.args = "last")
    <2>1. CASE t.args = "last" /\ c.item[k].state = "open"
      <3> DEFINE m == c.item[k].size
      <3>1. m \in Nat
        BY <1>1, <1>6 DEF ResponsesType, ItemType
      <3>2. d = CloseItem(c, k, m) /\ d \in J
        BY <1>1, <1>5, <2>1 DEF CallSteps
      <3> HIDE DEF m, d
      <3>3. CloseItem(c, k, m).item[k].state # "none" /\ \A j \in Items : j # k => CloseItem(c, k, m).item[j] = c.item[j]
        BY <1>1, <1>6, <2>1, <3>1, CloseItemEffect
      <3>4. QED
        BY <2>1, <3>2, <3>3
    <2>2. CASE ~(t.args = "last" /\ c.item[k].state = "open")
      BY <1>1, <1>3, <1>5, <2>2
    <2>3. QED
      BY <2>1, <2>2
  <1> HIDE DEF d
  <1>8. SameOthers(a, d, k)
    BY <1>3, <1>5, <1>7 DEF SameOthers
  <1>9. d.item[k].state = "closed" => a.item[k].state = "closed" \/ t.args = "last"
    BY <1>1, <1>3, <1>5, <1>7
  <1>10. QED
    BY <1>2, <1>7, <1>8, <1>9 DEF k, Touched

\* What all entries of a chunk leave behind.
Worked(a, b, u) ==
  /\ \A k \in Items : (\A i \in DOMAIN u : u[i].call # k) => b.item[k] = a.item[k]
  /\ \A i \in DOMAIN u :
       LET k == u[i].call
       IN  /\ b.item[k].state # "none"
           /\ b.item[k].state = "closed" => a.item[k].state = "closed" \/ u[i].args = "last"

\* All entries of a chunk, each of a call of its own.
LEMMA ToolEntriesLead ==
  ASSUME NEW J, NEW V, CallSteps(J, V), NEW a \in J, NEW u \in Seq(ToolType),
         \A i \in DOMAIN u : Fits(a, u[i], V),
         \A i, j \in DOMAIN u : i # j => u[i].call # u[j].call
  PROVE  ToolEntries(a, u) \in J /\ Worked(a, ToolEntries(a, u), u)
  <1> DEFINE n == Len(u)
             S == ResponsesType
             Turn(x, i) == ToolEntry(x, u[i])
             F == [p \in S \X (1..n) |-> Turn(p[1], p[2])]
             Def(h) == h = [i \in 0..n |-> IF i = 0 THEN a ELSE Turn(h[i - 1], i)]
  <1>1. n \in Nat /\ DOMAIN u = 1..n /\ \A i \in 1..n : u[i] \in ToolType
    BY ElementOfSeq, LenProperties
  <1>2. \A x \in S : \A i \in 1..n : Turn(x, i) \in S
    BY <1>1, ToolEntryEffect
  <1>3. ToolEntries(a, u) = (CHOOSE h : Def(h))[n]
    BY DEF ToolEntries
  <1>4. \A x \in S : \A i \in 1..n : F[<<x, i>>] = Turn(x, i)
    <2> HIDE DEF Turn, n, S
    <2>1. QED
      OBVIOUS
  <1> HIDE DEF F, Turn, n, S
  <1>5. PICK g \in [0..n -> S] : g[0] = a /\ \A i \in 1..n : g[i] = F[<<g[i - 1], i>>]
    <2>1. \A x \in S : \A i \in 1..n : F[<<x, i>>] \in S
      BY <1>2, <1>4
    <2>2. a \in S
      BY DEF S, CallSteps
    <2>3. \E g : Stepwise(g, S, a, n, F)
      BY <1>1, <2>1, <2>2, StepwiseDef
    <2>4. QED
      BY <2>3 DEF Stepwise
  <1>6. Def(g)
    <2>1. ASSUME NEW i \in 0..n PROVE g[i] = IF i = 0 THEN a ELSE Turn(g[i - 1], i)
      <3>1. CASE i = 0
        BY <1>5, <3>1
      <3>2. CASE i # 0
        <4>1. i \in 1..n /\ g[i - 1] \in S
          BY <1>1, <1>5, <3>2
        <4>2. QED
          BY <1>4, <1>5, <3>2, <4>1
      <3>3. QED
        BY <3>1, <3>2
    <2>2. QED
      BY <1>5, <2>1
  <1>7. ASSUME NEW h, Def(h) PROVE h[n] \in J /\ Worked(a, h[n], u)
    <2>1. h[0] = a /\ \A i \in 1..n : h[i] = Turn(h[i - 1], i)
      BY <1>1, <1>7
    <2> DEFINE Left(x, i) == \A k \in Items : (\A j \in 1..i : u[j].call # k) => x.item[k] = a.item[k]
               Done(x, i) == \A j \in 1..i :
                               /\ x.item[u[j].call].state # "none"
                               /\ x.item[u[j].call].state = "closed" =>
                                    a.item[u[j].call].state = "closed" \/ u[j].args = "last"
               Good == {i \in 0..n : h[i] \in J /\ Left(h[i], i) /\ Done(h[i], i)}
    <2>2. 0 \in Good
      <3>1. Left(a, 0) /\ Done(a, 0)
        OBVIOUS
      <3>2. QED
        BY <1>1, <2>1, <3>1
    <2>3. ASSUME NEW i \in 0..(n - 1), i \in Good PROVE i + 1 \in Good
      <3>1. i + 1 \in 1..n /\ (i + 1) - 1 = i /\ i \in Nat /\ i + 1 \in 0..n /\ \A j \in 1..(i + 1) : j # i + 1 => j \in 1..i
        BY <1>1, <2>3
      <3> DEFINE x == h[i]
                 t == u[i + 1]
                 y == ToolEntry(x, t)
      <3>2. x \in J /\ Left(x, i) /\ Done(x, i)
        BY <2>3
      <3>3. h[i + 1] = y /\ t \in ToolType
        BY <1>1, <2>1, <3>1 DEF Turn
      <3>4. \A j \in 1..i : u[j].call # t.call
        <4>1. \A j \in 1..i : j \in DOMAIN u /\ i + 1 \in DOMAIN u /\ j # i + 1
          BY <1>1, <3>1
        <4>2. QED
          BY <4>1
      <3>5. t.call \in Items /\ \A j \in 1..i : u[j].call \in Items
        <4>1. \A j \in 1..i : u[j] \in ToolType
          BY <1>1, <3>1
        <4>2. QED
          BY <3>3, <4>1, ItemKinds DEF ToolType
      <3>6. x.item[t.call] = a.item[t.call]
        BY <3>2, <3>4, <3>5
      <3>7. Fits(x, t, V)
        <4>1. Fits(a, t, V)
          BY <1>1, <3>1
        <4>2. QED
          BY <3>6, <4>1 DEF Fits
      <3> HIDE DEF x, t, Left, Done
      <3>8. /\ y \in J /\ Touched(x, y, t.call)
            /\ y.item[t.call].state = "closed" => x.item[t.call].state = "closed" \/ t.args = "last"
        BY <3>2, <3>3, <3>7, ToolEntryLeads
      <3> HIDE DEF y
      <3>9. Left(y, i + 1)
        <4>1. SUFFICES ASSUME NEW k \in Items, \A j \in 1..(i + 1) : u[j].call # k
                       PROVE  y.item[k] = a.item[k]
          BY DEF Left
        <4>2. t.call # k /\ \A j \in 1..i : u[j].call # k
          BY <3>1, <4>1 DEF t
        <4>3. QED
          BY <3>2, <3>8, <4>2 DEF Left, Touched, SameOthers
      <3>10. Done(y, i + 1)
        <4>1. SUFFICES ASSUME NEW j \in 1..(i + 1)
                       PROVE  /\ y.item[u[j].call].state # "none"
                              /\ y.item[u[j].call].state = "closed" =>
                                   a.item[u[j].call].state = "closed" \/ u[j].args = "last"
          BY DEF Done
        <4>2. CASE j = i + 1
          <5>1. u[j] = t
            BY <4>2 DEF t
          <5>2. QED
            BY <3>6, <3>8, <5>1 DEF Touched
        <4>3. CASE j # i + 1
          <5>1. j \in 1..i
            BY <3>1, <4>3
          <5>2. y.item[u[j].call] = x.item[u[j].call]
            BY <3>4, <3>5, <3>8, <5>1 DEF Touched, SameOthers
          <5>3. QED
            BY <3>2, <5>1, <5>2 DEF Done
        <4>4. QED
          BY <4>2, <4>3
      <3>11. QED
        BY <3>1, <3>3, <3>8, <3>9, <3>10
    <2> HIDE DEF Good
    <2>4. \A i \in 0..n : i \in Good
      BY <1>1, <2>2, <2>3, UpToInduction
    <2>5. n \in Good
      BY <1>1, <2>4
    <2>6. h[n] \in J /\ Left(h[n], n) /\ Done(h[n], n)
      BY <2>5 DEF Good
    <2>7. QED
      BY <1>1, <2>6 DEF Worked
  <1> HIDE DEF Def
  <1>8. Def(CHOOSE h : Def(h))
    BY <1>6
  <1>9. QED
    BY <1>3, <1>7, <1>8

\* The calls that never parsed: none is left that needs to be closed.
LEMMA CloseCallsLead ==
  ASSUME NEW J, NEW V, CallSteps(J, V), NEW a \in J
  PROVE  LET b == CloseCalls(a)
         IN  /\ b \in J /\ \A k \in ToSet(a.calls) : ~NeedsClose(b, k)
             /\ \A k \in Items : k \notin ToSet(a.calls) => b.item[k] = a.item[k]
  <1> DEFINE u == a.calls
             n == Len(u)
             S == ResponsesType
             Turn(x, i) == IF NeedsClose(x, u[i]) THEN CloseItem(x, u[i], x.item[u[i]].size) ELSE x
             F == [p \in S \X (1..n) |-> Turn(p[1], p[2])]
             Def(h) == h = [i \in 0..n |-> IF i = 0 THEN a ELSE Turn(h[i - 1], i)]
  <1>0. u \in Seq(Calls) /\ a \in ResponsesType
    BY DEF CallSteps, ResponsesType
  <1>1. n \in Nat /\ DOMAIN u = 1..n /\ \A i \in 1..n : u[i] \in Calls /\ u[i] \in Items
    <2>1. n \in Nat /\ DOMAIN u = 1..n /\ \A i \in 1..n : u[i] \in Calls
      BY <1>0, ElementOfSeq, LenProperties
    <2> HIDE DEF u, n
    <2>2. QED
      BY <2>1, ItemKinds
  <1>z. ASSUME NEW x \in S, NEW k \in Items, x.item[k].state = "open"
        PROVE  LET d == CloseItem(x, k, x.item[k].size)
               IN  /\ d \in S /\ SameOthers(x, d, k) /\ ~NeedsClose(d, k)
    <2> DEFINE m == x.item[k].size
    <2>1. m \in Nat /\ x.item[k] \in ItemType /\ x.item \in [Items -> ItemType]
      BY DEF ResponsesType, ItemType
    <2>2. CloseItem(x, k, m).item = [x.item EXCEPT ![k] = [x.item[k] EXCEPT !.state = "closed"]]
      BY <2>1 DEF CloseItem, Emit, ResponsesType
    <2> HIDE DEF m
    <2>3. /\ CloseItem(x, k, m) \in ResponsesType /\ \A j \in Items : j # k => CloseItem(x, k, m).item[j] = x.item[j]
      BY <1>z, <2>1, CloseItemEffect
    <2> DEFINE d == CloseItem(x, k, m)
    <2> HIDE DEF d
    <2>4. d.item[k].state = "closed"
      BY <2>1, <2>2 DEF d, ItemType
    <2>5. QED
      BY <2>3, <2>4 DEF m, d, NeedsClose, SameOthers
  <1>2. ASSUME NEW x \in S, NEW i \in 1..n
        PROVE  /\ Turn(x, i) \in S /\ (x \in J => Turn(x, i) \in J)
               /\ SameOthers(x, Turn(x, i), u[i]) /\ ~NeedsClose(Turn(x, i), u[i])
               /\ NeedsClose(x, u[i]) \/ Turn(x, i) = x
    <2> DEFINE k == u[i]
    <2>1. k \in Calls /\ k \in Items
      BY <1>1
    <2>2. CASE NeedsClose(x, k)
      <3>1. x.item[k].state = "open" /\ Turn(x, i) = CloseItem(x, k, x.item[k].size)
        BY <2>2 DEF NeedsClose
      <3>2. x \in J => Turn(x, i) \in J
        BY <2>1, <3>1 DEF CallSteps
      <3> HIDE DEF k, Turn
      <3>3. LET d == CloseItem(x, k, x.item[k].size)
            IN  d \in S /\ SameOthers(x, d, k) /\ ~NeedsClose(d, k)
        BY <1>z, <2>1, <3>1
      <3>4. QED
        BY <2>2, <3>1, <3>2, <3>3 DEF k
    <2>3. CASE ~NeedsClose(x, k)
      BY <2>3 DEF SameOthers
    <2>4. QED
      BY <2>2, <2>3
  <1>3. CloseCalls(a) = (CHOOSE h : Def(h))[n]
    BY DEF CloseCalls
  <1>4. \A x \in S : \A i \in 1..n : F[<<x, i>>] = Turn(x, i)
    <2> HIDE DEF Turn, n, S
    <2>1. QED
      OBVIOUS
  <1> HIDE DEF F, Turn, n, S, u
  <1>5. PICK g \in [0..n -> S] : g[0] = a /\ \A i \in 1..n : g[i] = F[<<g[i - 1], i>>]
    <2>0. \A x \in S : \A i \in 1..n : Turn(x, i) \in S
      BY <1>2
    <2>1. \A x \in S : \A i \in 1..n : F[<<x, i>>] \in S
      BY <2>0, <1>4
    <2>2. a \in S
      BY <1>0 DEF S
    <2>3. \E g : Stepwise(g, S, a, n, F)
      BY <1>1, <2>1, <2>2, StepwiseDef
    <2>4. QED
      BY <2>3 DEF Stepwise
  <1>6. Def(g)
    <2>1. ASSUME NEW i \in 0..n PROVE g[i] = IF i = 0 THEN a ELSE Turn(g[i - 1], i)
      <3>1. CASE i = 0
        BY <1>5, <3>1
      <3>2. CASE i # 0
        <4>1. i \in 1..n /\ g[i - 1] \in S
          BY <1>1, <1>5, <3>2
        <4>2. QED
          BY <1>4, <1>5, <3>2, <4>1
      <3>3. QED
        BY <3>1, <3>2
    <2>2. QED
      BY <1>5, <2>1
  <1>7. ASSUME NEW h, Def(h)
        PROVE  /\ h[n] \in J /\ \A i \in 1..n : ~NeedsClose(h[n], u[i])
               /\ \A k \in Items : (\A i \in 1..n : u[i] # k) => h[n].item[k] = a.item[k]
    <2>1. h[0] = a /\ \A i \in 1..n : h[i] = Turn(h[i - 1], i)
      BY <1>1, <1>7
    <2> DEFINE Shut(x, i) == \A j \in 1..i : ~NeedsClose(x, u[j])
               Left(x) == \A k \in Items : (\A j \in 1..n : u[j] # k) => x.item[k] = a.item[k]
               Good == {i \in 0..n : h[i] \in J /\ Shut(h[i], i) /\ Left(h[i])}
    <2>2. 0 \in Good
      <3>1. Shut(a, 0) /\ Left(a)
        OBVIOUS
      <3>2. QED
        BY <1>1, <2>1, <3>1
    <2>3. ASSUME NEW i \in 0..(n - 1), i \in Good PROVE i + 1 \in Good
      <3>1. i + 1 \in 1..n /\ (i + 1) - 1 = i /\ i + 1 \in 0..n /\ \A j \in 1..(i + 1) : j # i + 1 => j \in 1..i
        BY <1>1, <2>3
      <3> DEFINE x == h[i]
                 y == h[i + 1]
                 l == u[i + 1]
      <3>2. x \in J /\ Shut(x, i) /\ Left(x) /\ x \in S
        BY <2>3 DEF S, CallSteps
      <3>3. y = Turn(x, i + 1) /\ l \in Items
        BY <1>1, <2>1, <3>1
      <3>4. y \in J /\ SameOthers(x, y, l) /\ ~NeedsClose(y, l)
        BY <1>2, <3>1, <3>2, <3>3
      <3> HIDE DEF x, y, Shut, Left
      <3>5. Left(y)
        <4>1. \A k \in Items : (\A j \in 1..n : u[j] # k) => k # l
          BY <3>1 DEF l
        <4>2. QED
          BY <3>2, <3>4, <4>1 DEF Left, SameOthers
      <3>6. Shut(y, i + 1)
        <4>1. SUFFICES ASSUME NEW j \in 1..(i + 1) PROVE ~NeedsClose(y, u[j])
          BY DEF Shut
        <4>2. CASE u[j] = l
          BY <3>4, <4>2
        <4>3. CASE u[j] # l
          <5>1. j \in 1..i /\ u[j] \in Items
            <6>1. j # i + 1
              BY <4>3 DEF l
            <6>2. j \in 1..i /\ j \in 1..n
              BY <1>1, <3>1, <6>1
            <6>3. QED
              BY <1>1, <6>2
          <5>2. y.item[u[j]] = x.item[u[j]]
            BY <3>4, <4>3, <5>1 DEF SameOthers
          <5>3. ~NeedsClose(x, u[j])
            BY <3>2, <5>1 DEF Shut
          <5>4. QED
            BY <5>2, <5>3 DEF NeedsClose
        <4>4. QED
          BY <4>2, <4>3
      <3>7. QED
        BY <3>1, <3>4, <3>5, <3>6 DEF y
    <2> HIDE DEF Good
    <2>4. \A i \in 0..n : i \in Good
      BY <1>1, <2>2, <2>3, UpToInduction
    <2>5. n \in Good
      BY <1>1, <2>4
    <2>6. QED
      BY <2>5 DEF Good
  <1> HIDE DEF Def
  <1>8. Def(CHOOSE h : Def(h))
    BY <1>6
  <1>9. ToSet(u) = {u[i] : i \in 1..n}
    BY <1>1 DEF ToSet
  <1>10. QED
    BY <1>3, <1>7, <1>8, <1>9 DEF u

-----------------------------------------------------------------------------
(* The Responses API: books that are kept.                                 *)

\* What holds of the adapter before its end marker. The reasoning and the text are
\* added for a piece.
Kept(a) ==
  /\ a \in ResponsesType /\ Booked(a) /\ Listed(a) /\ At(a.sent, Ends) = {}
  /\ \A k \in {"reasoning", "text"} : a.item[k].state # "none" => a.item[k].size > 0

\* Only the items and the events count.
LEMMA KeptRest ==
  ASSUME NEW a, Kept(a), NEW b \in ResponsesType, b.item = a.item, b.sent = a.sent, b.calls = a.calls, b.next = a.next
  PROVE  Kept(b)
  <1>1. Tracked(b) /\ Indexed(b)
    BY DEF Kept, Booked, Tracked, Indexed
  <1>2. Listed(b)
    BY DEF Kept, Listed, Opened
  <1>3. QED
    BY <1>1, <1>2 DEF Kept, Booked

\* An event that is not the end marker.
LEMMA EndsAppend ==
  ASSUME NEW s \in Seq(ResponseEvents), NEW e \in ResponseEvents, e.type # "end", At(s, Ends) = {}
  PROVE  At(Append(s, e), Ends) = {}
  <1>1. At(Append(s, e), Ends) = At(s, Ends) \cup (IF e \in Ends THEN {Len(s) + 1} ELSE {})
    BY PlacesAppend
  <1>2. e \notin Ends
    BY DEF Ends
  <1>3. QED
    BY <1>1, <1>2

\* The types of the events of items.
LEMMA ItemEvent ==
  ASSUME NEW type, NEW k, NEW n, NEW m
  PROVE  Event(type, k, n, m).type = type /\ Event(type, k, n, m).kind = k /\ Event(type, k, n, m).index = n
         /\ Event(type, k, n, m).size = m
  BY DEF Event

\* Adding an item other than a call, and any piece and end of an item.
LEMMA KeptSteps ==
  ASSUME NEW a \in ResponsesType, NEW k \in Items, Booked(a), Listed(a), At(a.sent, Ends) = {}
  PROVE  /\ LET b == AddItem(a, k)
            IN  k \notin Calls /\ a.item[k].state = "none" => Listed(b) /\ At(b.sent, Ends) = {}
         /\ LET b == Grow(a, k)
            IN  a.item[k].state # "none" => Listed(b) /\ At(b.sent, Ends) = {}
         /\ \A m \in Nat : LET b == CloseItem(a, k, m)
                           IN  a.item[k].state = "open" => Listed(b) /\ At(b.sent, Ends) = {}
  <1>0. a.sent \in Seq(ResponseEvents) /\ a.item[k] \in ItemType
    BY DEF ResponsesType
  <1>1. ASSUME k \notin Calls, a.item[k].state = "none"
        PROVE  Listed(AddItem(a, k)) /\ At(AddItem(a, k).sent, Ends) = {}
    <2> DEFINE b == AddItem(a, k)
               e == Event("added", k, a.next, 0)
    <2>1. /\ b \in ResponsesType /\ SameOthers(a, b, k) /\ b.calls = a.calls
          /\ b.sent = Append(a.sent, e) /\ e \in ResponseEvents
      BY <1>1, AddItemBooked
    <2>2. e.type = "added"
      BY ItemEvent
    <2> HIDE DEF b, e
    <2>3. Opened(b) = Opened(a)
      BY <1>1, <2>1, ItemKinds DEF Opened, SameOthers
    <2>4. At(b.sent, Ends) = {}
      BY <1>0, <2>1, <2>2, EndsAppend
    <2>5. QED
      BY <2>1, <2>3, <2>4 DEF Listed, b
  <1>2. ASSUME a.item[k].state # "none"
        PROVE  Listed(Grow(a, k)) /\ At(Grow(a, k).sent, Ends) = {}
    <2> DEFINE b == Grow(a, k)
               e == Event("delta", k, a.item[k].index, 1)
    <2>1. /\ b \in ResponsesType /\ b.calls = a.calls
          /\ b.sent = Append(a.sent, e) /\ e \in ResponseEvents
      BY <1>2, GrowBooked
    <2>2. e.type = "delta"
      BY ItemEvent
    <2>3. \A j \in Items : b.item[j].state = a.item[j].state
      BY GrowEffect
    <2> HIDE DEF b, e
    <2>4. Opened(b) = Opened(a)
      BY <2>3, ItemKinds DEF Opened
    <2>5. At(b.sent, Ends) = {}
      BY <1>0, <2>1, <2>2, EndsAppend
    <2>6. QED
      BY <2>1, <2>4, <2>5 DEF Listed, b
  <1>3. ASSUME NEW m \in Nat, a.item[k].state = "open"
        PROVE  Listed(CloseItem(a, k, m)) /\ At(CloseItem(a, k, m).sent, Ends) = {}
    <2> DEFINE b == CloseItem(a, k, m)
               e == Event("done", k, a.item[k].index, m)
    <2>1. /\ b \in ResponsesType /\ SameOthers(a, b, k) /\ b.calls = a.calls
          /\ b.item[k] = [a.item[k] EXCEPT !.state = "closed"]
          /\ b.sent = Append(a.sent, e) /\ e \in ResponseEvents
      BY <1>3, CloseItemBooked
    <2>2. e.type = "done"
      BY ItemEvent
    <2> HIDE DEF b, e
    <2>3. b.item[k].state = "closed"
      BY <1>0, <2>1 DEF ItemType
    <2>4. Opened(b) = Opened(a)
      BY <1>3, <2>1, <2>3, ItemKinds DEF Opened, SameOthers
    <2>5. At(b.sent, Ends) = {}
      BY <1>0, <2>1, <2>2, EndsAppend
    <2>6. QED
      BY <2>1, <2>4, <2>5 DEF Listed, b
  <1>4. QED
    BY <1>1, <1>2, <1>3

\* A call that starts.
LEMMA StartCallKept ==
  ASSUME NEW a, Kept(a), NEW k \in Calls, a.item[k].state = "none"
  PROVE  Kept(StartCall(a, k))
  <1> DEFINE x == AddItem(a, k)
             y == StartCall(a, k)
             e == Event("added", k, a.next, 0)
  <1>0. k \in Items /\ k \notin {"reasoning", "text"} /\ a \in ResponsesType /\ Booked(a) /\ a.sent \in Seq(ResponseEvents)
    BY ItemKinds DEF Kept, ResponsesType
  <1>1. /\ x \in ResponsesType /\ Booked(x) /\ SameOthers(a, x, k) /\ x.calls = a.calls
        /\ x.item[k] = [state |-> "open", index |-> a.next, size |-> 0]
        /\ x.sent = Append(a.sent, e) /\ e \in ResponseEvents
    BY <1>0, AddItemBooked
  <1>2. e.type = "added"
    BY ItemEvent
  <1>3. x.item[k].state = "open"
    BY <1>1
  <1>4. Append(x.calls, k) \in Seq(Calls) /\ x.calls \in Seq(Calls)
    <2>1. x.calls \in Seq(Calls)
      BY <1>1 DEF ResponsesType
    <2>2. QED
      BY <2>1, AppendFacts
  <1>5. y \in ResponsesType /\ y.item = x.item /\ y.sent = x.sent /\ y.next = x.next /\ y.calls = Append(x.calls, k)
    BY <1>1, <1>4 DEF StartCall, ResponsesType
  <1> HIDE DEF x, y, e
  <1>6. Tracked(y) /\ Indexed(y)
    BY <1>1, <1>5 DEF Booked, Tracked, Indexed
  <1>7. Listed(y)
    <2>1. ToSet(Append(x.calls, k)) = ToSet(x.calls) \cup {k}
      <3>1. /\ DOMAIN x.calls = 1..Len(x.calls) /\ DOMAIN Append(x.calls, k) = 1..(Len(x.calls) + 1) /\ Len(x.calls) \in Nat
            /\ \A i \in 1..Len(x.calls) : Append(x.calls, k)[i] = x.calls[i]
            /\ Append(x.calls, k)[Len(x.calls) + 1] = k
        BY <1>4, AppendFacts
      <3>2. QED
        BY <3>1 DEF ToSet
    <2>2. Opened(y) = Opened(a) \cup {k}
      BY <1>1, <1>3, <1>5, ItemKinds DEF Opened, SameOthers
    <2>3. QED
      BY <1>1, <1>5, <2>1, <2>2 DEF Listed, Kept
  <1>8. At(y.sent, Ends) = {}
    BY <1>0, <1>1, <1>2, <1>5, EndsAppend DEF Kept
  <1>9. \A j \in {"reasoning", "text"} : y.item[j] = a.item[j]
    BY <1>0, <1>1, <1>5, ItemKinds DEF SameOthers
  <1>10. QED
    BY <1>5, <1>6, <1>7, <1>8, <1>9 DEF Kept, Booked, y

\* What happens to calls keeps the books.
KeptSet == {x \in ResponsesType : Kept(x)}
\* Starting, growing and closing calls keeps the books.
LEMMA CallsKept == CallSteps(KeptSet, Calls)
  <1> SUFFICES ASSUME NEW x \in KeptSet, NEW k \in Calls
               PROVE  /\ x.item[k].state = "none" => StartCall(x, k) \in KeptSet
                      /\ x.item[k].state # "none" => Grow(x, k) \in KeptSet
                      /\ x.item[k].state = "open" => CloseItem(x, k, x.item[k].size) \in KeptSet
    BY DEF CallSteps, KeptSet
  <1>0. /\ k \in Items /\ k \notin {"reasoning", "text"} /\ x \in ResponsesType /\ Kept(x)
        /\ Booked(x) /\ Listed(x) /\ At(x.sent, Ends) = {}
    BY ItemKinds DEF KeptSet, Kept
  <1>1. x.item[k].state = "none" => StartCall(x, k) \in KeptSet
    BY <1>0, StartCallKept DEF KeptSet, Kept
  <1>2. ASSUME x.item[k].state # "none" PROVE Grow(x, k) \in KeptSet
    <2> DEFINE b == Grow(x, k)
    <2>1. b \in ResponsesType /\ Booked(b) /\ SameOthers(x, b, k)
      BY <1>0, <1>2, GrowBooked
    <2>2. Listed(b) /\ At(b.sent, Ends) = {}
      BY <1>0, <1>2, KeptSteps
    <2> HIDE DEF b
    <2>3. \A j \in {"reasoning", "text"} : b.item[j] = x.item[j]
      BY <1>0, <2>1, ItemKinds DEF SameOthers
    <2>4. b \in KeptSet
      BY <1>0, <2>1, <2>2, <2>3 DEF Kept, KeptSet
    <2>5. QED
      BY <2>4 DEF b
  <1>3. ASSUME x.item[k].state = "open" PROVE CloseItem(x, k, x.item[k].size) \in KeptSet
    <2> DEFINE m == x.item[k].size
               b == CloseItem(x, k, m)
    <2>0. m \in Nat
      BY <1>0 DEF ResponsesType, ItemType
    <2> HIDE DEF m
    <2>1. b \in ResponsesType /\ Booked(b) /\ SameOthers(x, b, k)
      BY <1>0, <1>3, <2>0, CloseItemBooked
    <2>2. Listed(b) /\ At(b.sent, Ends) = {}
      BY <1>0, <1>3, <2>0, KeptSteps
    <2> HIDE DEF b
    <2>3. \A j \in {"reasoning", "text"} : b.item[j] = x.item[j]
      BY <1>0, <2>1, ItemKinds DEF SameOthers
    <2>4. b \in KeptSet
      BY <1>0, <2>1, <2>2, <2>3 DEF Kept, KeptSet
    <2>5. QED
      BY <2>4 DEF b, m
  <1>4. QED
    BY <1>1, <1>2, <1>3

\* The reasoning and the text are closed when they are open, and then not any more.
LEMMA CloseKept ==
  ASSUME NEW a, Kept(a), NEW k \in {"reasoning", "text"}
  PROVE  LET b == IF k = "reasoning" THEN CloseReasoning(a) ELSE CloseText(a)
         IN  /\ Kept(b) /\ SameRest(a, b) /\ SameOthers(a, b, k) /\ b.item[k].state # "open"
             /\ b.item[k].size = a.item[k].size /\ (b.item[k].state = "none" <=> a.item[k].state = "none")
             /\ b.calls = a.calls
  <1> DEFINE b == IF k = "reasoning" THEN CloseReasoning(a) ELSE CloseText(a)
             m == IF k = "reasoning" THEN a.item["reasoning"].size ELSE a.full
  <1>1. k \in Items /\ a \in ResponsesType /\ m \in Nat /\ a.item[k] \in ItemType
        /\ Booked(a) /\ Listed(a) /\ At(a.sent, Ends) = {}
    BY ItemKinds DEF Kept, ResponsesType, ItemType
  <1>2. b = IF a.item[k].state = "open" THEN CloseItem(a, k, m) ELSE a
    BY DEF CloseReasoning, CloseText
  <1> HIDE DEF b, m
  <1>3. CASE a.item[k].state = "open"
    <2> DEFINE d == CloseItem(a, k, m)
    <2>1. /\ d \in ResponsesType /\ Booked(d) /\ SameRest(a, d) /\ SameOthers(a, d, k)
          /\ d.item[k] = [a.item[k] EXCEPT !.state = "closed"] /\ d.calls = a.calls
      BY <1>1, <1>3, CloseItemBooked
    <2>2. Listed(d) /\ At(d.sent, Ends) = {}
      BY <1>1, <1>3, KeptSteps
    <2> HIDE DEF d
    <2>3. d.item[k].state = "closed" /\ d.item[k].size = a.item[k].size
      BY <1>1, <2>1 DEF ItemType
    <2>4. Kept(d)
      <3>1. \A j \in {"reasoning", "text"} : d.item[j].state # "none" => d.item[j].size > 0
        BY <1>3, <2>1, <2>3, ItemKinds DEF Kept, SameOthers
      <3>2. QED
        BY <2>1, <2>2, <3>1 DEF Kept
    <2>5. b = d
      BY <1>2, <1>3 DEF d
    <2>6. QED
      BY <1>3, <2>1, <2>3, <2>4, <2>5 DEF b
  <1>4. CASE a.item[k].state # "open"
    BY <1>2, <1>4 DEF SameRest, SameOthers, b
  <1>5. QED
    BY <1>3, <1>4

\* A piece of reasoning or of text, in an item that is added for it.
LEMMA PieceKept ==
  ASSUME NEW a, Kept(a), NEW k \in {"reasoning", "text"}
  PROVE  LET b == IF a.item[k].state = "none" THEN AddItem(a, k) ELSE a
             d == Grow(b, k)
         IN  /\ Kept(d) /\ SameRest(a, d) /\ SameOthers(a, d, k) /\ d.calls = a.calls
             /\ d.item[k].size = a.item[k].size + 1
             /\ d.item[k].state = IF a.item[k].state = "none" THEN "open" ELSE a.item[k].state
  <1> DEFINE b == IF a.item[k].state = "none" THEN AddItem(a, k) ELSE a
             d == Grow(b, k)
  <1>1. k \in Items /\ k \notin Calls /\ a \in ResponsesType /\ a.item[k] \in ItemType
        /\ Booked(a) /\ Listed(a) /\ At(a.sent, Ends) = {}
    BY ItemKinds DEF Kept, ResponsesType
  <1>2. /\ b \in ResponsesType /\ Booked(b) /\ Listed(b) /\ At(b.sent, Ends) = {}
        /\ SameRest(a, b) /\ SameOthers(a, b, k) /\ b.calls = a.calls
        /\ b.item[k].size = a.item[k].size
        /\ b.item[k].state = (IF a.item[k].state = "none" THEN "open" ELSE a.item[k].state)
    <2>1. CASE a.item[k].state = "none"
      <3> DEFINE x == AddItem(a, k)
      <3>1. /\ x \in ResponsesType /\ Booked(x) /\ SameRest(a, x) /\ SameOthers(a, x, k) /\ x.calls = a.calls
            /\ x.item[k] = [state |-> "open", index |-> a.next, size |-> 0]
        BY <1>1, <2>1, AddItemBooked
      <3>2. Listed(x) /\ At(x.sent, Ends) = {}
        BY <1>1, <2>1, KeptSteps
      <3>3. b = x
        BY <2>1
      <3> HIDE DEF x, b
      <3>4. x.item[k].state = "open" /\ x.item[k].size = 0
        BY <3>1
      <3>5. a.item[k].size = 0
        <4>1. At(a.sent, EventsFor(k)) = {} /\ a.item[k].size = Count(a.sent, ItemDeltas(k))
          BY <1>1, <2>1 DEF Booked, Tracked, Tells
        <4>2. At(a.sent, ItemDeltas(k)) = {}
          BY <4>1 DEF At, EventsFor, ItemDeltas
        <4>3. QED
          BY <4>1, <4>2, FS_EmptySet DEF Count
      <3>6. QED
        BY <2>1, <3>1, <3>2, <3>3, <3>4, <3>5
    <2>2. CASE a.item[k].state # "none"
      BY <1>1, <2>2 DEF SameRest, SameOthers
    <2>3. QED
      BY <2>1, <2>2
  <1>3. b.item[k].state # "none" /\ b.item[k] \in ItemType
    BY <1>1, <1>2 DEF ResponsesType
  <1> HIDE DEF b
  <1>4. /\ d \in ResponsesType /\ Booked(d) /\ SameRest(b, d) /\ SameOthers(b, d, k) /\ d.calls = b.calls
        /\ d.item[k] = [b.item[k] EXCEPT !.size = @ + 1]
    BY <1>1, <1>2, <1>3, GrowBooked
  <1>5. Listed(d) /\ At(d.sent, Ends) = {}
    BY <1>1, <1>2, <1>3, KeptSteps
  <1> HIDE DEF d
  <1>6. d.item[k].size = b.item[k].size + 1 /\ d.item[k].state = b.item[k].state /\ b.item[k].size \in Nat
    BY <1>3, <1>4 DEF ItemType
  <1>7. SameRest(a, d) /\ SameOthers(a, d, k)
    BY <1>2, <1>4 DEF SameRest, SameOthers
  <1>8. \A j \in {"reasoning", "text"} : d.item[j].state # "none" => d.item[j].size > 0
    BY <1>6, <1>7, ItemKinds DEF Kept, SameOthers
  <1>9. Kept(d)
    BY <1>4, <1>5, <1>8 DEF Kept
  <1>10. QED
    BY <1>2, <1>4, <1>6, <1>7, <1>9 DEF b, d

-----------------------------------------------------------------------------
(* The Responses API: what the completed response lists.                   *)

\* The whole of an item.
Whole(a, k) == [kind |-> k, size |-> IF k = "text" THEN a.full ELSE a.item[k].size]

\* The items of K that were added are in the output.
Lists(output, a, K) == \A k \in K : a.item[k].state # "none" => Whole(a, k) \in ToSet(output)

\* Every item that was added is done, but for an empty function call.
Shut(a) ==
  \A k \in Items :
    a.item[k].state # "none" /\ (k \in Functions => a.item[k].size > 0) => At(a.sent, DonesOf(k)) # {}

\* Once completed there is the completed response last.
Concluded(a, K) ==
  IF a.completed
  THEN LET n == Len(a.sent)
       IN  /\ At(a.sent, Completions) = {n}
           /\ a.sent[n].output = <<Upstream>> \/ Lists(a.sent[n].output, a, K)
  ELSE At(a.sent, Completions) = {}

\* The elements of two sequences in a row.
LEMMA ToSetConcat ==
  ASSUME NEW S, NEW s \in Seq(S), NEW t \in Seq(S)
  PROVE  ToSet(s \o t) = ToSet(s) \cup ToSet(t)
  <1>1. /\ s \o t \in Seq(S) /\ Len(s \o t) = Len(s) + Len(t) /\ Len(s) \in Nat /\ Len(t) \in Nat
        /\ \A i \in 1..(Len(s) + Len(t)) : (s \o t)[i] = IF i <= Len(s) THEN s[i] ELSE t[i - Len(s)]
        /\ DOMAIN s = 1..Len(s) /\ DOMAIN t = 1..Len(t) /\ DOMAIN (s \o t) = 1..Len(s \o t)
    BY ConcatProperties, LenProperties
  <1> DEFINE l == Len(s)
             m == Len(t)
             r == s \o t
  <1>2. /\ l \in Nat /\ m \in Nat /\ DOMAIN r = 1..(l + m) /\ DOMAIN s = 1..l /\ DOMAIN t = 1..m
        /\ \A i \in 1..(l + m) : r[i] = IF i <= l THEN s[i] ELSE t[i - l]
    BY <1>1
  <1> HIDE DEF l, m, r
  <1>3. ASSUME NEW i \in 1..l PROVE s[i] \in ToSet(r)
    <2>1. i \in 1..(l + m) /\ r[i] = s[i]
      BY <1>2
    <2>2. QED
      BY <1>2, <2>1 DEF ToSet
  <1>4. ASSUME NEW i \in 1..m PROVE t[i] \in ToSet(r)
    <2>1. l + i \in 1..(l + m) /\ r[l + i] = t[i]
      BY <1>2
    <2>2. QED
      BY <1>2, <2>1 DEF ToSet
  <1>5. ASSUME NEW i \in 1..(l + m) PROVE r[i] \in ToSet(s) \cup ToSet(t)
    <2>1. CASE i <= l
      BY <1>2, <2>1 DEF ToSet
    <2>2. CASE ~(i <= l)
      <3>1. i - l \in 1..m /\ r[i] = t[i - l]
        BY <1>2, <2>2
      <3>2. QED
        BY <1>2, <3>1 DEF ToSet
    <2>3. QED
      BY <2>1, <2>2
  <1>6. ToSet(s) = {s[i] : i \in 1..l} /\ ToSet(t) = {t[i] : i \in 1..m} /\ ToSet(r) = {r[i] : i \in 1..(l + m)}
    BY <1>2 DEF ToSet
  <1>7. ToSet(r) = ToSet(s) \cup ToSet(t)
    BY <1>3, <1>4, <1>5, <1>6
  <1>8. QED
    BY <1>7 DEF r

\* The output lists the calls, the text when it is given, and the reasoning when
\* all of it is given.
LEMMA OutputLists ==
  ASSUME NEW a, Kept(a), NEW n \in Nat, NEW x \in Seq(OutputType),
         a.item["text"].state # "none" => Whole(a, "text") \in ToSet(x)
  PROVE  LET o == OutputOf("reasoning", n) \o x \o CallsOutput(a)
         IN  /\ o \in Seq(OutputType)
             /\ Lists(o, a, Items \ {"reasoning"})
             /\ n = a.item["reasoning"].size => Lists(o, a, Items)
  <1> DEFINE o1 == OutputOf("reasoning", n)
             o3 == CallsOutput(a)
             o == o1 \o x \o o3
  <1>1. a \in ResponsesType /\ a.calls \in Seq(Calls)
    BY DEF Kept, ResponsesType
  <1>2. o1 \in Seq(OutputType) /\ o3 \in Seq(OutputType)
    BY <1>1, OutputTypes
  <1>3. n > 0 => [kind |-> "reasoning", size |-> n] \in ToSet(o1)
    <2>1. ASSUME n > 0 PROVE [kind |-> "reasoning", size |-> n] \in ToSet(o1)
      <3> DEFINE e == [kind |-> "reasoning", size |-> n]
      <3>1. o1 = <<e>>
        BY <2>1 DEF OutputOf
      <3> HIDE DEF e, o1
      <3>2. e \in ToSet(<<e>>)
        <4>1. 1 \in DOMAIN <<e>> /\ <<e>>[1] = e
          OBVIOUS
        <4>2. QED
          BY <4>1 DEF ToSet
      <3>3. QED
        BY <3>1, <3>2 DEF e
    <2>2. QED
      BY <2>1
  <1>4. ASSUME NEW k \in Calls, a.item[k].state # "none" PROVE Whole(a, k) \in ToSet(o3)
    <2>1. k \in ToSet(a.calls)
      BY <1>4 DEF Kept, Listed, Opened
    <2>2. PICK i \in DOMAIN a.calls : a.calls[i] = k
      BY <2>1 DEF ToSet
    <2>3. DOMAIN a.calls = 1..Len(a.calls)
      BY <1>1, LenProperties
    <2>4. i \in DOMAIN o3 /\ o3[i] = [kind |-> k, size |-> a.item[k].size]
      BY <2>2, <2>3 DEF CallsOutput
    <2>5. Whole(a, k) = [kind |-> k, size |-> a.item[k].size]
      BY ItemKinds DEF Whole
    <2> HIDE DEF o3
    <2>6. QED
      BY <2>4, <2>5 DEF ToSet
  <1> HIDE DEF o1, o3
  <1>5. o1 \o x \in Seq(OutputType) /\ ToSet(o1 \o x) = ToSet(o1) \cup ToSet(x)
    BY <1>2, ToSetConcat, ConcatProperties
  <1>6. o \in Seq(OutputType) /\ ToSet(o) = ToSet(o1 \o x) \cup ToSet(o3)
    <2> DEFINE y == o1 \o x
    <2>1. y \in Seq(OutputType)
      BY <1>5
    <2> HIDE DEF y
    <2>2. y \o o3 \in Seq(OutputType) /\ ToSet(y \o o3) = ToSet(y) \cup ToSet(o3)
      BY <1>2, <2>1, ToSetConcat, ConcatProperties
    <2>3. QED
      BY <2>2 DEF y
  <1>7. ToSet(o) = ToSet(o1) \cup ToSet(x) \cup ToSet(o3)
    BY <1>5, <1>6
  <1> HIDE DEF o
  <1>8. Lists(o, a, Items \ {"reasoning"})
    <2>1. SUFFICES ASSUME NEW k \in Items \ {"reasoning"}, a.item[k].state # "none"
                   PROVE  Whole(a, k) \in ToSet(o)
      BY DEF Lists
    <2>2. k = "text" \/ k \in Calls
      BY DEF Items
    <2>3. QED
      BY <1>4, <1>7, <2>1, <2>2
  <1>9. ASSUME n = a.item["reasoning"].size PROVE Lists(o, a, Items)
    <2>1. SUFFICES ASSUME NEW k \in Items, a.item[k].state # "none"
                   PROVE  Whole(a, k) \in ToSet(o)
      BY DEF Lists
    <2>2. CASE k = "reasoning"
      <3>1. n > 0
        BY <1>9, <2>1, <2>2 DEF Kept
      <3>2. Whole(a, k) = [kind |-> "reasoning", size |-> n]
        BY <1>9, <2>2 DEF Whole
      <3>3. QED
        BY <1>3, <1>7, <3>1, <3>2
    <2>3. CASE k # "reasoning"
      BY <1>8, <2>1, <2>3 DEF Lists
    <2>4. QED
      BY <2>2, <2>3
  <1>10. QED
    BY <1>6, <1>8, <1>9 DEF o, o1, o3

\* response.completed, last.
LEMMA CompleteKept ==
  ASSUME NEW a, Kept(a), NEW o \in Seq(OutputType), NEW v \in SUBSET AllTokens, At(a.sent, Completions) = {}
  PROVE  LET b == Complete(a, o, v)
         IN  /\ Kept(b) /\ b.completed /\ b.item = a.item /\ b.full = a.full /\ b.calls = a.calls
             /\ b.buffered = a.buffered /\ b.thought = a.thought
             /\ b.sent \in Seq(ResponseEvents) /\ Len(b.sent) \in Nat
             /\ At(b.sent, Completions) = {Len(b.sent)} /\ b.sent[Len(b.sent)].output = o
             /\ \A k \in Items : At(b.sent, DonesOf(k)) = At(a.sent, DonesOf(k))
  <1> DEFINE e0 == Event("completed", "response", 0, 0)
             e == [Telling(e0, v) EXCEPT !.output = o]
             b == Complete(a, o, v)
             l == Len(a.sent) + 1
  <1>1. a \in ResponsesType /\ a.sent \in Seq(ResponseEvents) /\ a.next \in Nat
    BY DEF Kept, ResponsesType
  <1>2. e0 \in ResponseEvents /\ e0.type = "completed" /\ e0.kind = "response"
    <2>1. "response" \in Items \cup {"response"} /\ 0 \in Nat
      OBVIOUS
    <2>2. QED
      BY <2>1, ResponseEvent
  <1> HIDE DEF e0
  <1>3. Telling(e0, v) \in ResponseEvents /\ Telling(e0, v).type = "completed" /\ Telling(e0, v).kind = "response"
    BY <1>2 DEF Telling, ResponseEvents
  <1>4. e \in ResponseEvents /\ e.type = "completed" /\ e.kind = "response" /\ e.output = o
    BY <1>3 DEF ResponseEvents
  <1>5. b.sent = Append(a.sent, e) /\ b.item = a.item /\ b.next = a.next /\ b.calls = a.calls /\ b.full = a.full
        /\ b.completed /\ b.buffered = a.buffered /\ b.thought = a.thought
    BY <1>1 DEF Complete, Emit, ResponsesType, e0
  <1>6. b \in ResponsesType
    BY <1>1, CompleteEffect
  <1> HIDE DEF e, b
  <1>7. "response" \notin Items
    BY CallsAssumption DEF Items
  <1>8. Tracked(b) /\ Indexed(b)
    <2>1. Tracked(b)
      BY <1>1, <1>4, <1>5, <1>6, <1>7, TrackedAppend DEF Kept, Booked
    <2>2. b.next >= a.next /\ e.type # "added"
      BY <1>1, <1>4, <1>5
    <2>3. Indexed(b)
      BY <1>1, <1>4, <1>5, <1>6, <2>2, IndexedAppend DEF Kept, Booked
    <2>4. QED
      BY <2>1, <2>3
  <1>9. /\ b.sent \in Seq(ResponseEvents) /\ Len(b.sent) = l /\ l \in Nat /\ b.sent[l] = e
        /\ \A T : At(b.sent, T) = At(a.sent, T) \cup (IF e \in T THEN {l} ELSE {})
    <2>1. Len(Append(a.sent, e)) = Len(a.sent) + 1 /\ Len(a.sent) \in Nat
      BY <1>1, <1>4, AppendFacts
    <2>2. QED
      BY <1>1, <1>4, <1>5, <2>1, PlacesAppend
  <1>10. e \in Completions /\ e \notin Ends /\ \A k \in Items : e \notin DonesOf(k)
    BY <1>4 DEF Completions, Ends, DonesOf
  <1>11. At(b.sent, Completions) = {l} /\ At(b.sent, Ends) = {} /\ \A k \in Items : At(b.sent, DonesOf(k)) = At(a.sent, DonesOf(k))
    BY <1>9, <1>10 DEF Kept
  <1>12. Listed(b)
    BY <1>5 DEF Listed, Opened, Kept
  <1>13. Kept(b)
    BY <1>5, <1>6, <1>8, <1>11, <1>12 DEF Kept, Booked
  <1>14. QED
    BY <1>4, <1>5, <1>9, <1>11, <1>13 DEF b

\* An event that adds, grows and completes nothing: of the response, or the text done
\* at the finish.
LEMMA EmitKept ==
  ASSUME NEW a, Kept(a), NEW e \in ResponseEvents, e.type \notin {"added", "end", "completed"},
         e.kind \in Items => Tells(Append(a.sent, e), a.item[e.kind], e.kind)
  PROVE  LET b == Emit(a, e)
         IN  /\ Kept(b) /\ b.item = a.item /\ b.calls = a.calls /\ SameRest(a, b)
             /\ At(b.sent, Completions) = At(a.sent, Completions)
             /\ \A k \in Items : At(b.sent, DonesOf(k)) =
                                   At(a.sent, DonesOf(k)) \cup (IF e \in DonesOf(k) THEN {Len(a.sent) + 1} ELSE {})
  <1> DEFINE b == Emit(a, e)
             s == Append(a.sent, e)
  <1>1. a \in ResponsesType /\ a.sent \in Seq(ResponseEvents) /\ a.next \in Nat
    BY DEF Kept, ResponsesType
  <1>2. s \in Seq(ResponseEvents) /\ \A T : At(s, T) = At(a.sent, T) \cup (IF e \in T THEN {Len(a.sent) + 1} ELSE {})
    BY <1>1, PlacesAppend
  <1> HIDE DEF s
  <1>3. b = [a EXCEPT !.sent = s]
    BY DEF Emit, s
  <1> HIDE DEF b
  <1>4. b \in ResponsesType /\ b.sent = s /\ b.item = a.item /\ b.next = a.next /\ b.calls = a.calls /\ SameRest(a, b)
    BY <1>1, <1>2, <1>3 DEF ResponsesType, SameRest
  <1>5. Tracked(b)
    <2>1. e.kind \in Items => Tells(b.sent, b.item[e.kind], e.kind)
      BY <1>4 DEF s
    <2>2. b.sent = Append(a.sent, e) /\ \A k \in Items : k # e.kind => b.item[k] = a.item[k]
      BY <1>4 DEF s
    <2>3. QED
      BY <1>1, <1>4, <2>1, <2>2, TrackedAppend DEF Kept, Booked
  <1>6. Indexed(b)
    <2>1. b.next >= a.next /\ e.type # "added" /\ b.sent = Append(a.sent, e)
      BY <1>1, <1>4 DEF s
    <2>2. QED
      BY <1>1, <1>4, <2>1, IndexedAppend DEF Kept, Booked
  <1>7. e \notin Ends /\ e \notin Completions
    BY DEF Ends, Completions
  <1>8. At(s, Ends) = {} /\ At(s, Completions) = At(a.sent, Completions)
    BY <1>2, <1>7 DEF Kept
  <1>9. Listed(b)
    BY <1>4 DEF Listed, Opened, Kept
  <1>10. Kept(b)
    BY <1>4, <1>5, <1>6, <1>8, <1>9 DEF Kept, Booked
  <1>11. QED
    BY <1>2, <1>4, <1>8, <1>10 DEF b

\* The text done at the finish.
LEMMA TextDoneKept ==
  ASSUME NEW a, Kept(a), a.item["text"].state = "open"
  PROVE  LET b == Emit(a, Event("done", "text", a.item["text"].index, a.full))
         IN  /\ Kept(b) /\ b.item = a.item /\ b.calls = a.calls /\ SameRest(a, b)
             /\ At(b.sent, Completions) = At(a.sent, Completions)
             /\ At(b.sent, DonesOf("text")) # {}
             /\ \A k \in Items : At(a.sent, DonesOf(k)) \subseteq At(b.sent, DonesOf(k))
  <1> DEFINE i == a.item["text"]
             m == a.full
             e == Event("done", "text", a.item["text"].index, m)
             b == Emit(a, e)
  <1>1. a.sent \in Seq(ResponseEvents) /\ "text" \in Items /\ i \in ItemType /\ m \in Nat /\ i.index \in Nat /\ i.size \in Nat
    BY ItemKinds DEF Kept, ResponsesType, ItemType
  <1>2. e \in ResponseEvents /\ e.type = "done" /\ e.kind = "text"
    <2> DEFINE x == a.item["text"].index
    <2>1. "text" \in Items \cup {"response"} /\ x \in Nat
      BY <1>1
    <2> HIDE DEF x, m
    <2>2. Event("done", "text", x, m) \in ResponseEvents /\ Event("done", "text", x, m).type = "done"
          /\ Event("done", "text", x, m).kind = "text"
      BY <1>1, <2>1, ResponseEvent
    <2>3. QED
      BY <2>2 DEF x
  <1>3. Tells(Append(a.sent, e), i, "text")
    <2>1. Tells(a.sent, i, "text")
      BY <1>1 DEF Kept, Booked, Tracked
    <2> DEFINE j == a.item["text"]
    <2>2. j \in ItemType /\ Tells(a.sent, j, "text") /\ j.state # "none" /\ j.size \in Nat
      BY <1>1, <2>1
    <2> HIDE DEF j, m
    <2>3. /\ j.index = j.index /\ j.size = j.size + (IF "done" = "delta" THEN 1 ELSE 0)
          /\ (j.state = "closed" => j.state = "closed" \/ "done" = "done")
          /\ "done" \in {"delta", "done"}
      BY <2>2
    <2>4. Tells(Append(a.sent, Event("done", "text", j.index, m)), j, "text")
      BY <1>1, <2>2, <2>3, TellsMore
    <2>5. QED
      BY <2>4 DEF j
  <1> HIDE DEF e
  <1>4. /\ Kept(b) /\ b.item = a.item /\ b.calls = a.calls /\ SameRest(a, b)
        /\ At(b.sent, Completions) = At(a.sent, Completions)
        /\ \A k \in Items : At(b.sent, DonesOf(k)) =
                              At(a.sent, DonesOf(k)) \cup (IF e \in DonesOf(k) THEN {Len(a.sent) + 1} ELSE {})
    <2>1. e.kind \in Items => Tells(Append(a.sent, e), a.item[e.kind], e.kind)
      BY <1>2, <1>3
    <2>2. e.type \notin {"added", "end", "completed"}
      BY <1>2
    <2>3. QED
      BY <1>2, <2>1, <2>2, EmitKept
  <1> HIDE DEF b
  <1>5. e \in DonesOf("text")
    BY <1>2 DEF DonesOf
  <1>6. At(b.sent, DonesOf("text")) # {} /\ \A k \in Items : At(a.sent, DonesOf(k)) \subseteq At(b.sent, DonesOf(k))
    BY <1>1, <1>4, <1>5
  <1>7. QED
    BY <1>4, <1>6 DEF b, e, m

\* response.created goes out first.
LEMMA OpenKept ==
  ASSUME NEW a, Kept(a)
  PROVE  LET b == Open(a)
         IN  /\ Kept(b) /\ b.item = a.item /\ b.calls = a.calls /\ SameRest(a, b)
             /\ At(b.sent, Completions) = At(a.sent, Completions)
             /\ \A k \in Items : At(b.sent, DonesOf(k)) = At(a.sent, DonesOf(k))
             /\ a.sent # <<>> => b = a
  <1> DEFINE e == Event("created", "response", 0, 0)
  <1>1. e \in ResponseEvents /\ e.type = "created" /\ e.kind = "response"
    <2>1. "response" \in Items \cup {"response"} /\ 0 \in Nat
      OBVIOUS
    <2>2. QED
      BY <2>1, ResponseEvent
  <1>2. "response" \notin Items
    BY CallsAssumption DEF Items
  <1>3. Open(a) = IF a.sent = <<>> THEN Emit(a, e) ELSE a
    BY DEF Open
  <1> HIDE DEF e
  <1> DEFINE b == Emit(a, e)
  <1>4. /\ Kept(b) /\ b.item = a.item /\ b.calls = a.calls /\ SameRest(a, b)
        /\ At(b.sent, Completions) = At(a.sent, Completions)
        /\ \A k \in Items : At(b.sent, DonesOf(k)) =
                              At(a.sent, DonesOf(k)) \cup (IF e \in DonesOf(k) THEN {Len(a.sent) + 1} ELSE {})
    <2>1. e.kind \in Items => Tells(Append(a.sent, e), a.item[e.kind], e.kind)
      BY <1>1, <1>2
    <2>2. e.type \notin {"added", "end", "completed"}
      BY <1>1
    <2>3. QED
      BY <1>1, <2>1, <2>2, EmitKept
  <1> HIDE DEF b
  <1>5. \A k \in Items : e \notin DonesOf(k)
    BY <1>1 DEF DonesOf
  <1>6. \A k \in Items : At(b.sent, DonesOf(k)) = At(a.sent, DonesOf(k))
    BY <1>4, <1>5
  <1>7. SameRest(a, a)
    BY DEF SameRest
  <1>8. QED
    BY <1>3, <1>4, <1>6, <1>7 DEF b

\* The finish: every item is done, and the completed response lists them all, unless
\* it is put off to the end.
LEMMA FinishKept ==
  ASSUME NEW a, Kept(a), ~a.completed, At(a.sent, Completions) = {}, a.item["reasoning"].state # "open",
         NEW u \in Seq(ToolType), \A i \in DOMAIN u : Fits(a, u[i], Calls),
         \A i, j \in DOMAIN u : i # j => u[i].call # u[j].call,
         NEW v \in SUBSET AllTokens, NEW w \in BOOLEAN
  PROVE  LET r == FormatFinish(a, u, v, w)
         IN  /\ Kept(r) /\ Shut(r) /\ r.full = a.full /\ r.buffered = a.buffered /\ r.thought = a.thought
             /\ r.item["reasoning"] = a.item["reasoning"] /\ r.item["text"] = a.item["text"]
             /\ Concluded(r, Items \ {"reasoning"})
             /\ a.thought = a.item["reasoning"].size => Concluded(r, Items)
  <1> DEFINE x == ToolEntries(a, u)
             b == CloseCalls(x)
             text == b.item["text"]
             e == Event("done", "text", text.index, b.full)
             d == IF text.state = "open" THEN Emit(b, e) ELSE b
             message == IF text.state # "none" THEN <<[kind |-> "text", size |-> b.full]>> ELSE <<>>
             full == OutputOf("reasoning", d.thought) \o message \o CallsOutput(d)
             o == IF w THEN <<[kind |-> "upstream", size |-> 0]>> ELSE full
             r == IF b.calls # <<>> /\ text.state = "none" THEN [d EXCEPT !.deferred = v]
                  ELSE IF d.completed THEN d ELSE Complete(d, o, v)
             K == IF a.thought = a.item["reasoning"].size THEN Items ELSE Items \ {"reasoning"}
  <1>0. FormatFinish(a, u, v, w) = r
    BY DEF FormatFinish
  <1>1. a \in ResponsesType /\ a \in KeptSet
    BY DEF Kept, KeptSet
  <1>2. Fresh(a, u)
    <2>1. \A i \in DOMAIN u : u[i].start => u[i].call \notin Opened(a)
      BY DEF Fits, Opened
    <2>2. QED
      BY <2>1 DEF Fresh
  <1>3. Calm(a, x) /\ x \in KeptSet
    BY <1>1, <1>2, CallsKept, ToolEntriesLead, ToolEntriesEffect
  <1> HIDE DEF x
  <1>4. x \in ResponsesType /\ Kept(x)
    BY <1>3 DEF KeptSet
  <1>5. /\ Calm(x, b) /\ b \in KeptSet /\ \A k \in ToSet(x.calls) : ~NeedsClose(b, k)
        /\ \A k \in Items : k \notin ToSet(x.calls) => b.item[k] = x.item[k]
    BY <1>3, <1>4, CallsKept, CloseCallsLead, CloseCallsEffect
  <1> HIDE DEF b
  <1>6. b \in ResponsesType /\ Kept(b) /\ Calm(a, b)
    BY <1>3, <1>5, CalmParts DEF KeptSet
  <1>7. /\ b.full = a.full /\ b.buffered = a.buffered /\ b.thought = a.thought /\ b.completed = a.completed
        /\ b.item["reasoning"] = a.item["reasoning"] /\ b.item["text"] = a.item["text"]
        /\ At(b.sent, Completions) = {}
    <2>1. Count(b.sent, Completions) = Count(a.sent, Completions)
      BY <1>6, SameCounts DEF Calm
    <2>2. a.sent \in Seq(ResponseEvents) /\ b.sent \in Seq(ResponseEvents)
      BY <1>1, <1>6 DEF ResponsesType
    <2>3. Count(a.sent, Completions) = 0
      BY <2>2, CountZero
    <2>4. At(b.sent, Completions) = {}
      BY <2>1, <2>2, <2>3, CountZero
    <2>5. QED
      BY <1>6, <2>4 DEF Calm
  <1>8. ASSUME NEW k \in Calls, b.item[k].state # "none", k \in Functions => b.item[k].size > 0
        PROVE  b.item[k].state = "closed"
    <2>1. k \in ToSet(x.calls)
      <3>1. SUFFICES ASSUME k \notin ToSet(x.calls) PROVE FALSE
        OBVIOUS
      <3>2. x.item[k].state # "none"
        BY <1>5, <1>8, <3>1, ItemKinds
      <3>3. QED
        BY <1>4, <3>1, <3>2 DEF Kept, Listed, Opened
    <2>2. ~NeedsClose(b, k)
      BY <1>5, <2>1
    <2>3. b.item[k].state # "open"
      BY <1>8, <2>2 DEF NeedsClose, Calls
    <2>4. b.item[k] \in ItemType
      BY <1>6, ItemKinds DEF ResponsesType
    <2>5. QED
      BY <1>8, <2>3, <2>4 DEF ItemType
  <1>9. /\ Kept(d) /\ d.item = b.item /\ d.calls = b.calls /\ SameRest(b, d) /\ At(d.sent, Completions) = {}
        /\ (text.state = "open" => At(d.sent, DonesOf("text")) # {})
        /\ \A k \in Items : At(b.sent, DonesOf(k)) \subseteq At(d.sent, DonesOf(k))
    <2>1. CASE text.state = "open"
      <3> DEFINE z == Emit(b, Event("done", "text", b.item["text"].index, b.full))
      <3>1. /\ Kept(z) /\ z.item = b.item /\ z.calls = b.calls /\ SameRest(b, z)
            /\ At(z.sent, Completions) = At(b.sent, Completions)
            /\ At(z.sent, DonesOf("text")) # {}
            /\ \A k \in Items : At(b.sent, DonesOf(k)) \subseteq At(z.sent, DonesOf(k))
        BY <1>6, <2>1, TextDoneKept
      <3>2. d = z
        BY <2>1
      <3> HIDE DEF z, d
      <3>3. QED
        BY <1>7, <3>1, <3>2
    <2>2. CASE text.state # "open"
      BY <1>6, <1>7, <2>2 DEF SameRest
    <2>3. QED
      BY <2>1, <2>2
  <1> HIDE DEF d
  <1>10. Shut(d)
    <2>1. SUFFICES ASSUME NEW k \in Items, d.item[k].state # "none", k \in Functions => d.item[k].size > 0
                   PROVE  At(d.sent, DonesOf(k)) # {}
      BY DEF Shut
    <2>2. d.item[k].state = "closed" \/ (k = "text" /\ text.state = "open")
      <3>1. CASE k \in Calls
        BY <1>8, <1>9, <2>1, <3>1
      <3>2. CASE k \in {"reasoning", "text"}
        <4>1. b.item[k] \in ItemType
          BY <1>6 DEF ResponsesType
        <4>2. QED
          BY <1>7, <1>9, <2>1, <3>2, <4>1 DEF ItemType
      <3>3. QED
        BY <3>1, <3>2 DEF Items
    <2>3. d.item[k].state = "closed" => At(d.sent, DonesOf(k)) # {}
      BY <1>9 DEF Kept, Booked, Tracked, Tells
    <2>4. QED
      BY <1>9, <2>2, <2>3
  <1>11. d \in ResponsesType /\ ~d.completed /\ d.full = a.full /\ d.buffered = a.buffered /\ d.thought = a.thought
         /\ d.item["reasoning"] = a.item["reasoning"] /\ d.item["text"] = a.item["text"] /\ d.thought \in Nat
    <2>1. d \in ResponsesType
      BY <1>9 DEF Kept
    <2>2. d.thought \in Nat
      BY <2>1 DEF ResponsesType
    <2>3. QED
      BY <1>7, <1>9, <2>1, <2>2 DEF SameRest
  <1>12. message \in Seq(OutputType) /\ (d.item["text"].state # "none" => Whole(d, "text") \in ToSet(message))
    <2> DEFINE p == [kind |-> "text", size |-> b.full]
    <2>1. b.full \in Nat
      BY <1>6 DEF ResponsesType
    <2>2. <<p>> \in Seq(OutputType) /\ <<>> \in Seq(OutputType)
      BY <1>6, <2>1, OutputTypes
    <2>3. message \in Seq(OutputType)
      BY <2>2
    <2>4. d.item["text"].state # "none" => message = <<p>>
      BY <1>9
    <2>5. Whole(d, "text") = p
      BY <1>7, <1>11 DEF Whole
    <2> HIDE DEF p, message
    <2>6. p \in ToSet(<<p>>)
      <3>1. 1 \in DOMAIN <<p>> /\ <<p>>[1] = p
        OBVIOUS
      <3>2. QED
        BY <3>1 DEF ToSet
    <2>7. QED
      BY <2>3, <2>4, <2>5, <2>6
  <1> HIDE DEF message
  <1>13. full \in Seq(OutputType) /\ Lists(full, d, K)
    <2> DEFINE y == OutputOf("reasoning", d.thought) \o message \o CallsOutput(d)
    <2>1. /\ y \in Seq(OutputType) /\ Lists(y, d, Items \ {"reasoning"})
          /\ d.thought = d.item["reasoning"].size => Lists(y, d, Items)
      BY <1>9, <1>11, <1>12, OutputLists
    <2>2. full = y
      OBVIOUS
    <2> HIDE DEF y, full
    <2>3. QED
      BY <1>11, <2>1, <2>2
  <1> HIDE DEF full
  <1>14. o \in Seq(OutputType) /\ (o = <<Upstream>> \/ Lists(o, d, K))
    <2>1. CASE w
      <3>1. o = <<Upstream>>
        BY <2>1 DEF Upstream
      <3>2. <<[kind |-> "upstream", size |-> 0]>> \in Seq(OutputType)
        BY <1>11, OutputTypes
      <3>3. o \in Seq(OutputType)
        BY <2>1, <3>2
      <3>4. QED
        BY <3>1, <3>3
    <2>2. CASE ~w
      <3>1. o = full
        BY <2>2
      <3>2. QED
        BY <1>13, <3>1
    <2>3. QED
      BY <2>1, <2>2
  <1> HIDE DEF o
  <1>15. CASE b.calls # <<>> /\ text.state = "none"
    <2> DEFINE s == [d EXCEPT !.deferred = v]
    <2>1. s = r
      BY <1>15
    <2>2. /\ s \in ResponsesType /\ s.item = d.item /\ s.sent = d.sent /\ s.calls = d.calls /\ s.next = d.next
          /\ s.full = d.full /\ s.buffered = d.buffered /\ s.thought = d.thought /\ s.completed = d.completed
      BY <1>11 DEF ResponsesType
    <2> HIDE DEF s, r
    <2>3. Kept(s)
      BY <1>9, <2>2, KeptRest
    <2>4. Shut(s)
      BY <1>10, <2>2 DEF Shut
    <2>5. \A L : Concluded(s, L)
      BY <1>9, <1>11, <2>2 DEF Concluded
    <2>6. QED
      BY <1>0, <1>11, <2>1, <2>2, <2>3, <2>4, <2>5
  <1>16. CASE ~(b.calls # <<>> /\ text.state = "none")
    <2> DEFINE s == Complete(d, o, v)
    <2>1. s = r
      BY <1>11, <1>16
    <2>2. /\ Kept(s) /\ s.completed /\ s.item = d.item /\ s.full = d.full /\ s.calls = d.calls
          /\ s.buffered = d.buffered /\ s.thought = d.thought
          /\ At(s.sent, Completions) = {Len(s.sent)} /\ s.sent[Len(s.sent)].output = o
          /\ \A k \in Items : At(s.sent, DonesOf(k)) = At(d.sent, DonesOf(k))
      BY <1>9, <1>14, CompleteKept
    <2> HIDE DEF s, r
    <2>3. Shut(s)
      BY <1>10, <2>2 DEF Shut
    <2>4. o = <<Upstream>> \/ Lists(o, s, K)
      BY <1>14, <2>2 DEF Lists, Whole
    <2>5. Concluded(s, Items \ {"reasoning"}) /\ (a.thought = a.item["reasoning"].size => Concluded(s, Items))
      BY <2>2, <2>4 DEF Concluded, Lists
    <2>6. QED
      BY <1>0, <1>11, <2>1, <2>2, <2>3, <2>5
  <1>17. QED
    BY <1>15, <1>16

-----------------------------------------------------------------------------
(* The Responses API: the books in a turn of the loop.                     *)

\* The text of a finish that waits for its usage.
LateChunks == {c \in ChunkType : c.text /\ c.finish /\ c.usage = {}}

\* The text is as long as its deltas and what came with a finish that had to wait;
\* all calls that were started are there until the finish; behind it every item
\* is done and the completed response lists them, once the usage has come.
Balanced(a, f) ==
  /\ Kept(a) /\ a.full = a.item["text"].size + Count(f, LateChunks)
  /\ IF At(f, FinishChunks) = {} THEN Started(f) \subseteq Opened(a)
     ELSE a.item["reasoning"].state # "open" /\ (a.buffered = <<>> => Shut(a) /\ Concluded(a, Items))

\* The reasoning of a chunk.
LEMMA ReasoningPartKept ==
  ASSUME NEW a, Kept(a), NEW c \in ChunkType
  PROVE  LET b == ReasoningPart(a, c)
         IN  /\ Kept(b) /\ SameRest(a, b) /\ SameOthers(a, b, "reasoning") /\ b.calls = a.calls
             /\ ~c.reasoning /\ ~c.text => b = a
  <1> DEFINE x == IF a.item["reasoning"].state = "none" THEN AddItem(a, "reasoning") ELSE a
             y == Grow(x, "reasoning")
             d == IF c.reasoning THEN y ELSE a
             b == IF c.text THEN CloseReasoning(d) ELSE d
  <1>1. ReasoningPart(a, c) = b
    BY DEF ReasoningPart
  <1>2. Kept(y) /\ SameRest(a, y) /\ SameOthers(a, y, "reasoning") /\ y.calls = a.calls
    BY PieceKept
  <1> HIDE DEF x, y
  <1>3. SameRest(a, a) /\ SameOthers(a, a, "reasoning")
    BY DEF SameRest, SameOthers
  <1>4. Kept(d) /\ SameRest(a, d) /\ SameOthers(a, d, "reasoning") /\ d.calls = a.calls
    BY <1>2, <1>3
  <1>5. ~c.reasoning => d = a
    OBVIOUS
  <1> HIDE DEF d
  <1>6. /\ Kept(CloseReasoning(d)) /\ SameRest(d, CloseReasoning(d))
        /\ SameOthers(d, CloseReasoning(d), "reasoning") /\ CloseReasoning(d).calls = d.calls
    <2>1. LET z == IF "reasoning" = "reasoning" THEN CloseReasoning(d) ELSE CloseText(d)
          IN  Kept(z) /\ SameRest(d, z) /\ SameOthers(d, z, "reasoning") /\ z.calls = d.calls
      BY <1>4, CloseKept
    <2>2. QED
      BY <2>1
  <1>7. /\ Kept(b) /\ SameRest(a, b) /\ SameOthers(a, b, "reasoning") /\ b.calls = a.calls
    <2>1. CASE c.text
      <3>1. SameRest(a, CloseReasoning(d))
        BY <1>4, <1>6 DEF SameRest
      <3>2. SameOthers(a, CloseReasoning(d), "reasoning")
        BY <1>4, <1>6 DEF SameOthers
      <3>3. QED
        BY <1>4, <1>6, <2>1, <3>1, <3>2
    <2>2. CASE ~c.text
      BY <1>4, <2>2
    <2>3. QED
      BY <2>1, <2>2
  <1>8. ~c.reasoning /\ ~c.text => b = a
    BY <1>5
  <1>9. QED
    BY <1>1, <1>7, <1>8

\* A chunk more, and one that brings neither calls nor a finish.
LEMMA FedMore ==
  ASSUME NEW f \in Seq(ChunkType), NEW c \in ChunkType
  PROVE  LET g == Append(f, c)
         IN  /\ Started(g) = Started(f) \cup Starting(c.tools)
             /\ Count(g, LateChunks) = Count(f, LateChunks) + (IF c \in LateChunks THEN 1 ELSE 0)
             /\ Count(f, LateChunks) \in Nat
             /\ (At(g, FinishChunks) = {} <=> At(f, FinishChunks) = {} /\ ~c.finish)
             /\ \A a : c.tools = <<>> /\ ~c.finish /\ Balanced(a, f) => Balanced(a, g)
  <1> DEFINE g == Append(f, c)
  <1>1. /\ Count(g, LateChunks) = Count(f, LateChunks) + (IF c \in LateChunks THEN 1 ELSE 0)
        /\ Count(f, LateChunks) \in Nat
    BY CountAppend
  <1>2. /\ At(g, FinishChunks) = {} <=> At(f, FinishChunks) = {} /\ ~c.finish
        /\ Started(f) \subseteq Started(g) /\ Starting(c.tools) \subseteq Started(g)
    BY FedAppend
  <1>3. Started(g) \subseteq Started(f) \cup Starting(c.tools)
    <2>1. ToSet(g) = ToSet(f) \cup {c}
      <3>1. /\ DOMAIN f = 1..Len(f) /\ DOMAIN g = 1..(Len(f) + 1) /\ Len(f) \in Nat
            /\ \A i \in 1..Len(f) : g[i] = f[i]
            /\ g[Len(f) + 1] = c
        BY AppendFacts
      <3> HIDE DEF g
      <3>2. 1..(Len(f) + 1) = 1..Len(f) \cup {Len(f) + 1}
        BY <3>1
      <3>3. QED
        BY <3>1, <3>2 DEF ToSet
    <2> HIDE DEF g
    <2>2. SUFFICES ASSUME NEW k \in Started(g), k \notin Started(f) PROVE k \in Starting(c.tools)
      OBVIOUS
    <2>3. PICK t \in Entries(g) : t.start /\ t.call = k
      BY <2>2 DEF Started
    <2>4. t \notin Entries(f)
      BY <2>2, <2>3 DEF Started
    <2>5. t \in ToSet(c.tools)
      BY <2>1, <2>3, <2>4 DEF Entries
    <2>6. PICK i \in DOMAIN c.tools : t = c.tools[i]
      BY <2>5 DEF ToSet
    <2>7. c.tools[i] \in ToolType
      BY ElementOfSeq, LenProperties DEF ChunkType
    <2>8. k \in Calls
      BY <2>3, <2>6, <2>7 DEF ToolType
    <2>9. QED
      BY <2>3, <2>6, <2>8 DEF Starting
  <1>4. ASSUME NEW a, c.tools = <<>>, ~c.finish, Balanced(a, f) PROVE Balanced(a, g)
    <2>1. Starting(c.tools) = {}
      BY <1>4 DEF Starting
    <2>2. c \notin LateChunks
      BY <1>4 DEF LateChunks
    <2>3. Started(g) = Started(f) /\ Count(g, LateChunks) = Count(f, LateChunks) /\ (At(g, FinishChunks) = {} <=> At(f, FinishChunks) = {})
      BY <1>1, <1>2, <1>3, <1>4, <2>1, <2>2
    <2> HIDE DEF g
    <2>4. QED
      BY <1>4, <2>3 DEF Balanced
  <1>5. QED
    BY <1>1, <1>2, <1>3, <1>4

\* response.created goes out first.
LEMMA OpenBalanced ==
  ASSUME NEW a, NEW f, Balanced(a, f)
  PROVE  Balanced(Open(a), f) /\ SameRest(a, Open(a)) /\ Open(a).item = a.item /\ Open(a).calls = a.calls
         /\ At(Open(a).sent, Completions) = At(a.sent, Completions)
  <1> DEFINE b == Open(a)
  <1>1. /\ Kept(b) /\ b.item = a.item /\ b.calls = a.calls /\ SameRest(a, b)
        /\ At(b.sent, Completions) = At(a.sent, Completions)
        /\ \A k \in Items : At(b.sent, DonesOf(k)) = At(a.sent, DonesOf(k))
        /\ a.sent # <<>> => b = a
    BY OpenKept DEF Balanced
  <1> HIDE DEF b
  <1>2. Shut(a) => Shut(b)
    BY <1>1 DEF Shut
  <1>3. Concluded(a, Items) => Concluded(b, Items)
    <2>1. SUFFICES ASSUME Concluded(a, Items) PROVE Concluded(b, Items)
      OBVIOUS
    <2>2. CASE a.completed
      <3>1. At(a.sent, Completions) # {}
        BY <2>1, <2>2 DEF Concluded
      <3>2. a.sent # <<>>
        BY <3>1, CountEmpty
      <3>3. QED
        BY <1>1, <2>1, <3>2
    <2>3. CASE ~a.completed
      BY <1>1, <2>1, <2>3 DEF Concluded, SameRest
    <2>4. QED
      BY <2>2, <2>3
  <1>4. Opened(b) = Opened(a)
    BY <1>1 DEF Opened
  <1>5. Balanced(b, f)
    BY <1>1, <1>2, <1>3, <1>4 DEF Balanced, SameRest
  <1>6. QED
    BY <1>1, <1>5 DEF b

\* Before the usage has come nothing is completed.
LEMMA WaitingOpen ==
  ASSUME NEW a, NEW f, NEW u, ResponsesLive(a, f, u), At(f, FinishChunks) = {} \/ a.buffered # <<>>
  PROVE  ~a.completed /\ At(a.sent, Completions) = {}
  <1>1. Pending(a) /\ a.sent \in Seq(ResponseEvents)
    BY DEF ResponsesLive, Completing, ResponsesType
  <1>2. QED
    BY <1>1, CountZero DEF Pending

\* Usage alone, for a finish that waits.
LEMMA ArrivalBalanced ==
  ASSUME NEW a, NEW f, NEW u, ResponsesLive(a, f, u), NEW b, Balanced(b, f), SameRest(a, b),
         At(b.sent, Completions) = At(a.sent, Completions), NEW c \in ChunkType
  PROVE  Balanced(UsageArrives(b, c), f) /\ UsageArrives(b, c).buffered = <<>>
  <1>1. CASE b.buffered = <<>>
    BY <1>1 DEF UsageArrives
  <1>2. CASE b.buffered # <<>>
    <2> DEFINE n == b.item["reasoning"].size
               y == [b EXCEPT !.buffered = <<>>, !.thought = n]
               r == FormatFinish(y, <<>>, c.usage, FALSE)
    <2>1. a.buffered # <<>> /\ At(f, FinishChunks) # {} /\ b.buffered[1].tools = <<>> /\ ~b.completed /\ At(b.sent, Completions) = {}
      <3>1. a.buffered # <<>> /\ b.buffered = a.buffered /\ b.completed = a.completed
        BY <1>2 DEF SameRest
      <3>2. At(f, FinishChunks) # {} /\ b.buffered[1].tools = <<>>
        BY <3>1 DEF ResponsesLive, Completing, Parked
      <3>3. QED
        BY <3>1, <3>2, WaitingOpen
    <2>2. UsageArrives(b, c) = r
      BY <1>2, <2>1 DEF UsageArrives
    <2>3. Kept(b) /\ b \in ResponsesType /\ n \in Nat
      BY ItemKinds DEF Balanced, Kept, ResponsesType, ItemType
    <2> HIDE DEF n
    <2>4. /\ y \in ResponsesType /\ y.item = b.item /\ y.sent = b.sent /\ y.calls = b.calls /\ y.next = b.next
          /\ y.full = b.full /\ y.thought = n /\ y.buffered = <<>> /\ y.completed = b.completed
      BY <2>3, EmptySeq DEF ResponsesType
    <2> HIDE DEF y
    <2>5. Kept(y)
      BY <2>3, <2>4, KeptRest
    <2>6. /\ y.thought = y.item["reasoning"].size /\ y.item["reasoning"].state # "open" /\ ~y.completed
          /\ At(y.sent, Completions) = {}
      BY <2>1, <2>4 DEF n, Balanced
    <2>7. <<>> \in Seq(ToolType) /\ DOMAIN <<>> = {} /\ c.usage \in SUBSET AllTokens /\ FALSE \in BOOLEAN
      BY EmptySeq DEF ChunkType
    <2>8. \A i \in DOMAIN <<>> : Fits(y, <<>>[i], Calls)
      BY <2>7
    <2>9. \A i, j \in DOMAIN <<>> : i # j => <<>>[i].call # <<>>[j].call
      BY <2>7
    <2>10. /\ Kept(r) /\ Shut(r) /\ r.full = y.full /\ r.buffered = y.buffered
           /\ r.item["reasoning"] = y.item["reasoning"] /\ r.item["text"] = y.item["text"]
           /\ Concluded(r, Items)
      BY <2>5, <2>6, <2>7, <2>8, <2>9, FinishKept
    <2> HIDE DEF r
    <2>11. Balanced(r, f) /\ r.buffered = <<>>
      BY <2>1, <2>4, <2>6, <2>10 DEF Balanced
    <2>12. QED
      BY <2>2, <2>11
  <1>3. QED
    BY <1>1, <1>2

\* The calls of a chunk fit an adapter that has all that were started.
LEMMA ChunkFits ==
  ASSUME NEW f, NEW c, Shape(c, f), NEW a \in ResponsesType, Opened(a) = Started(f)
  PROVE  /\ c \in ChunkType /\ c.tools \in Seq(ToolType)
         /\ \A i \in DOMAIN c.tools : Fits(a, c.tools[i], Calls)
         /\ \A i, j \in DOMAIN c.tools : i # j => c.tools[i].call # c.tools[j].call
  <1>1. c \in ChunkType /\ c.tools \in Seq(ToolType)
    BY DEF Shape, ChunkType
  <1>2. ASSUME NEW i \in DOMAIN c.tools PROVE Fits(a, c.tools[i], Calls)
    <2>1. c.tools[i] \in ToolType
      BY <1>1, ElementOfSeq, LenProperties
    <2>2. c.tools[i].call \in Calls /\ c.tools[i].start \in BOOLEAN /\ a.item[c.tools[i].call] \in ItemType
      BY <2>1, ItemKinds DEF ToolType, ResponsesType
    <2>3. CASE c.tools[i].start
      <3>1. c.tools[i].call \notin Opened(a)
        BY <2>3 DEF Shape
      <3>2. QED
        BY <2>2, <2>3, <3>1 DEF Opened, Fits
    <2>4. CASE ~c.tools[i].start
      <3>1. c.tools[i].call \in Opened(a)
        BY <2>4 DEF Shape
      <3>2. QED
        BY <2>2, <2>4, <3>1 DEF Opened, Fits, ItemType
    <2>5. QED
      BY <2>3, <2>4
  <1>3. QED
    BY <1>1, <1>2 DEF Shape

\* The reasoning is closed.
LEMMA ReasoningClosed ==
  ASSUME NEW a, Kept(a)
  PROVE  LET b == CloseReasoning(a)
         IN  /\ Kept(b) /\ SameRest(a, b) /\ SameOthers(a, b, "reasoning") /\ b.item["reasoning"].state # "open"
             /\ b.calls = a.calls /\ Opened(b) = Opened(a)
  <1> DEFINE b == CloseReasoning(a)
  <1>1. LET z == IF "reasoning" = "reasoning" THEN CloseReasoning(a) ELSE CloseText(a)
        IN  /\ Kept(z) /\ SameRest(a, z) /\ SameOthers(a, z, "reasoning") /\ z.item["reasoning"].state # "open"
            /\ z.calls = a.calls
    BY CloseKept
  <1>2. /\ Kept(b) /\ SameRest(a, b) /\ SameOthers(a, b, "reasoning") /\ b.item["reasoning"].state # "open"
        /\ b.calls = a.calls
    BY <1>1
  <1> HIDE DEF b
  <1>3. Opened(b) = Opened(a)
    BY <1>2, ItemKinds DEF SameOthers, Opened
  <1>4. QED
    BY <1>2, <1>3 DEF b

\* The text is closed.
LEMMA TextClosed ==
  ASSUME NEW a, Kept(a)
  PROVE  LET b == CloseText(a)
         IN  /\ Kept(b) /\ SameRest(a, b) /\ SameOthers(a, b, "text") /\ b.item["text"].state # "open"
             /\ b.item["text"].size = a.item["text"].size /\ b.calls = a.calls /\ Opened(b) = Opened(a)
  <1> DEFINE b == CloseText(a)
  <1>1. LET z == IF "text" = "reasoning" THEN CloseReasoning(a) ELSE CloseText(a)
        IN  /\ Kept(z) /\ SameRest(a, z) /\ SameOthers(a, z, "text") /\ z.item["text"].state # "open"
            /\ z.item["text"].size = a.item["text"].size /\ z.calls = a.calls
    BY CloseKept
  <1>2. /\ Kept(b) /\ SameRest(a, b) /\ SameOthers(a, b, "text") /\ b.item["text"].state # "open"
        /\ b.item["text"].size = a.item["text"].size /\ b.calls = a.calls
    BY <1>1
  <1> HIDE DEF b
  <1>3. Opened(b) = Opened(a)
    BY <1>2, ItemKinds DEF SameOthers, Opened
  <1>4. QED
    BY <1>2, <1>3 DEF b

\* What a chunk finds before the finish.
Prepared(b, f) ==
  /\ Kept(b) /\ b.full = b.item["text"].size + Count(f, LateChunks) /\ ~b.completed
  /\ At(b.sent, Completions) = {} /\ Opened(b) = Started(f)

\* A finish that comes with usage.
LEMMA FinishBalanced ==
  ASSUME NEW f \in Seq(ChunkType), NEW b, Prepared(b, f), NEW c, Shape(c, f), c.usage # {}, c.finish
  PROVE  Balanced(FinishWithUsage(b, c), Append(f, c)) /\ FinishWithUsage(b, c).buffered = <<>>
  <1> DEFINE x == CloseReasoning(b)
             n == x.item["reasoning"].size
             y == [x EXCEPT !.buffered = <<>>, !.thought = n]
             r == FormatFinish(y, c.tools, c.usage, c.verbatim)
             g == Append(f, c)
  <1>1. FinishWithUsage(b, c) = r
    BY DEF FinishWithUsage
  <1>2. /\ Kept(x) /\ SameRest(b, x) /\ SameOthers(b, x, "reasoning") /\ x.item["reasoning"].state # "open"
        /\ Opened(x) = Opened(b) /\ x.calls = b.calls
    BY ReasoningClosed DEF Prepared
  <1>3. At(x.sent, Completions) = {}
    <2>1. b \in ResponsesType
      BY DEF Prepared, Kept
    <2>2. Same(b.sent, x.sent)
      BY <2>1, CloseEffect
    <2>3. Count(x.sent, Completions) = Count(b.sent, Completions) /\ b.sent \in Seq(ResponseEvents)
          /\ x.sent \in Seq(ResponseEvents)
      BY <1>2, <2>1, <2>2, SameCounts DEF Kept, ResponsesType
    <2>4. Count(b.sent, Completions) = 0
      BY <2>3, CountZero DEF Prepared
    <2>5. QED
      BY <2>3, <2>4, CountZero
  <1> HIDE DEF x
  <1>4. x \in ResponsesType /\ n \in Nat
    BY <1>2, ItemKinds DEF Kept, ResponsesType, ItemType
  <1> HIDE DEF n
  <1>5. /\ y \in ResponsesType /\ y.item = x.item /\ y.sent = x.sent /\ y.calls = x.calls /\ y.next = x.next
        /\ y.full = x.full /\ y.thought = n /\ y.buffered = <<>> /\ y.completed = x.completed
    BY <1>4, EmptySeq DEF ResponsesType
  <1> HIDE DEF y
  <1>6. Kept(y)
    BY <1>2, <1>5, KeptRest
  <1>7. /\ y.thought = y.item["reasoning"].size /\ y.item["reasoning"].state # "open" /\ ~y.completed
        /\ At(y.sent, Completions) = {} /\ Opened(y) = Started(f)
    BY <1>2, <1>3, <1>5 DEF n, Prepared, SameRest, Opened
  <1>8. /\ c \in ChunkType /\ c.tools \in Seq(ToolType)
        /\ \A i \in DOMAIN c.tools : Fits(y, c.tools[i], Calls)
        /\ \A i, j \in DOMAIN c.tools : i # j => c.tools[i].call # c.tools[j].call
    BY <1>5, <1>7, ChunkFits
  <1>9. c.usage \in SUBSET AllTokens /\ c.verbatim \in BOOLEAN
    BY <1>8 DEF ChunkType
  <1>10. /\ Kept(r) /\ Shut(r) /\ r.full = y.full /\ r.buffered = y.buffered
         /\ r.item["reasoning"] = y.item["reasoning"] /\ r.item["text"] = y.item["text"]
         /\ Concluded(r, Items)
    BY <1>6, <1>7, <1>8, <1>9, FinishKept
  <1> HIDE DEF r
  <1>11. /\ Count(g, LateChunks) = Count(f, LateChunks) + (IF c \in LateChunks THEN 1 ELSE 0)
         /\ Count(f, LateChunks) \in Nat /\ At(g, FinishChunks) # {}
    BY <1>8, FedMore
  <1>12. c \notin LateChunks
    BY DEF LateChunks
  <1> HIDE DEF g
  <1>13. r.full = r.item["text"].size + Count(g, LateChunks)
    <2>1. r.full = b.full /\ r.item["text"] = b.item["text"]
      BY <1>2, <1>5, <1>10, ItemKinds DEF SameRest, SameOthers
    <2>2. QED
      BY <1>11, <1>12, <2>1 DEF Prepared
  <1>14. Balanced(r, g) /\ r.buffered = <<>>
    BY <1>5, <1>7, <1>10, <1>11, <1>13 DEF Balanced
  <1>15. QED
    BY <1>1, <1>14 DEF g

\* A finish that waits for its usage.
LEMMA WaitBalanced ==
  ASSUME NEW f \in Seq(ChunkType), NEW b, Prepared(b, f), NEW c \in ChunkType, c.usage = {}, c.finish
  PROVE  Balanced(FinishAlone(b, c), Append(f, c))
  <1> DEFINE x == CloseReasoning(b)
             n == IF c.text THEN 1 ELSE 0
             m == x.full + n
             r == [x EXCEPT !.full = m, !.buffered = <<c>>]
             g == Append(f, c)
  <1>1. FinishAlone(b, c) = r
    BY DEF FinishAlone
  <1>2. /\ Kept(x) /\ SameRest(b, x) /\ SameOthers(b, x, "reasoning") /\ x.item["reasoning"].state # "open"
    BY ReasoningClosed DEF Prepared
  <1> HIDE DEF x
  <1>3. x \in ResponsesType /\ m \in Nat
    BY <1>2 DEF Kept, ResponsesType
  <1>4. <<c>> \in Seq(ChunkType) /\ <<c>> # <<>>
    OBVIOUS
  <1> HIDE DEF n, m
  <1>5. /\ r \in ResponsesType /\ r.item = x.item /\ r.sent = x.sent /\ r.calls = x.calls /\ r.next = x.next
        /\ r.full = m /\ r.buffered = <<c>>
    BY <1>3, <1>4 DEF ResponsesType
  <1> HIDE DEF r
  <1>6. Kept(r)
    BY <1>2, <1>5, KeptRest
  <1>7. /\ Count(g, LateChunks) = Count(f, LateChunks) + (IF c \in LateChunks THEN 1 ELSE 0)
        /\ Count(f, LateChunks) \in Nat /\ At(g, FinishChunks) # {}
    BY FedMore
  <1>8. c \in LateChunks <=> c.text
    BY DEF LateChunks
  <1> HIDE DEF g
  <1>9. r.full = r.item["text"].size + Count(g, LateChunks)
    <2>1. r.full = b.full + n /\ r.item["text"] = b.item["text"]
      BY <1>2, <1>5, ItemKinds DEF SameRest, SameOthers, m
    <2>2. b.item["text"].size \in Nat
      BY ItemKinds DEF Prepared, Kept, ResponsesType, ItemType
    <2>3. QED
      BY <1>7, <1>8, <2>1, <2>2 DEF Prepared, n
  <1>10. Balanced(r, g)
    BY <1>2, <1>4, <1>5, <1>6, <1>7, <1>9 DEF Balanced
  <1>11. QED
    BY <1>1, <1>10 DEF g

\* A chunk without a finish.
LEMMA DeltaBalanced ==
  ASSUME NEW f \in Seq(ChunkType), NEW b, Prepared(b, f), NEW c, Shape(c, f), ~c.finish, At(f, FinishChunks) = {}
  PROVE  Balanced(Delta(b, c), Append(f, c))
  <1> DEFINE n == IF c.text THEN 1 ELSE 0
             m == b.full + n
             x == [b EXCEPT !.full = m]
             y == IF c.tools = <<>> THEN x ELSE CloseText(CloseReasoning(x))
             z == ToolEntries(y, c.tools)
             d == IF z.item["text"].state = "none" THEN AddItem(z, "text") ELSE z
             r == IF c.text THEN Grow(d, "text") ELSE z
             g == Append(f, c)
  <1>1. Delta(b, c) = r
    BY DEF Delta, FormatDelta
  <1>2. b \in ResponsesType /\ Kept(b) /\ n \in Nat /\ m \in Nat
    BY DEF Prepared, Kept, ResponsesType
  <1> HIDE DEF n, m
  <1>3. /\ x \in ResponsesType /\ x.item = b.item /\ x.sent = b.sent /\ x.calls = b.calls /\ x.next = b.next
        /\ x.full = m
    BY <1>2 DEF ResponsesType
  <1> HIDE DEF x
  <1>4. Kept(x) /\ Opened(x) = Started(f)
    BY <1>2, <1>3, KeptRest DEF Opened, Prepared
  <1>5. Kept(y) /\ y.full = x.full /\ y.item["text"].size = x.item["text"].size /\ Opened(y) = Started(f)
    <2> DEFINE p == CloseReasoning(x)
               q == CloseText(p)
    <2>1. Kept(p) /\ SameRest(x, p) /\ SameOthers(x, p, "reasoning") /\ Opened(p) = Opened(x)
      BY <1>4, ReasoningClosed
    <2> HIDE DEF p
    <2>2. Kept(q) /\ SameRest(p, q) /\ q.item["text"].size = p.item["text"].size /\ Opened(q) = Opened(p)
      BY <2>1, TextClosed
    <2> HIDE DEF q
    <2>3. p.item["text"] = x.item["text"]
      BY <2>1, ItemKinds DEF SameOthers
    <2>4. y = x \/ y = q
      BY DEF q, p
    <2>5. QED
      BY <1>4, <2>1, <2>2, <2>3, <2>4 DEF SameRest
  <1> HIDE DEF y
  <1>6. y \in ResponsesType /\ y \in KeptSet
    BY <1>5 DEF Kept, KeptSet
  <1>7. /\ c \in ChunkType /\ c.tools \in Seq(ToolType)
        /\ \A i \in DOMAIN c.tools : Fits(y, c.tools[i], Calls)
        /\ \A i, j \in DOMAIN c.tools : i # j => c.tools[i].call # c.tools[j].call
    BY <1>5, <1>6, ChunkFits
  <1>8. z \in KeptSet /\ Worked(y, z, c.tools)
    BY <1>6, <1>7, CallsKept, ToolEntriesLead
  <1>9. Calm(y, z)
    <2>1. Fresh(y, c.tools)
      BY <1>5, ChunkFresh
    <2>2. QED
      BY <1>6, <1>7, <2>1, ToolEntriesEffect
  <1> HIDE DEF z
  <1>10. Kept(z) /\ z.full = y.full /\ z.item["text"] = y.item["text"]
    BY <1>8, <1>9 DEF KeptSet, Calm
  <1>11. Started(f) \cup Starting(c.tools) \subseteq Opened(z)
    <2>1. ASSUME NEW k \in Calls, k \in Started(f) \/ k \in Starting(c.tools) PROVE z.item[k].state # "none"
      <3>1. CASE \E i \in DOMAIN c.tools : c.tools[i].call = k
        BY <1>8, <3>1 DEF Worked
      <3>2. CASE \A i \in DOMAIN c.tools : c.tools[i].call # k
        <4>1. k \in Started(f)
          BY <2>1, <3>2 DEF Starting
        <4>2. y.item[k].state # "none"
          BY <1>5, <4>1 DEF Opened
        <4>3. z.item[k] = y.item[k]
          BY <1>8, <3>2, ItemKinds DEF Worked
        <4>4. QED
          BY <4>2, <4>3
      <3>3. QED
        BY <3>1, <3>2
    <2>2. Started(f) \subseteq Calls /\ Starting(c.tools) \subseteq Calls
      BY <1>5 DEF Opened, Starting
    <2>3. QED
      BY <2>1, <2>2 DEF Opened
  <1>12. /\ Kept(r) /\ r.full = z.full /\ r.item["text"].size = z.item["text"].size + n
         /\ Opened(r) = Opened(z)
    <2>1. CASE c.text
      <3> DEFINE q == Grow(d, "text")
      <3>1. Kept(q) /\ SameRest(z, q) /\ SameOthers(z, q, "text") /\ q.item["text"].size = z.item["text"].size + 1
        BY <1>10, PieceKept
      <3>2. r = q
        BY <2>1
      <3> HIDE DEF q, r
      <3>3. Opened(q) = Opened(z)
        BY <3>1, ItemKinds DEF Opened, SameOthers
      <3>4. QED
        BY <2>1, <3>1, <3>2, <3>3 DEF SameRest, n
    <2>2. CASE ~c.text
      <3>1. z.item["text"].size \in Nat
        BY <1>10, ItemKinds DEF Kept, ResponsesType, ItemType
      <3>2. r = z /\ n = 0
        BY <2>2 DEF n
      <3> HIDE DEF r
      <3>3. QED
        BY <1>10, <3>1, <3>2
    <2>3. QED
      BY <2>1, <2>2
  <1> HIDE DEF r
  <1>13. /\ Count(g, LateChunks) = Count(f, LateChunks) + (IF c \in LateChunks THEN 1 ELSE 0)
         /\ Count(f, LateChunks) \in Nat /\ At(g, FinishChunks) = {}
         /\ Started(g) = Started(f) \cup Starting(c.tools)
    BY <1>7, FedMore
  <1>14. c \notin LateChunks
    BY DEF LateChunks
  <1> HIDE DEF g
  <1>15. r.full = r.item["text"].size + Count(g, LateChunks)
    <2>1. b.item["text"].size \in Nat
      BY <1>2, ItemKinds DEF ResponsesType, ItemType
    <2>2. r.full = b.full + n /\ r.item["text"].size = b.item["text"].size + n
      BY <1>3, <1>5, <1>10, <1>12 DEF m
    <2>3. QED
      BY <1>2, <1>13, <1>14, <2>1, <2>2 DEF Prepared
  <1>16. Balanced(r, g)
    BY <1>11, <1>12, <1>13, <1>15 DEF Balanced
  <1>17. QED
    BY <1>1, <1>16 DEF g

\* Usage alone adds nothing to what was fed.
LEMMA UsageBalanced ==
  ASSUME NEW a, NEW f, NEW u, ResponsesLive(a, f, u), Balanced(a, f), NEW c \in ChunkType, UsageOnly(c)
  PROVE  Balanced(ResponsesFeed(a, c), f)
  <1> DEFINE o == Open(a)
             b == ReasoningPart(o, c)
  <1>1. CASE a.sent = <<>> /\ IsMarker(c)
    BY <1>1 DEF ResponsesFeed
  <1>2. CASE ~(a.sent = <<>> /\ IsMarker(c))
    <2>1. /\ Balanced(o, f) /\ SameRest(a, o) /\ At(o.sent, Completions) = At(a.sent, Completions)
      BY OpenBalanced
    <2>2. ~c.finish /\ ~c.text /\ ~c.reasoning
      BY DEF UsageOnly
    <2>3. ProcessChunk(o, c) = UsageArrives(b, c)
      BY <2>2 DEF ProcessChunk
    <2>4. ResponsesFeed(a, c) = ProcessChunk(o, c)
      BY <1>2 DEF ResponsesFeed
    <2> HIDE DEF o
    <2>5. b = o
      BY <2>1, <2>2, ReasoningPartKept DEF Balanced
    <2> HIDE DEF b
    <2>6. Balanced(UsageArrives(o, c), f)
      BY <2>1, ArrivalBalanced
    <2>7. QED
      BY <2>3, <2>4, <2>5, <2>6
  <1>3. QED
    BY <1>1, <1>2

\* What a chunk finds, once its reasoning has been seen to.
LEMMA BeginPrepared ==
  ASSUME NEW a, NEW f \in Seq(ChunkType), NEW u, NEW c \in ChunkType, ResponsesLive(a, f, u), Balanced(a, f),
         At(f, FinishChunks) = {}
  PROVE  Prepared(ReasoningPart(Open(a), c), f) /\ Opened(Open(a)) = Started(f)
  <1> DEFINE o == Open(a)
             b == ReasoningPart(o, c)
  <1>1. ~a.completed /\ At(a.sent, Completions) = {} /\ a.sent \in Seq(ResponseEvents)
    BY WaitingOpen DEF ResponsesLive, ResponsesType
  <1>2. Count(b.sent, Completions) = Count(a.sent, Completions) /\ b.sent \in Seq(ResponseEvents)
    BY BeginEffect
  <1>3. At(b.sent, Completions) = {}
    <2>1. Count(a.sent, Completions) = 0
      BY <1>1, CountZero
    <2>2. QED
      BY <1>2, <2>1, CountZero
  <1>4. Balanced(o, f) /\ SameRest(a, o) /\ o.item = a.item
    BY OpenBalanced
  <1> HIDE DEF o
  <1>5. Kept(b) /\ SameRest(o, b) /\ SameOthers(o, b, "reasoning")
    BY <1>4, ReasoningPartKept DEF Balanced
  <1> HIDE DEF b
  <1>6. Opened(b) = Started(f) /\ Opened(o) = Started(f)
    <2>1. Opened(b) = Opened(o)
      BY <1>5, ItemKinds DEF Opened, SameOthers
    <2>2. Opened(o) = Opened(a)
      BY <1>4 DEF Opened
    <2>3. Started(f) \subseteq Opened(a) /\ Opened(a) \subseteq Started(f)
      BY DEF Balanced, ResponsesLive
    <2>4. QED
      BY <2>1, <2>2, <2>3
  <1>7. b.full = b.item["text"].size + Count(f, LateChunks) /\ ~b.completed
    <2>1. b.item["text"] = o.item["text"] /\ b.full = o.full /\ b.completed = o.completed /\ o.completed = a.completed
      BY <1>4, <1>5, ItemKinds DEF SameOthers, SameRest
    <2>2. QED
      BY <1>1, <1>4, <2>1 DEF Balanced
  <1>8. QED
    BY <1>3, <1>5, <1>6, <1>7 DEF Prepared, o, b

\* A turn of the loop keeps the books balanced.
LEMMA BalancedStep ==
  ASSUME NEW a, NEW f \in Seq(ChunkType), NEW u, NEW c, ResponsesLive(a, f, u), Balanced(a, f), Shape(c, f),
         At(f, FinishChunks) = {} \/ UsageOnly(c)
  PROVE  Balanced(ResponsesFeed(a, c), Append(f, c))
  <1> DEFINE o == Open(a)
             b == ReasoningPart(o, c)
             r == ResponsesFeed(a, c)
             g == Append(f, c)
  <1>1. c \in ChunkType
    BY DEF Shape
  <1>2. ASSUME NEW x, Balanced(x, f), c.tools = <<>>, ~c.finish PROVE Balanced(x, g)
    BY <1>1, <1>2, FedMore
  <1>3. CASE UsageOnly(c)
    <2>1. Balanced(r, f)
      BY <1>1, <1>3, UsageBalanced
    <2>2. c.tools = <<>> /\ ~c.finish
      BY <1>3 DEF UsageOnly
    <2> HIDE DEF r, g
    <2>3. Balanced(r, g)
      BY <1>2, <2>1, <2>2
    <2>4. QED
      BY <2>3 DEF r, g
  <1>4. CASE a.sent = <<>> /\ IsMarker(c)
    <2>1. r = a
      BY <1>4 DEF ResponsesFeed
    <2>2. c.tools = <<>> /\ ~c.finish
      BY <1>4 DEF IsMarker
    <2> HIDE DEF r, g
    <2>3. Balanced(r, g)
      BY <1>2, <2>1, <2>2
    <2>4. QED
      BY <2>3 DEF r, g
  <1>5. CASE ~UsageOnly(c) /\ ~(a.sent = <<>> /\ IsMarker(c))
    <2>1. At(f, FinishChunks) = {}
      BY <1>5
    <2>2. r = IF c.finish /\ c.usage # {} THEN FinishWithUsage(b, c)
              ELSE IF c.finish THEN FinishAlone(b, c) ELSE Delta(b, c)
      BY <1>5 DEF ResponsesFeed, ProcessChunk
    <2> HIDE DEF r
    <2>3. Prepared(b, f)
      BY <1>1, <2>1, BeginPrepared
    <2> HIDE DEF b, o
    <2>4. CASE c.finish /\ c.usage # {}
      <3>1. Balanced(FinishWithUsage(b, c), g)
        BY <2>3, <2>4, FinishBalanced
      <3>2. QED
        BY <2>2, <2>4, <3>1 DEF r
    <2>5. CASE c.finish /\ c.usage = {}
      <3>1. Balanced(FinishAlone(b, c), g)
        BY <1>1, <2>3, <2>5, WaitBalanced
      <3>2. QED
        BY <2>2, <2>5, <3>1 DEF r
    <2>6. CASE ~c.finish
      <3>1. Balanced(Delta(b, c), g)
        BY <2>1, <2>3, <2>6, DeltaBalanced
      <3>2. QED
        BY <2>2, <2>6, <3>1 DEF r
    <2>7. QED
      BY <2>4, <2>5, <2>6
  <1>6. QED
    BY <1>3, <1>4, <1>5

\* The adapter that nothing was fed to.
LEMMA StartBalanced ==
  ASSUME ResponsesStart \in ResponsesType
  PROVE  Balanced(ResponsesStart, <<>>)
  <1> DEFINE a == ResponsesStart
  <1>1. /\ a.item = [k \in Items |-> NoItem] /\ a.calls = <<>> /\ a.next = 0 /\ a.full = 0
        /\ a.buffered = <<>> /\ a.completed = FALSE /\ a.sent = <<>>
    BY DEF ResponsesStart
  <1> HIDE DEF a
  <1>2. \A k \in Items : a.item[k] = NoItem /\ a.item[k].state = "none" /\ a.item[k].size = 0
    BY <1>1 DEF NoItem
  <1>3. \A T : At(<<>>, T) = {} /\ Count(<<>>, T) = 0
    BY CountEmpty
  <1>4. Tracked(a)
    BY <1>1, <1>2, <1>3 DEF Tracked, Tells
  <1>5. Indexed(a)
    BY <1>1, <1>3 DEF Indexed
  <1>6. Opened(a) = {}
    BY <1>2, ItemKinds DEF Opened
  <1>7. Listed(a)
    BY <1>1, <1>6 DEF Listed, ToSet
  <1>8. Kept(a)
    <2>1. \A k \in {"reasoning", "text"} : a.item[k].state = "none"
      BY <1>2, ItemKinds
    <2>2. a \in ResponsesType
      BY DEF a
    <2>3. QED
      BY <1>1, <1>3, <1>4, <1>5, <1>7, <2>1, <2>2 DEF Kept, Booked
  <1>9. Started(<<>>) = {}
    BY DEF Started, Entries, ToSet
  <1>10. Balanced(a, <<>>)
    <2>1. a.item["text"].size = 0
      BY <1>2, ItemKinds
    <2>2. QED
      BY <1>1, <1>3, <1>6, <1>8, <1>9, <2>1 DEF Balanced
  <1>11. QED
    BY <1>10 DEF a

-----------------------------------------------------------------------------
(* The Responses API: items in order.                                      *)

\* What is done is done last, with a size of m, and nothing comes between the events
\* of k.
Sealed(s, k, m) ==
  \A i \in At(s, DonesOf(k)) : s[i].size = m /\ \A j \in At(s, EventsFor(k)) : j <= i
InRow(s, k) ==
  \A i, j \in At(s, EventsFor(k)) : \A n \in Nat : i <= n /\ n <= j => s[n].kind = k
AtEnd(s, k) == Len(s) \in At(s, EventsFor(k))

\* An event of another item.
LEMMA OrderOther ==
  ASSUME NEW s \in Seq(ResponseEvents), NEW e \in ResponseEvents, NEW k \in Items, e.kind # k
  PROVE  LET t == Append(s, e)
         IN  /\ At(t, DonesOf(k)) = At(s, DonesOf(k)) /\ At(t, EventsFor(k)) = At(s, EventsFor(k))
             /\ \A m : Sealed(s, k, m) => Sealed(t, k, m)
             /\ InRow(s, k) => InRow(t, k)
  <1> DEFINE t == Append(s, e)
  <1>1. /\ Len(s) \in Nat /\ \A i \in 1..Len(s) : t[i] = s[i]
        /\ \A T : /\ At(s, T) \subseteq 1..Len(s)
                  /\ At(t, T) = At(s, T) \cup (IF e \in T THEN {Len(s) + 1} ELSE {})
    BY PlacesAppend
  <1> HIDE DEF t
  <1>2. e \notin DonesOf(k) /\ e \notin EventsFor(k)
    BY DEF DonesOf, EventsFor
  <1>3. At(t, DonesOf(k)) = At(s, DonesOf(k)) /\ At(t, EventsFor(k)) = At(s, EventsFor(k))
    BY <1>1, <1>2
  <1>4. ASSUME NEW m, Sealed(s, k, m) PROVE Sealed(t, k, m)
    <2>1. \A i \in At(s, DonesOf(k)) : t[i] = s[i]
      BY <1>1
    <2>2. QED
      BY <1>3, <1>4, <2>1 DEF Sealed
  <1>5. ASSUME InRow(s, k) PROVE InRow(t, k)
    <2>1. ASSUME NEW i \in At(s, EventsFor(k)), NEW j \in At(s, EventsFor(k)), NEW n \in Nat, i <= n, n <= j
          PROVE  t[n].kind = k
      <3>1. i \in 1..Len(s) /\ j \in 1..Len(s)
        BY <1>1
      <3>2. n \in 1..Len(s)
        BY <1>1, <2>1, <3>1
      <3>3. s[n].kind = k
        BY <1>5, <2>1 DEF InRow
      <3>4. QED
        BY <1>1, <3>2, <3>3
    <2>2. QED
      BY <1>3, <2>1 DEF InRow
  <1>6. QED
    BY <1>3, <1>4, <1>5 DEF t

\* An event of the item itself, the first or behind the last.
LEMMA RowMore ==
  ASSUME NEW s \in Seq(ResponseEvents), NEW e \in ResponseEvents, NEW k \in Items, e.kind = k, InRow(s, k),
         At(s, EventsFor(k)) = {} \/ AtEnd(s, k)
  PROVE  InRow(Append(s, e), k) /\ AtEnd(Append(s, e), k)
  <1> DEFINE t == Append(s, e)
             l == Len(s) + 1
  <1>1. /\ Len(s) \in Nat /\ Len(t) = l /\ t[l] = e /\ \A i \in 1..Len(s) : t[i] = s[i]
        /\ At(s, EventsFor(k)) \subseteq 1..Len(s)
        /\ At(t, EventsFor(k)) = At(s, EventsFor(k)) \cup (IF e \in EventsFor(k) THEN {l} ELSE {})
    BY PlacesAppend, AppendFacts
  <1>2. e \in EventsFor(k)
    BY DEF EventsFor
  <1>3. At(t, EventsFor(k)) = At(s, EventsFor(k)) \cup {l}
    BY <1>1, <1>2
  <1> HIDE DEF t
  <1>4. ASSUME NEW i \in At(t, EventsFor(k)), NEW j \in At(t, EventsFor(k)), NEW n \in Nat, i <= n, n <= j
        PROVE  t[n].kind = k
    <2>1. CASE n = l
      BY <1>1, <2>1
    <2>2. CASE n # l
      <3>1. i \in 1..l /\ j \in 1..l
        BY <1>1, <1>3
      <3>2. n \in 1..Len(s) /\ i # l
        BY <1>1, <1>4, <2>2, <3>1
      <3>3. i \in At(s, EventsFor(k)) /\ AtEnd(s, k)
        BY <1>3, <3>2
      <3>4. Len(s) \in At(s, EventsFor(k)) /\ n <= Len(s)
        BY <3>2, <3>3 DEF AtEnd
      <3>5. s[n].kind = k
        BY <1>4, <3>3, <3>4 DEF InRow
      <3>6. QED
        BY <1>1, <3>2, <3>5
    <2>3. QED
      BY <2>1, <2>2
  <1>5. AtEnd(t, k)
    BY <1>1, <1>3 DEF AtEnd
  <1>6. QED
    BY <1>4, <1>5 DEF InRow, t

\* The done event of the item.
LEMMA SealedDone ==
  ASSUME NEW s \in Seq(ResponseEvents), NEW e \in ResponseEvents, NEW k \in Items, e.kind = k, e.type = "done",
         At(s, DonesOf(k)) = {}
  PROVE  Sealed(Append(s, e), k, e.size)
  <1> DEFINE t == Append(s, e)
             l == Len(s) + 1
  <1>1. /\ Len(s) \in Nat /\ t[l] = e
        /\ \A T : /\ At(s, T) \subseteq 1..Len(s)
                  /\ At(t, T) = At(s, T) \cup (IF e \in T THEN {l} ELSE {})
    BY PlacesAppend
  <1>2. e \in DonesOf(k)
    BY DEF DonesOf
  <1>3. At(t, DonesOf(k)) = {l}
    BY <1>1, <1>2
  <1>4. At(t, EventsFor(k)) \subseteq 1..l
    BY <1>1
  <1> HIDE DEF t
  <1>5. \A j \in At(t, EventsFor(k)) : j <= l
    BY <1>1, <1>4
  <1>6. QED
    BY <1>1, <1>3, <1>5 DEF Sealed, t

\* Any other event of it, before it is done.
LEMMA SealedNot ==
  ASSUME NEW s \in Seq(ResponseEvents), NEW e \in ResponseEvents, NEW k \in Items, e.type # "done",
         At(s, DonesOf(k)) = {}
  PROVE  At(Append(s, e), DonesOf(k)) = {} /\ \A m : Sealed(Append(s, e), k, m)
  <1>1. At(Append(s, e), DonesOf(k)) = At(s, DonesOf(k)) \cup (IF e \in DonesOf(k) THEN {Len(s) + 1} ELSE {})
    BY PlacesAppend
  <1>2. e \notin DonesOf(k)
    BY DEF DonesOf
  <1>3. At(Append(s, e), DonesOf(k)) = {}
    BY <1>1, <1>2
  <1>4. QED
    BY <1>3 DEF Sealed

\* All of an item.
SizeOf(a, k) == IF k = "text" THEN a.full ELSE a.item[k].size

\* Each item outside V is sealed, the reasoning and the text are in a row.
Ordered(a, V) ==
  /\ \A k \in Items : k \notin V => Sealed(a.sent, k, SizeOf(a, k))
  /\ InRow(a.sent, "reasoning") /\ InRow(a.sent, "text")

\* What is open is not done.
Rows(a, V) ==
  /\ a \in ResponsesType /\ Booked(a) /\ Ordered(a, V)
  /\ \A k \in Items : a.item[k].state = "open" => At(a.sent, DonesOf(k)) = {}

\* An event of item k.
LEMMA RowsAppend ==
  ASSUME NEW V, NEW a, Rows(a, V), NEW k \in Items, NEW b \in ResponsesType, Booked(b), SameOthers(a, b, k),
         b.full = a.full, NEW e \in ResponseEvents, e.kind = k, b.sent = Append(a.sent, e),
         k \notin V => Sealed(b.sent, k, SizeOf(b, k)),
         b.item[k].state = "open" => At(b.sent, DonesOf(k)) = {},
         k \in {"reasoning", "text"} => InRow(b.sent, k)
  PROVE  Rows(b, V)
  <1>1. a.sent \in Seq(ResponseEvents) /\ Ordered(a, V)
    BY DEF Rows, ResponsesType
  <1>2. ASSUME NEW j \in Items, j # k
        PROVE  /\ j \notin V => Sealed(b.sent, j, SizeOf(b, j))
               /\ b.item[j].state = "open" => At(b.sent, DonesOf(j)) = {}
               /\ InRow(a.sent, j) => InRow(b.sent, j)
    <2>1. /\ At(b.sent, DonesOf(j)) = At(a.sent, DonesOf(j))
          /\ \A m : Sealed(a.sent, j, m) => Sealed(b.sent, j, m)
          /\ InRow(a.sent, j) => InRow(b.sent, j)
      BY <1>1, <1>2, OrderOther
    <2>2. b.item[j] = a.item[j]
      BY <1>2 DEF SameOthers
    <2>3. SizeOf(b, j) = SizeOf(a, j)
      BY <2>2 DEF SizeOf
    <2>4. j \notin V => Sealed(a.sent, j, SizeOf(a, j))
      BY <1>1 DEF Ordered
    <2>5. a.item[j].state = "open" => At(a.sent, DonesOf(j)) = {}
      BY DEF Rows
    <2>6. QED
      BY <2>1, <2>2, <2>3, <2>4, <2>5
  <1>3. "reasoning" \in Items /\ "text" \in Items
    BY ItemKinds
  <1>4. InRow(b.sent, "reasoning") /\ InRow(b.sent, "text")
    BY <1>1, <1>2, <1>3 DEF Ordered
  <1>5. \A j \in Items : j \notin V => Sealed(b.sent, j, SizeOf(b, j))
    BY <1>2
  <1>6. \A j \in Items : b.item[j].state = "open" => At(b.sent, DonesOf(j)) = {}
    BY <1>2
  <1>7. QED
    BY <1>4, <1>5, <1>6 DEF Rows, Ordered

\* Adding an item.
LEMMA AddRows ==
  ASSUME NEW V, NEW a, Rows(a, V), NEW k \in Items, a.item[k].state = "none"
  PROVE  Rows(AddItem(a, k), V) /\ AtEnd(AddItem(a, k).sent, k)
  <1> DEFINE b == AddItem(a, k)
             e == Event("added", k, a.next, 0)
  <1>1. a \in ResponsesType /\ Booked(a) /\ a.sent \in Seq(ResponseEvents)
    BY DEF Rows, ResponsesType
  <1>2. /\ b \in ResponsesType /\ Booked(b) /\ SameRest(a, b) /\ SameOthers(a, b, k)
        /\ b.sent = Append(a.sent, e) /\ e \in ResponseEvents
    BY <1>1, AddItemBooked
  <1>3. e.kind = k /\ e.type = "added"
    BY ItemEvent
  <1> HIDE DEF b, e
  <1>4. At(a.sent, EventsFor(k)) = {}
    BY <1>1 DEF Booked, Tracked, Tells
  <1>5. At(a.sent, DonesOf(k)) = {}
    BY <1>4 DEF At, EventsFor, DonesOf
  <1>6. InRow(a.sent, k)
    BY <1>4 DEF InRow
  <1>7. InRow(b.sent, k) /\ AtEnd(b.sent, k)
    BY <1>1, <1>2, <1>3, <1>4, <1>6, RowMore
  <1>8. At(b.sent, DonesOf(k)) = {} /\ \A m : Sealed(b.sent, k, m)
    BY <1>1, <1>2, <1>3, <1>5, SealedNot
  <1>9. b.full = a.full
    BY <1>2 DEF SameRest
  <1>10. Rows(b, V)
    BY <1>2, <1>3, <1>7, <1>8, <1>9, RowsAppend
  <1>11. QED
    BY <1>7, <1>10 DEF b

\* A piece of an item that is open, or that may go on.
LEMMA GrowRows ==
  ASSUME NEW V, NEW a, Rows(a, V), NEW k \in Items, a.item[k].state # "none", a.item[k].state = "open" \/ k \in V,
         k \in {"reasoning", "text"} => AtEnd(a.sent, k)
  PROVE  Rows(Grow(a, k), V) /\ (k \in {"reasoning", "text"} => AtEnd(Grow(a, k).sent, k))
  <1> DEFINE b == Grow(a, k)
             e == Event("delta", k, a.item[k].index, 1)
  <1>1. a \in ResponsesType /\ Booked(a) /\ a.sent \in Seq(ResponseEvents) /\ a.item[k] \in ItemType
    BY DEF Rows, ResponsesType
  <1>2. /\ b \in ResponsesType /\ Booked(b) /\ SameRest(a, b) /\ SameOthers(a, b, k)
        /\ b.item[k] = [a.item[k] EXCEPT !.size = @ + 1]
        /\ b.sent = Append(a.sent, e) /\ e \in ResponseEvents
    BY <1>1, GrowBooked
  <1>3. e.kind = k /\ e.type = "delta" /\ b.item[k].state = a.item[k].state
    BY <1>1, <1>2, ItemEvent DEF ItemType
  <1> HIDE DEF b, e
  <1>4. a.item[k].state = "open" =>
          At(b.sent, DonesOf(k)) = {} /\ \A m : Sealed(b.sent, k, m)
    <2>1. a.item[k].state = "open" => At(a.sent, DonesOf(k)) = {}
      BY DEF Rows
    <2>2. QED
      BY <1>1, <1>2, <1>3, <2>1, SealedNot
  <1>5. k \in {"reasoning", "text"} => InRow(b.sent, k) /\ AtEnd(b.sent, k)
    <2>1. k \in {"reasoning", "text"} => InRow(a.sent, k)
      BY DEF Rows, Ordered
    <2>2. QED
      BY <1>1, <1>2, <1>3, <2>1, RowMore
  <1>6. b.full = a.full
    BY <1>2 DEF SameRest
  <1>7. k \notin V => Sealed(b.sent, k, SizeOf(b, k))
    BY <1>4
  <1>8. b.item[k].state = "open" => At(b.sent, DonesOf(k)) = {}
    BY <1>3, <1>4
  <1>9. Rows(b, V)
    <2>1. k \in {"reasoning", "text"} => InRow(b.sent, k)
      BY <1>5
    <2>2. e.kind = k
      BY <1>3
    <2>3. QED
      BY <1>2, <2>1, <2>2, <1>6, <1>7, <1>8, RowsAppend
  <1>10. QED
    BY <1>5, <1>9 DEF b

\* The done events of an open item, with all of it.
LEMMA CloseRows ==
  ASSUME NEW V, NEW a, Rows(a, V), NEW k \in Items, a.item[k].state = "open",
         k \in {"reasoning", "text"} => AtEnd(a.sent, k)
  PROVE  Rows(CloseItem(a, k, SizeOf(a, k)), V)
  <1> DEFINE m == SizeOf(a, k)
             b == CloseItem(a, k, m)
             e == Event("done", k, a.item[k].index, m)
  <1>1. a \in ResponsesType /\ Booked(a) /\ a.sent \in Seq(ResponseEvents) /\ a.item[k] \in ItemType
    BY DEF Rows, ResponsesType
  <1>2. m \in Nat
    BY <1>1 DEF SizeOf, ResponsesType, ItemType
  <1> HIDE DEF m
  <1>3. /\ b \in ResponsesType /\ Booked(b) /\ SameRest(a, b) /\ SameOthers(a, b, k)
        /\ b.item[k] = [a.item[k] EXCEPT !.state = "closed"]
        /\ b.sent = Append(a.sent, e) /\ e \in ResponseEvents
    BY <1>1, <1>2, CloseItemBooked
  <1>4. /\ e.kind = k /\ e.type = "done" /\ e.size = m
        /\ b.item[k].state = "closed" /\ b.item[k].size = a.item[k].size
    BY <1>1, <1>3, ItemEvent DEF ItemType
  <1> HIDE DEF b, e
  <1>5. b.full = a.full
    BY <1>3 DEF SameRest
  <1>6. SizeOf(b, k) = m
    BY <1>4, <1>5 DEF SizeOf, m
  <1>7. At(a.sent, DonesOf(k)) = {}
    BY DEF Rows
  <1>8. Sealed(b.sent, k, SizeOf(b, k))
    BY <1>1, <1>3, <1>4, <1>6, <1>7, SealedDone
  <1>9. k \in {"reasoning", "text"} => InRow(b.sent, k)
    <2>1. k \in {"reasoning", "text"} => InRow(a.sent, k)
      BY DEF Rows, Ordered
    <2>2. QED
      BY <1>1, <1>3, <1>4, <2>1, RowMore
  <1>10. Rows(b, V)
    <2>1. b.item[k].state = "open" => At(b.sent, DonesOf(k)) = {}
      BY <1>4
    <2>2. e.kind = k
      BY <1>4
    <2>3. QED
      BY <1>3, <1>5, <1>8, <1>9, <2>1, <2>2, RowsAppend
  <1>11. QED
    BY <1>10 DEF b, m

\* Only the items, the text and the events count, of the text only when it is sealed.
LEMMA RowsRest ==
  ASSUME NEW V, NEW a, Rows(a, V), NEW b \in ResponsesType, b.item = a.item, b.sent = a.sent, b.next = a.next,
         b.full = a.full \/ At(a.sent, DonesOf("text")) = {}
  PROVE  Rows(b, V)
  <1>1. Booked(b)
    BY DEF Rows, Booked, Tracked, Indexed
  <1>2. ASSUME NEW k \in Items, k \notin V PROVE Sealed(b.sent, k, SizeOf(b, k))
    <2>1. Sealed(a.sent, k, SizeOf(a, k))
      BY <1>2 DEF Rows, Ordered
    <2>2. CASE k = "text" /\ At(a.sent, DonesOf("text")) = {}
      BY <2>2 DEF Sealed
    <2>3. CASE k # "text" \/ b.full = a.full
      BY <2>1, <2>3 DEF SizeOf
    <2>4. QED
      BY <2>2, <2>3
  <1>3. QED
    BY <1>1, <1>2 DEF Rows, Ordered

\* More items that may go on.
LEMMA RowsWiden ==
  ASSUME NEW V, NEW W, V \subseteq W, NEW a
  PROVE  (Ordered(a, V) => Ordered(a, W)) /\ (Rows(a, V) => Rows(a, W))
  BY DEF Rows, Ordered

\* Adapters with their books and their items in order.
RowSet(V) == {x \in KeptSet : Rows(x, V)}

\* Starting, growing and closing calls, which may go on when they are in V, keeps the
\* items in order.
LEMMA CallsInRow ==
  ASSUME NEW V
  PROVE  CallSteps(RowSet(V), V)
  <1>1. ASSUME NEW x \in RowSet(V), NEW k \in Calls
        PROVE  /\ x.item[k].state = "none" => StartCall(x, k) \in RowSet(V)
               /\ x.item[k].state = "open" \/ (x.item[k].state = "closed" /\ k \in V) => Grow(x, k) \in RowSet(V)
               /\ x.item[k].state = "open" => CloseItem(x, k, x.item[k].size) \in RowSet(V)
    <2>1. x \in KeptSet /\ Rows(x, V) /\ x \in ResponsesType /\ x.item[k] \in ItemType
      <3>1. x \in KeptSet /\ Rows(x, V)
        BY DEF RowSet
      <3>2. x \in ResponsesType
        BY <3>1 DEF Rows
      <3>3. k \in Items
        BY ItemKinds
      <3>4. QED
        BY <3>1, <3>2, <3>3 DEF ResponsesType
    <2>2. k \in Items /\ k \notin {"reasoning", "text"}
      BY ItemKinds
    <2>3. /\ x.item[k].state = "none" => StartCall(x, k) \in KeptSet
          /\ x.item[k].state = "open" \/ (x.item[k].state = "closed" /\ k \in Calls) => Grow(x, k) \in KeptSet
          /\ x.item[k].state = "open" => CloseItem(x, k, x.item[k].size) \in KeptSet
      BY <2>1, CallsKept DEF CallSteps
    <2>4. ASSUME x.item[k].state = "none" PROVE Rows(StartCall(x, k), V)
      <3> DEFINE y == AddItem(x, k)
                 z == [y EXCEPT !.calls = Append(y.calls, k)]
      <3>1. Rows(y, V)
        BY <2>1, <2>2, <2>4, AddRows
      <3>2. y \in ResponsesType
        BY <3>1 DEF Rows
      <3> HIDE DEF y
      <3>3. z \in ResponsesType /\ z.item = y.item /\ z.sent = y.sent /\ z.next = y.next /\ z.full = y.full
        <4>1. Append(y.calls, k) \in Seq(Calls)
          BY <3>2, AppendProperties DEF ResponsesType
        <4>2. QED
          BY <3>2, <4>1 DEF ResponsesType
      <3>4. StartCall(x, k) = z
        BY DEF StartCall, y
      <3> HIDE DEF z
      <3>5. Rows(z, V)
        BY <3>1, <3>3, RowsRest
      <3>6. QED
        BY <3>4, <3>5
    <2>5. ASSUME x.item[k].state = "open" \/ (x.item[k].state = "closed" /\ k \in V) PROVE Rows(Grow(x, k), V)
      BY <2>1, <2>2, <2>5, GrowRows
    <2>6. ASSUME x.item[k].state = "open" PROVE Rows(CloseItem(x, k, x.item[k].size), V)
      <3>1. SizeOf(x, k) = x.item[k].size
        BY <2>2 DEF SizeOf
      <3>2. Rows(CloseItem(x, k, SizeOf(x, k)), V)
        BY <2>1, <2>2, <2>6, CloseRows
      <3>3. QED
        BY <3>1, <3>2
    <2>7. QED
      BY <2>3, <2>4, <2>5, <2>6 DEF RowSet
  <1>2. RowSet(V) \subseteq ResponsesType
    BY DEF RowSet, KeptSet
  <1>3. QED
    BY <1>1, <1>2 DEF CallSteps

\* Without calls nothing is closed.
LEMMA NoCallsClosed ==
  ASSUME NEW a, a.calls = <<>>
  PROVE  CloseCalls(a) = a
  <1> DEFINE u == a.calls
             n == Len(u)
             Turn(x, i) == IF NeedsClose(x, u[i]) THEN CloseItem(x, u[i], x.item[u[i]].size) ELSE x
             Def(h) == h = [i \in 0..n |-> IF i = 0 THEN a ELSE Turn(h[i - 1], i)]
             g == [i \in 0..n |-> a]
  <1>1. n = 0 /\ \A i \in 0..n : i = 0
    OBVIOUS
  <1>2. 0 \in 0..n
    BY <1>1
  <1>3. CloseCalls(a) = (CHOOSE h : Def(h))[n]
    BY DEF CloseCalls
  <1> HIDE DEF n, u, Turn
  <1>4. Def(g)
    BY <1>1
  <1>5. Def(CHOOSE h : Def(h))
    <2> HIDE DEF Def
    <2>1. QED
      BY <1>4
  <1> DEFINE h == CHOOSE x : Def(x)
  <1>6. h = [i \in 0..n |-> IF i = 0 THEN a ELSE Turn(h[i - 1], i)]
    BY <1>5
  <1> HIDE DEF h
  <1>7. h[0] = a
    BY <1>2, <1>6
  <1>8. QED
    BY <1>1, <1>3, <1>7 DEF h

\* Without entries nothing is done.
LEMMA NoEntriesDone ==
  ASSUME NEW a
  PROVE  ToolEntries(a, <<>>) = a
  <1> DEFINE u == <<>>
             n == Len(u)
             Def(h) == h = [i \in 0..n |-> IF i = 0 THEN a ELSE ToolEntry(h[i - 1], u[i])]
             g == [i \in 0..n |-> a]
  <1>1. n = 0 /\ \A i \in 0..n : i = 0
    OBVIOUS
  <1>2. 0 \in 0..n
    BY <1>1
  <1>3. ToolEntries(a, u) = (CHOOSE h : Def(h))[n]
    BY DEF ToolEntries
  <1> HIDE DEF n, u
  <1>4. Def(g)
    BY <1>1
  <1>5. Def(CHOOSE h : Def(h))
    <2> HIDE DEF Def
    <2>1. QED
      BY <1>4
  <1> DEFINE h == CHOOSE x : Def(x)
  <1>6. h = [i \in 0..n |-> IF i = 0 THEN a ELSE ToolEntry(h[i - 1], u[i])]
    BY <1>5
  <1> HIDE DEF h
  <1>7. h[0] = a
    BY <1>2, <1>6
  <1>8. QED
    BY <1>1, <1>3, <1>7 DEF h, u

\* An event of the response.
LEMMA QuietOrder ==
  ASSUME NEW V, NEW a \in ResponsesType, Ordered(a, V), NEW e \in ResponseEvents, e.kind = "response",
         NEW b, b.item = a.item, b.full = a.full, b.sent = Append(a.sent, e)
  PROVE  /\ Ordered(b, V)
         /\ \A k \in Items : At(b.sent, DonesOf(k)) = At(a.sent, DonesOf(k))
                             /\ At(b.sent, EventsFor(k)) = At(a.sent, EventsFor(k))
  <1>1. a.sent \in Seq(ResponseEvents)
    BY DEF ResponsesType
  <1>2. \A k \in Items : e.kind # k
    BY CallsAssumption DEF Items
  <1>3. ASSUME NEW k \in Items
        PROVE  /\ At(b.sent, DonesOf(k)) = At(a.sent, DonesOf(k)) /\ At(b.sent, EventsFor(k)) = At(a.sent, EventsFor(k))
               /\ \A m : Sealed(a.sent, k, m) => Sealed(b.sent, k, m)
               /\ InRow(a.sent, k) => InRow(b.sent, k)
    BY <1>1, <1>2, OrderOther
  <1>4. ASSUME NEW k \in Items, k \notin V PROVE Sealed(b.sent, k, SizeOf(b, k))
    <2>1. SizeOf(b, k) = SizeOf(a, k)
      BY DEF SizeOf
    <2>2. Sealed(a.sent, k, SizeOf(a, k))
      BY <1>4 DEF Ordered
    <2>3. QED
      BY <1>3, <2>1, <2>2
  <1>5. InRow(b.sent, "reasoning") /\ InRow(b.sent, "text")
    BY <1>3, ItemKinds DEF Ordered
  <1>6. QED
    BY <1>3, <1>4, <1>5 DEF Ordered

\* response.completed is an event of the response.
LEMMA CompleteOrder ==
  ASSUME NEW V, NEW a \in ResponsesType, Ordered(a, V), NEW o \in Seq(OutputType), NEW v \in SUBSET AllTokens
  PROVE  Ordered(Complete(a, o, v), V)
  <1> DEFINE e0 == Event("completed", "response", 0, 0)
             e == [Telling(e0, v) EXCEPT !.output = o]
             b == Complete(a, o, v)
  <1>1. e0 \in ResponseEvents /\ e0.type = "completed" /\ e0.kind = "response"
    <2>1. "response" \in Items \cup {"response"} /\ 0 \in Nat
      OBVIOUS
    <2>2. QED
      BY <2>1, ResponseEvent
  <1>2. b.sent = Append(a.sent, e) /\ b.item = a.item /\ b.full = a.full
    BY DEF Complete, Emit, ResponsesType
  <1> HIDE DEF e0
  <1>3. Telling(e0, v) \in ResponseEvents /\ Telling(e0, v).kind = "response"
    BY <1>1 DEF Telling, ResponseEvents
  <1>4. e \in ResponseEvents /\ e.kind = "response"
    BY <1>3 DEF ResponseEvents
  <1> HIDE DEF e, b
  <1>5. Ordered(b, V)
    BY <1>2, <1>4, QuietOrder
  <1>6. QED
    BY <1>5 DEF b

\* Any other event of the response.
LEMMA EmitOrder ==
  ASSUME NEW V, NEW a \in ResponsesType, Ordered(a, V),
         NEW type \in {"created", "added", "delta", "done", "completed", "end", "error"}
  PROVE  LET b == Emit(a, Event(type, "response", 0, 0))
         IN  /\ Ordered(b, V) /\ b \in ResponsesType /\ b.item = a.item /\ b.full = a.full
             /\ b.sent = Append(a.sent, Event(type, "response", 0, 0))
             /\ \A k \in Items : At(b.sent, DonesOf(k)) = At(a.sent, DonesOf(k))
                                 /\ At(b.sent, EventsFor(k)) = At(a.sent, EventsFor(k))
  <1> DEFINE e == Event(type, "response", 0, 0)
             b == Emit(a, e)
  <1>1. e \in ResponseEvents /\ e.kind = "response"
    <2>1. "response" \in Items \cup {"response"} /\ 0 \in Nat
      OBVIOUS
    <2>2. QED
      BY <2>1, ResponseEvent
  <1> HIDE DEF e
  <1>2. b.sent = Append(a.sent, e) /\ b.item = a.item /\ b.full = a.full /\ b \in ResponsesType
    <2>1. Append(a.sent, e) \in Seq(ResponseEvents)
      BY <1>1, AppendFacts DEF ResponsesType
    <2>2. QED
      BY <2>1 DEF Emit, ResponsesType
  <1> HIDE DEF b
  <1>3. /\ Ordered(b, V)
        /\ \A k \in Items : At(b.sent, DonesOf(k)) = At(a.sent, DonesOf(k))
                            /\ At(b.sent, EventsFor(k)) = At(a.sent, EventsFor(k))
    BY <1>1, <1>2, QuietOrder
  <1>4. QED
    BY <1>2, <1>3 DEF b, e

\* The text that is open has come last, with no calls yet.
TextLast(a) == a.item["text"].state = "open" => AtEnd(a.sent, "text") /\ a.calls = <<>>

\* The text done at the finish.
LEMMA TextDoneOrder ==
  ASSUME NEW V, NEW a, Rows(a, V), a.item["text"].state = "open", AtEnd(a.sent, "text")
  PROVE  Ordered(Emit(a, Event("done", "text", a.item["text"].index, a.full)), V)
  <1> DEFINE e == Event("done", "text", a.item["text"].index, a.full)
             b == Emit(a, e)
             y == CloseItem(a, "text", a.full)
  <1>1. a \in ResponsesType /\ a.item["text"] \in ItemType /\ "text" \in Items
    BY ItemKinds DEF Rows, ResponsesType
  <1>2. Rows(y, V)
    <2>1. SizeOf(a, "text") = a.full
      BY DEF SizeOf
    <2>2. Rows(CloseItem(a, "text", SizeOf(a, "text")), V)
      BY <1>1, CloseRows
    <2>3. QED
      BY <2>1, <2>2
  <1>3. y.sent = Append(a.sent, e) /\ y.full = a.full /\ \A k \in Items : k # "text" => y.item[k] = a.item[k]
    BY <1>1 DEF CloseItem, Emit, ResponsesType
  <1>4. b.sent = Append(a.sent, e) /\ b.full = a.full /\ b.item = a.item
    BY <1>1 DEF Emit, ResponsesType
  <1> HIDE DEF e, b, y
  <1>5. \A k \in Items : SizeOf(b, k) = SizeOf(y, k)
    BY <1>3, <1>4 DEF SizeOf
  <1>6. Ordered(b, V)
    BY <1>2, <1>3, <1>4, <1>5 DEF Rows, Ordered
  <1>7. QED
    BY <1>6 DEF b, e

\* The finish, without calls of its own.
LEMMA FinishOrder ==
  ASSUME NEW V, NEW a, Kept(a), Rows(a, V), TextLast(a), NEW v \in SUBSET AllTokens, NEW w
  PROVE  Ordered(FormatFinish(a, <<>>, v, w), V)
  <1> DEFINE x == ToolEntries(a, <<>>)
             b == CloseCalls(x)
             text == b.item["text"]
             e == Event("done", "text", text.index, b.full)
             d == IF text.state = "open" THEN Emit(b, e) ELSE b
             message == IF text.state # "none" THEN <<[kind |-> "text", size |-> b.full]>> ELSE <<>>
             full == OutputOf("reasoning", d.thought) \o message \o CallsOutput(d)
             o == IF w THEN <<[kind |-> "upstream", size |-> 0]>> ELSE full
             r == IF b.calls # <<>> /\ text.state = "none" THEN [d EXCEPT !.deferred = v]
                  ELSE IF d.completed THEN d ELSE Complete(d, o, v)
  <1>1. FormatFinish(a, <<>>, v, w) = r
    BY DEF FormatFinish
  <1>2. x = a
    BY NoEntriesDone
  <1> HIDE DEF x
  <1>3. a \in RowSet(V) /\ a \in ResponsesType
    BY DEF RowSet, KeptSet, Kept
  <1>4. b \in RowSet(V) /\ \A k \in Items : k \notin ToSet(a.calls) => b.item[k] = a.item[k]
    <2>1. b = CloseCalls(a)
      BY <1>2
    <2> HIDE DEF b
    <2>2. LET z == CloseCalls(a)
          IN  z \in RowSet(V) /\ \A k \in Items : k \notin ToSet(a.calls) => z.item[k] = a.item[k]
      BY <1>3, CallsInRow, CloseCallsLead
    <2>3. QED
      BY <2>1, <2>2
  <1>5. text.state = "open" => AtEnd(b.sent, "text")
    <2>1. a.item["text"] = text
      <3>1. "text" \notin ToSet(a.calls)
        <4>1. a.calls \in Seq(Calls)
          BY <1>3 DEF ResponsesType
        <4>2. \A i \in DOMAIN a.calls : a.calls[i] \in Calls
          BY <4>1, ElementOfSeq, LenProperties
        <4>3. QED
          BY <4>2, ItemKinds DEF ToSet
      <3> HIDE DEF b
      <3>2. QED
        BY <1>4, <3>1, ItemKinds
    <2>2. SUFFICES ASSUME text.state = "open" PROVE AtEnd(b.sent, "text")
      OBVIOUS
    <2>3. AtEnd(a.sent, "text") /\ a.calls = <<>>
      BY <2>1, <2>2 DEF TextLast
    <2>4. b = a
      BY <1>2, <2>3, NoCallsClosed
    <2> HIDE DEF b
    <2>5. QED
      BY <2>3, <2>4
  <1> HIDE DEF b
  <1>6. Kept(b) /\ Rows(b, V) /\ b \in ResponsesType
    BY <1>4 DEF RowSet, KeptSet
  <1>7. /\ Ordered(d, V) /\ Kept(d) /\ d.full = b.full /\ d.item = b.item
    <2>1. CASE text.state = "open"
      <3> DEFINE z == Emit(b, Event("done", "text", b.item["text"].index, b.full))
      <3>1. d = z
        BY <2>1
      <3>2. Ordered(z, V)
        BY <1>5, <1>6, <2>1, TextDoneOrder
      <3>3. Kept(z) /\ SameRest(b, z) /\ z.item = b.item
        BY <1>6, <2>1, TextDoneKept
      <3> HIDE DEF z, d
      <3>4. QED
        BY <3>1, <3>2, <3>3 DEF SameRest
    <2>2. CASE text.state # "open"
      BY <1>6, <2>2 DEF Rows
    <2>3. QED
      BY <2>1, <2>2
  <1> HIDE DEF d
  <1>8. d \in ResponsesType /\ d.thought \in Nat /\ b.full \in Nat
    BY <1>6, <1>7 DEF Kept, ResponsesType
  <1>9. o \in Seq(OutputType)
    <2>1. message \in Seq(OutputType)
      <3>1. <<[kind |-> "text", size |-> b.full]>> \in Seq(OutputType) /\ <<>> \in Seq(OutputType)
        BY <1>6, <1>8, OutputTypes
      <3>2. QED
        BY <3>1
    <2> HIDE DEF message
    <2>2. OutputOf("reasoning", d.thought) \in Seq(OutputType) /\ CallsOutput(d) \in Seq(OutputType)
      BY <1>8, OutputTypes
    <2>3. OutputOf("reasoning", d.thought) \o message \in Seq(OutputType)
      BY <2>1, <2>2, ConcatProperties
    <2>4. full \in Seq(OutputType)
      BY <2>2, <2>3, ConcatProperties
    <2> HIDE DEF full
    <2>5. <<[kind |-> "upstream", size |-> 0]>> \in Seq(OutputType)
      BY <1>8, OutputTypes
    <2>6. QED
      BY <2>4, <2>5
  <1> HIDE DEF o
  <1>10. Ordered(Complete(d, o, v), V)
    BY <1>7, <1>8, <1>9, CompleteOrder
  <1>11. Ordered([d EXCEPT !.deferred = v], V)
    <2> DEFINE z == [d EXCEPT !.deferred = v]
    <2>1. z.sent = d.sent /\ z.item = d.item /\ z.full = d.full
      BY <1>8 DEF ResponsesType
    <2> HIDE DEF z
    <2>2. Ordered(z, V)
      BY <1>7, <2>1 DEF Ordered, SizeOf
    <2>3. QED
      BY <2>2 DEF z
  <1>12. QED
    BY <1>1, <1>7, <1>10, <1>11

\* The kinds of content one after the other, and no calls in the finish.
Tidy(f) ==
  /\ \A i \in DOMAIN f : Single(f[i]) /\ (f[i].finish => f[i].tools = <<>>)
  /\ \A i, j \in DOMAIN f : i < j => \A k \in KindsIn(f[i]), l \in KindsIn(f[j]) : k <= l

\* The calls that go on behind the entry that made their arguments parse.
Parsing(c, k) == \E i \in DOMAIN c.tools : c.tools[i].call = k /\ c.tools[i].args = "last"
Naming(c, k) == \E i \in DOMAIN c.tools : c.tools[i].call = k
Overruns(f) == {k \in Calls : \E i, j \in DOMAIN f : i < j /\ Parsing(f[i], k) /\ Naming(f[j], k)}

HasText(f) == \E i \in DOMAIN f : f[i].text
HasTools(f) == \E i \in DOMAIN f : f[i].tools # <<>>
HasEnding(f, k) == \E i \in DOMAIN f : Parsing(f[i], k)

\* A chunk more.
LEMMA FedParts ==
  ASSUME NEW f \in Seq(ChunkType), NEW c \in ChunkType
  PROVE  LET g == Append(f, c)
         IN  /\ HasText(g) <=> HasText(f) \/ c.text
             /\ HasTools(g) <=> HasTools(f) \/ c.tools # <<>>
             /\ \A k : HasEnding(g, k) <=> HasEnding(f, k) \/ Parsing(c, k)
             /\ Overruns(f) \subseteq Overruns(g)
             /\ \A k \in Calls : HasEnding(f, k) /\ Naming(c, k) => k \in Overruns(g)
  <1> DEFINE g == Append(f, c)
             l == Len(f) + 1
  <1>1. /\ Len(f) \in Nat /\ \A i \in 1..Len(f) : g[i] = f[i]
        /\ g[l] = c /\ DOMAIN f = 1..Len(f) /\ DOMAIN g = 1..l
    BY AppendFacts
  <1> HIDE DEF g
  <1>2. /\ DOMAIN g = DOMAIN f \cup {l} /\ \A i \in DOMAIN f : g[i] = f[i] /\ i < l
    BY <1>1
  <1>3. HasText(g) <=> HasText(f) \/ c.text
    BY <1>1, <1>2 DEF HasText
  <1>4. HasTools(g) <=> HasTools(f) \/ c.tools # <<>>
    BY <1>1, <1>2 DEF HasTools
  <1>5. \A k : HasEnding(g, k) <=> HasEnding(f, k) \/ Parsing(c, k)
    BY <1>1, <1>2 DEF HasEnding
  <1>6. Overruns(f) \subseteq Overruns(g)
    BY <1>2 DEF Overruns
  <1>7. ASSUME NEW k \in Calls, HasEnding(f, k), Naming(c, k) PROVE k \in Overruns(g)
    <2>1. PICK i \in DOMAIN f : Parsing(f[i], k)
      BY <1>7 DEF HasEnding
    <2>2. i \in DOMAIN g /\ l \in DOMAIN g /\ i < l /\ Parsing(g[i], k) /\ Naming(g[l], k)
      BY <1>1, <1>2, <1>7, <2>1
    <2>3. QED
      BY <2>2 DEF Overruns
  <1>8. QED
    BY <1>3, <1>4, <1>5, <1>6, <1>7 DEF g

\* What the order of the chunks says of the last one.
LEMMA TidyAppend ==
  ASSUME NEW f \in Seq(ChunkType), NEW c \in ChunkType, Tidy(Append(f, c))
  PROVE  /\ Tidy(f) /\ Single(c) /\ (c.finish => c.tools = <<>>)
         /\ c.reasoning => ~HasText(f) /\ ~HasTools(f)
         /\ c.text => ~HasTools(f)
  <1> DEFINE g == Append(f, c)
             l == Len(f) + 1
  <1>1. /\ Len(f) \in Nat /\ \A i \in 1..Len(f) : g[i] = f[i]
        /\ g[l] = c /\ DOMAIN f = 1..Len(f) /\ DOMAIN g = 1..l
    BY AppendFacts
  <1>2. Tidy(g)
    OBVIOUS
  <1> HIDE DEF g
  <1>3. /\ DOMAIN g = DOMAIN f \cup {l} /\ \A i \in DOMAIN f : g[i] = f[i] /\ i < l
    BY <1>1
  <1>4. Tidy(f) /\ Single(c) /\ (c.finish => c.tools = <<>>)
    <2>1. \A i \in DOMAIN g : Single(g[i]) /\ (g[i].finish => g[i].tools = <<>>)
      BY <1>2 DEF Tidy
    <2>2. \A i, j \in DOMAIN f : i < j => \A k \in KindsIn(f[i]), m \in KindsIn(f[j]) : k <= m
      BY <1>2, <1>3 DEF Tidy
    <2>3. \A i \in DOMAIN f : Single(f[i]) /\ (f[i].finish => f[i].tools = <<>>)
      BY <1>3, <2>1
    <2>4. Single(g[l]) /\ (g[l].finish => g[l].tools = <<>>)
      BY <1>3, <2>1
    <2>5. QED
      BY <1>1, <2>2, <2>3, <2>4 DEF Tidy
  <1>5. \A i \in DOMAIN f : \A k \in KindsIn(f[i]), m \in KindsIn(c) : k <= m
    <2>1. ASSUME NEW i \in DOMAIN f, NEW k \in KindsIn(f[i]), NEW m \in KindsIn(c) PROVE k <= m
      <3>1. i \in DOMAIN g /\ l \in DOMAIN g /\ i < l /\ g[i] = f[i] /\ g[l] = c
        BY <1>1, <1>3
      <3>2. k \in KindsIn(g[i]) /\ m \in KindsIn(g[l])
        BY <2>1, <3>1
      <3>3. QED
        BY <1>2, <3>1, <3>2 DEF Tidy
    <2>2. QED
      BY <2>1
  <1>6. ASSUME c.reasoning, HasText(f) \/ HasTools(f) PROVE FALSE
    <2>1. 1 \in KindsIn(c)
      BY <1>6, Kinds
    <2>2. PICK i \in DOMAIN f : f[i].text \/ f[i].tools # <<>>
      BY <1>6 DEF HasText, HasTools
    <2>3. 2 \in KindsIn(f[i]) \/ 3 \in KindsIn(f[i])
      BY <2>2, Kinds
    <2>4. 2 <= 1 \/ 3 <= 1
      BY <1>5, <2>1, <2>3
    <2>5. QED
      BY <2>4
  <1>7. ASSUME c.text, HasTools(f) PROVE FALSE
    <2>1. 2 \in KindsIn(c)
      BY <1>7, Kinds
    <2>2. PICK i \in DOMAIN f : f[i].tools # <<>>
      BY <1>7 DEF HasTools
    <2>3. 3 \in KindsIn(f[i])
      BY <2>2, Kinds
    <2>4. 3 <= 2
      BY <1>5, <2>1, <2>3
    <2>5. QED
      BY <2>4
  <1>8. QED
    BY <1>4, <1>6, <1>7

\* How far the reasoning and the text have come, with the chunks of f.
ReasoningPhase(a, f) ==
  /\ a.item["reasoning"].state = "open" => AtEnd(a.sent, "reasoning") /\ ~HasText(f) /\ ~HasTools(f)
  /\ a.item["reasoning"].state = "closed" => HasText(f) \/ HasTools(f)
TextPhase(a, f) ==
  /\ a.item["text"].state # "none" => HasText(f)
  /\ a.item["text"].state = "open" => ~HasTools(f)
  /\ a.item["text"].state = "closed" => HasTools(f)
CallsPhase(a, f) == \A k \in Calls : a.item[k].state = "closed" => HasEnding(f, k)
Phased(a, f) == ReasoningPhase(a, f) /\ TextPhase(a, f) /\ CallsPhase(a, f)

\* What a chunk c finds, once its reasoning has been seen to.
Poised(b, f, c, V) ==
  /\ Kept(b) /\ Rows(b, V) /\ TextLast(b) /\ Opened(b) = Started(f)
  /\ TextPhase(b, f) /\ CallsPhase(b, f)
  /\ b.item["reasoning"].state = "open" => AtEnd(b.sent, "reasoning") /\ ~HasText(f) /\ ~HasTools(f) /\ ~c.text
  /\ b.item["reasoning"].state = "closed" => HasText(f) \/ HasTools(f) \/ c.text

\* The reasoning of a chunk.
LEMMA ReasoningPoised ==
  ASSUME NEW f \in Seq(ChunkType), NEW c \in ChunkType, Tidy(Append(f, c)), NEW V,
         NEW a, Kept(a), Rows(a, V), TextLast(a), Opened(a) = Started(f), Phased(a, f)
  PROVE  Poised(ReasoningPart(a, c), f, c, V)
  <1> DEFINE b == ReasoningPart(a, c)
  <1>1. Single(c) /\ (c.reasoning => ~HasText(f) /\ ~HasTools(f))
    BY TidyAppend
  <1>2. /\ Kept(b) /\ SameOthers(a, b, "reasoning") /\ b.calls = a.calls
        /\ ~c.reasoning /\ ~c.text => b = a
    BY ReasoningPartKept
  <1>3. a \in ResponsesType /\ "reasoning" \in Items /\ a.item["reasoning"] \in ItemType
    BY ItemKinds DEF Kept, ResponsesType
  <1>4. b.item["text"] = a.item["text"] /\ Opened(b) = Started(f) /\ TextPhase(b, f) /\ CallsPhase(b, f)
    <2> HIDE DEF b
    <2>1. b.item["text"] = a.item["text"] /\ \A k \in Calls : b.item[k] = a.item[k]
      BY <1>2, ItemKinds DEF SameOthers
    <2>2. QED
      BY <2>1 DEF Opened, TextPhase, CallsPhase, Phased
  <1>5. CASE ~c.reasoning /\ ~c.text
    <2>1. b = a
      BY <1>2, <1>5
    <2> HIDE DEF b
    <2>2. QED
      BY <1>4, <1>5, <2>1 DEF Poised, Phased, ReasoningPhase, b
  <1>6. CASE c.reasoning
    <2> DEFINE x == IF a.item["reasoning"].state = "none" THEN AddItem(a, "reasoning") ELSE a
               y == Grow(x, "reasoning")
    <2>1. ~c.text /\ ~HasText(f) /\ ~HasTools(f)
      BY <1>1, <1>6 DEF Single
    <2>2. b = y
      BY <1>6, <2>1 DEF ReasoningPart
    <2>3. a.item["reasoning"].state # "closed" /\ a.item["text"].state = "none"
      BY <2>1 DEF Phased, ReasoningPhase, TextPhase
    <2>4. Rows(x, V) /\ AtEnd(x.sent, "reasoning") /\ x.item["reasoning"].state = "open"
      <3>1. CASE a.item["reasoning"].state = "none"
        <4> DEFINE z == AddItem(a, "reasoning")
        <4>1. Rows(z, V) /\ AtEnd(z.sent, "reasoning")
          BY <1>3, <3>1, AddRows
        <4>2. z.item["reasoning"] = [state |-> "open", index |-> a.next, size |-> 0]
          BY <1>3, <3>1, AddItemBooked DEF Kept
        <4>3. x = z
          BY <3>1
        <4> HIDE DEF z, x
        <4>4. QED
          BY <4>1, <4>2, <4>3
      <3>2. CASE a.item["reasoning"].state # "none"
        <4>1. a.item["reasoning"].state = "open"
          BY <1>3, <2>3, <3>2 DEF ItemType
        <4>2. QED
          BY <3>2, <4>1 DEF Phased, ReasoningPhase
      <3>3. QED
        BY <3>1, <3>2
    <2> HIDE DEF x
    <2>5. Rows(y, V) /\ AtEnd(y.sent, "reasoning")
      BY <1>3, <2>4, GrowRows
    <2>6. b.item["reasoning"].state = "open"
      <3>1. x \in ResponsesType /\ Booked(x) /\ x.item["reasoning"] \in ItemType
        BY <1>3, <2>4 DEF Rows, ResponsesType
      <3>2. y.item["reasoning"] = [x.item["reasoning"] EXCEPT !.size = @ + 1]
        BY <1>3, <2>4, <3>1, GrowBooked
      <3> HIDE DEF y, b
      <3>3. y.item["reasoning"].state = x.item["reasoning"].state
        BY <3>1, <3>2 DEF ItemType
      <3>4. QED
        BY <2>2, <2>4, <3>3
    <2> HIDE DEF y, b
    <2>7. TextLast(b)
      BY <1>4, <2>3 DEF TextLast
    <2>8. QED
      BY <1>2, <1>4, <2>1, <2>2, <2>5, <2>6, <2>7 DEF Poised, b
  <1>7. CASE c.text /\ ~c.reasoning
    <2>1. b = CloseReasoning(a)
      BY <1>7 DEF ReasoningPart
    <2>2. CASE a.item["reasoning"].state = "open"
      <3>1. a.item["text"].state = "none" /\ AtEnd(a.sent, "reasoning")
        BY <2>2 DEF Phased, ReasoningPhase, TextPhase
      <3>2. SizeOf(a, "reasoning") = a.item["reasoning"].size
        BY DEF SizeOf
      <3>3. Rows(CloseItem(a, "reasoning", SizeOf(a, "reasoning")), V)
        BY <1>3, <2>2, <3>1, CloseRows
      <3>4. Rows(b, V)
        BY <2>1, <2>2, <3>2, <3>3 DEF CloseReasoning
      <3>5. b.item["reasoning"].state # "open"
        BY <2>1, ReasoningClosed
      <3> HIDE DEF b
      <3>6. TextLast(b)
        BY <1>4, <3>1 DEF TextLast
      <3>7. QED
        BY <1>2, <1>4, <1>7, <3>4, <3>5, <3>6 DEF Poised, b
    <2>3. CASE a.item["reasoning"].state # "open"
      <3>1. b = a
        BY <2>1, <2>3 DEF CloseReasoning
      <3> HIDE DEF b
      <3>2. QED
        BY <1>4, <1>7, <2>3, <3>1 DEF Poised, b
    <2>4. QED
      BY <2>2, <2>3
  <1>8. QED
    BY <1>5, <1>6, <1>7

\* No calls were listed before the first chunk with tools.
LEMMA NoCallsYet ==
  ASSUME NEW f \in Seq(ChunkType), ~HasTools(f), NEW a \in ResponsesType, Listed(a), Opened(a) = Started(f)
  PROVE  a.calls = <<>>
  <1>1. Started(f) = {}
    <2>1. \A c \in ToSet(f) : c.tools = <<>>
      BY DEF HasTools, ToSet
    <2>2. ToSet(<<>>) = {}
      BY DEF ToSet
    <2>3. Entries(f) = {}
      BY <2>1, <2>2 DEF Entries
    <2>4. QED
      BY <2>3 DEF Started
  <1>2. ToSet(a.calls) = {} /\ a.calls \in Seq(Calls)
    BY <1>1 DEF Listed, ResponsesType
  <1>3. DOMAIN a.calls = {}
    BY <1>2 DEF ToSet
  <1>4. Len(a.calls) \in Nat /\ DOMAIN a.calls = 1 .. Len(a.calls)
    BY <1>2, LenProperties
  <1>5. Len(a.calls) = 0
    <2>1. 1 \notin 1 .. Len(a.calls)
      BY <1>3, <1>4
    <2>2. QED
      BY <1>4, <2>1
  <1>6. QED
    BY <1>2, <1>5, EmptySeq

\* An item that was not added is not done.
LEMMA NotDone ==
  ASSUME NEW V, NEW a, Rows(a, V), NEW k \in Items, a.item[k].state # "closed"
  PROVE  At(a.sent, DonesOf(k)) = {}
  <1>1. a.item[k] \in ItemType
    BY DEF Rows, ResponsesType
  <1>2. CASE a.item[k].state = "open"
    BY <1>2 DEF Rows
  <1>3. CASE a.item[k].state = "none"
    <2>1. At(a.sent, EventsFor(k)) = {}
      BY <1>3 DEF Rows, Booked, Tracked, Tells
    <2>2. QED
      BY <2>1 DEF At, EventsFor, DonesOf
  <1>4. QED
    BY <1>1, <1>2, <1>3 DEF ItemType

\* A chunk without calls or a finish.
LEMMA PieceOrder ==
  ASSUME NEW f \in Seq(ChunkType), NEW c \in ChunkType, ~c.finish, c.tools = <<>>, Tidy(Append(f, c)),
         NEW V, NEW b, Poised(b, f, c, V)
  PROVE  LET r == Delta(b, c) IN Rows(r, V) /\ TextLast(r) /\ Phased(r, Append(f, c))
  <1> DEFINE n == IF c.text THEN 1 ELSE 0
             m == b.full + n
             x == [b EXCEPT !.full = m]
             z == ToolEntries(x, c.tools)
             d == IF z.item["text"].state = "none" THEN AddItem(z, "text") ELSE z
             r == IF c.text THEN Grow(d, "text") ELSE z
             g == Append(f, c)
  <1>1. Delta(b, c) = r
    BY DEF Delta, FormatDelta
  <1>2. z = x
    BY NoEntriesDone
  <1> HIDE DEF z
  <1>3. b \in ResponsesType /\ Kept(b) /\ Rows(b, V) /\ "text" \in Items /\ b.item["text"] \in ItemType
    BY ItemKinds DEF Poised, Kept, ResponsesType
  <1>4. n \in Nat /\ m \in Nat /\ (~c.text => m = b.full)
    BY <1>3 DEF ResponsesType
  <1>5. /\ Single(c) /\ (c.text => ~HasTools(f))
        /\ HasText(g) <=> HasText(f) \/ c.text
        /\ HasTools(g) <=> HasTools(f)
        /\ \A k : HasEnding(f, k) => HasEnding(g, k)
    BY TidyAppend, FedParts
  <1>6. c.text => b.item["text"].state # "closed" /\ b.item["reasoning"].state # "open" /\ b.calls = <<>>
    <2>1. Listed(b) /\ Opened(b) = Started(f)
      BY <1>3 DEF Kept, Poised
    <2>2. ~HasTools(f) => b.calls = <<>>
      BY <1>3, <2>1, NoCallsYet
    <2>3. QED
      BY <1>5, <2>2 DEF Poised, TextPhase
  <1> HIDE DEF n, m
  <1>7. /\ x \in ResponsesType /\ x.item = b.item /\ x.sent = b.sent /\ x.calls = b.calls /\ x.next = b.next
        /\ x.full = m
    BY <1>3, <1>4 DEF ResponsesType
  <1> HIDE DEF x, g
  <1>8. Rows(x, V)
    <2>1. c.text => At(b.sent, DonesOf("text")) = {}
      BY <1>3, <1>6, NotDone
    <2>2. x.full = b.full \/ At(b.sent, DonesOf("text")) = {}
      BY <1>4, <1>7, <2>1
    <2>3. QED
      BY <1>3, <1>7, <2>2, RowsRest
  <1>9. CASE ~c.text
    <2>1. r = x
      BY <1>2, <1>9
    <2> HIDE DEF r
    <2>2. TextLast(r)
      BY <1>7, <2>1 DEF Poised, TextLast
    <2>3. ReasoningPhase(r, g) /\ TextPhase(r, g) /\ CallsPhase(r, g)
      BY <1>5, <1>7, <1>9, <2>1 DEF Poised, ReasoningPhase, TextPhase, CallsPhase
    <2>4. QED
      BY <1>1, <1>8, <2>1, <2>2, <2>3 DEF Phased, g
  <1>10. CASE c.text
    <2>1. Kept(x)
      BY <1>3, <1>7, KeptRest
    <2> DEFINE y == IF x.item["text"].state = "none" THEN AddItem(x, "text") ELSE x
               q == Grow(y, "text")
    <2>2. /\ Kept(q) /\ SameOthers(x, q, "text") /\ q.calls = x.calls
          /\ q.item["text"].state = IF x.item["text"].state = "none" THEN "open" ELSE x.item["text"].state
      BY <2>1, PieceKept
    <2>3. r = q
      BY <1>2, <1>10
    <2>4. x.item["text"].state \in {"none", "open"}
      BY <1>3, <1>6, <1>7, <1>10 DEF ItemType
    <2>5. Rows(y, V) /\ AtEnd(y.sent, "text") /\ y.item["text"].state = "open"
      <3>1. CASE x.item["text"].state = "none"
        <4> DEFINE p == AddItem(x, "text")
        <4>1. Rows(p, V) /\ AtEnd(p.sent, "text")
          BY <1>3, <1>8, <3>1, AddRows
        <4>2. p.item["text"] = [state |-> "open", index |-> x.next, size |-> 0]
          BY <1>3, <2>1, <3>1, AddItemBooked DEF Kept
        <4>3. y = p
          BY <3>1
        <4> HIDE DEF p, y
        <4>4. QED
          BY <4>1, <4>2, <4>3
      <3>2. CASE x.item["text"].state # "none"
        <4>1. x.item["text"].state = "open" /\ AtEnd(x.sent, "text")
          BY <1>7, <2>4, <3>2 DEF Poised, TextLast
        <4>2. QED
          BY <1>8, <3>2, <4>1
      <3>3. QED
        BY <3>1, <3>2
    <2> HIDE DEF y
    <2>6. Rows(q, V) /\ AtEnd(q.sent, "text")
      BY <1>3, <2>5, GrowRows
    <2> HIDE DEF q, r
    <2>7. q.item["text"].state = "open"
      BY <2>2, <2>4
    <2>8. q.item["reasoning"] = b.item["reasoning"] /\ \A k \in Calls : q.item[k] = b.item[k]
      BY <1>7, <2>2, ItemKinds DEF SameOthers
    <2>9. q.calls = <<>>
      BY <1>6, <1>7, <1>10, <2>2
    <2>10. TextLast(q)
      BY <2>6, <2>9 DEF TextLast
    <2>11. ReasoningPhase(q, g) /\ TextPhase(q, g) /\ CallsPhase(q, g)
      BY <1>5, <1>6, <1>10, <2>7, <2>8 DEF Poised, ReasoningPhase, TextPhase, CallsPhase
    <2>12. QED
      BY <1>1, <2>3, <2>6, <2>10, <2>11 DEF Phased, g
  <1>11. QED
    BY <1>9, <1>10

\* The reasoning is closed before what follows it.
LEMMA ReasoningOrder ==
  ASSUME NEW f, NEW c, NEW V, NEW b, Poised(b, f, c, V)
  PROVE  LET x == CloseReasoning(b)
         IN  /\ Kept(x) /\ Rows(x, V) /\ TextLast(x) /\ SameRest(b, x) /\ SameOthers(b, x, "reasoning")
             /\ x.item["reasoning"].state # "open" /\ Opened(x) = Opened(b)
  <1> DEFINE x == CloseReasoning(b)
  <1>1. Kept(b) /\ Rows(b, V) /\ "reasoning" \in Items /\ "text" \in Items
    BY ItemKinds DEF Poised
  <1>2. /\ Kept(x) /\ SameRest(b, x) /\ SameOthers(b, x, "reasoning") /\ x.item["reasoning"].state # "open"
        /\ Opened(x) = Opened(b)
    BY <1>1, ReasoningClosed
  <1>3. CASE b.item["reasoning"].state = "open"
    <2>1. AtEnd(b.sent, "reasoning") /\ b.item["text"].state = "none"
      BY <1>3 DEF Poised, TextPhase
    <2>2. SizeOf(b, "reasoning") = b.item["reasoning"].size
      BY DEF SizeOf
    <2>3. Rows(CloseItem(b, "reasoning", SizeOf(b, "reasoning")), V)
      BY <1>1, <1>3, <2>1, CloseRows
    <2>4. x = CloseItem(b, "reasoning", SizeOf(b, "reasoning"))
      BY <1>3, <2>2 DEF CloseReasoning
    <2> HIDE DEF x
    <2>5. x.item["text"].state = "none"
      BY <1>1, <1>2, <2>1 DEF SameOthers
    <2>6. TextLast(x)
      BY <2>5 DEF TextLast
    <2>7. QED
      BY <1>2, <2>3, <2>4, <2>6 DEF x
  <1>4. CASE b.item["reasoning"].state # "open"
    <2>1. x = b
      BY <1>4 DEF CloseReasoning
    <2> HIDE DEF x
    <2>2. QED
      BY <1>1, <1>2, <2>1 DEF Poised, x
  <1>5. QED
    BY <1>3, <1>4

\* What calls find: the reasoning and the text are closed before them.
LEMMA ClosedOrder ==
  ASSUME NEW f, NEW c, NEW V, NEW b, Poised(b, f, c, V)
  PROVE  LET y == CloseText(CloseReasoning(b))
         IN  /\ Kept(y) /\ Rows(y, V) /\ Opened(y) = Started(f) /\ CallsPhase(y, f)
             /\ y.item["reasoning"].state # "open" /\ y.item["text"].state # "open"
             /\ y.item["text"].state # "none" => HasText(f)
  <1> DEFINE x == CloseReasoning(b)
             y == CloseText(x)
  <1>1. Opened(b) = Started(f) /\ "reasoning" \in Items /\ "text" \in Items
    BY ItemKinds DEF Poised
  <1>2. /\ Kept(x) /\ Rows(x, V) /\ TextLast(x) /\ SameOthers(b, x, "reasoning")
        /\ x.item["reasoning"].state # "open" /\ Opened(x) = Opened(b)
    BY ReasoningOrder
  <1> HIDE DEF x
  <1>4. /\ Kept(y) /\ SameOthers(x, y, "text") /\ y.item["text"].state # "open" /\ Opened(y) = Opened(x)
        /\ (y.item["text"].state = "none" <=> x.item["text"].state = "none")
    BY <1>2, TextClosed, CloseKept
  <1>5. Rows(y, V)
    <2>1. CASE x.item["text"].state = "open"
      <3>1. SizeOf(x, "text") = x.full /\ AtEnd(x.sent, "text")
        BY <1>2, <2>1 DEF SizeOf, TextLast
      <3>2. Rows(CloseItem(x, "text", SizeOf(x, "text")), V)
        BY <1>1, <1>2, <2>1, <3>1, CloseRows
      <3>3. QED
        BY <2>1, <3>1, <3>2 DEF CloseText
    <2>2. CASE x.item["text"].state # "open"
      <3>1. y = x
        BY <2>2 DEF CloseText
      <3> HIDE DEF y
      <3>2. QED
        BY <1>2, <3>1
    <2>3. QED
      BY <2>1, <2>2
  <1> HIDE DEF y
  <1>6. /\ y.item["reasoning"].state # "open" /\ \A k \in Calls : y.item[k] = b.item[k]
        /\ x.item["text"] = b.item["text"]
    BY <1>1, <1>2, <1>4, ItemKinds DEF SameOthers
  <1>7. CallsPhase(y, f)
    BY <1>6 DEF CallsPhase, Poised
  <1>8. y.item["text"].state # "none" => HasText(f)
    BY <1>4, <1>6 DEF Poised, TextPhase
  <1>9. QED
    BY <1>1, <1>2, <1>4, <1>5, <1>6, <1>7, <1>8 DEF x, y

\* A chunk with calls.
LEMMA CallsOrder ==
  ASSUME NEW f \in Seq(ChunkType), NEW c, Shape(c, f), ~c.finish, c.tools # <<>>, Tidy(Append(f, c)),
         NEW b, Poised(b, f, c, Overruns(Append(f, c)))
  PROVE  LET r == Delta(b, c)
             g == Append(f, c)
         IN  Rows(r, Overruns(g)) /\ TextLast(r) /\ Phased(r, g)
  <1> DEFINE n == IF c.text THEN 1 ELSE 0
             m == b.full + n
             x == [b EXCEPT !.full = m]
             y == CloseText(CloseReasoning(b))
             g == Append(f, c)
             V == Overruns(g)
             u == c.tools
             r == ToolEntries(y, u)
  <1>1. c \in ChunkType /\ b \in ResponsesType /\ Poised(b, f, c, V)
    BY DEF Shape, Poised, Kept
  <1>2. Single(c) /\ ~c.text
    BY <1>1, TidyAppend DEF Single
  <1>3. x = b
    <2>1. n = 0 /\ b.full \in Nat
      BY <1>1, <1>2 DEF ResponsesType
    <2> HIDE DEF n
    <2>2. m = b.full
      BY <2>1
    <2> HIDE DEF m
    <2>3. QED
      BY <1>1, <2>2 DEF ResponsesType
  <1>4. Delta(b, c) = FormatDelta(CloseText(CloseReasoning(x)), c)
    BY DEF Delta
  <1>5. Delta(b, c) = r
    BY <1>2, <1>3, <1>4 DEF FormatDelta
  <1> HIDE DEF n, m, x
  <1>6. /\ HasText(f) => HasText(g)
        /\ HasTools(g)
        /\ \A k : HasEnding(g, k) <=> HasEnding(f, k) \/ Parsing(c, k)
        /\ \A k \in Calls : HasEnding(f, k) /\ Naming(c, k) => k \in V
    BY <1>1, FedParts
  <1> HIDE DEF V, g
  <1>7. /\ Kept(y) /\ Rows(y, V) /\ Opened(y) = Started(f) /\ CallsPhase(y, f)
        /\ y.item["reasoning"].state # "open" /\ y.item["text"].state # "open"
        /\ y.item["text"].state # "none" => HasText(f)
    BY <1>1, ClosedOrder
  <1> HIDE DEF y
  <1>8. y \in RowSet(V) /\ CallSteps(RowSet(V), V) /\ y \in ResponsesType
    BY <1>7, CallsInRow DEF RowSet, KeptSet, Kept
  <1>9. /\ u \in Seq(ToolType) /\ \A i \in DOMAIN u : Fits(y, u[i], Calls)
        /\ \A i, j \in DOMAIN u : i # j => u[i].call # u[j].call
    BY <1>7, <1>8, ChunkFits
  <1>10. \A i \in DOMAIN u : u[i].call \in Calls
    <2>1. \A i \in DOMAIN u : u[i] \in ToolType
      BY <1>9, ElementOfSeq, LenProperties
    <2>2. QED
      BY <2>1 DEF ToolType
  <1>11. \A i \in DOMAIN u : Fits(y, u[i], V)
    <2>1. ASSUME NEW i \in DOMAIN u PROVE Fits(y, u[i], V)
      <3> DEFINE k == u[i].call
      <3>1. Naming(c, k) /\ k \in Calls
        BY <1>10 DEF Naming
      <3>2. y.item[k].state = "closed" => k \in V
        BY <1>6, <1>7, <3>1 DEF CallsPhase
      <3>3. Fits(y, u[i], Calls)
        BY <1>9
      <3>4. QED
        BY <3>2, <3>3 DEF Fits
    <2>2. QED
      BY <2>1
  <1>12. r \in RowSet(V) /\ Worked(y, r, u)
    <2> HIDE DEF u
    <2>1. QED
      BY <1>8, <1>9, <1>11, ToolEntriesLead
  <1> HIDE DEF r
  <1>13. r.item["reasoning"] = y.item["reasoning"] /\ r.item["text"] = y.item["text"]
    <2>1. \A i \in DOMAIN u : u[i].call # "reasoning" /\ u[i].call # "text"
      BY <1>10, ItemKinds
    <2>2. QED
      BY <1>12, <2>1, ItemKinds DEF Worked
  <1>14. TextLast(r) /\ ReasoningPhase(r, g) /\ TextPhase(r, g)
    BY <1>6, <1>7, <1>13 DEF TextLast, ReasoningPhase, TextPhase
  <1>15. CallsPhase(r, g)
    <2>1. ASSUME NEW k \in Calls, r.item[k].state = "closed" PROVE HasEnding(g, k)
      <3>1. CASE \A i \in DOMAIN u : u[i].call # k
        <4>1. r.item[k] = y.item[k]
          BY <1>12, <3>1, ItemKinds DEF Worked
        <4>2. QED
          BY <1>6, <1>7, <2>1, <4>1 DEF CallsPhase
      <3>2. CASE \E i \in DOMAIN u : u[i].call = k
        <4>1. PICK i \in DOMAIN u : u[i].call = k
          BY <3>2
        <4>2. y.item[k].state = "closed" \/ u[i].args = "last"
          BY <1>12, <2>1, <4>1 DEF Worked
        <4>3. u[i].args = "last" => Parsing(c, k)
          BY <4>1 DEF Parsing
        <4>4. QED
          BY <1>6, <1>7, <4>2, <4>3 DEF CallsPhase
      <3>3. QED
        BY <3>1, <3>2
    <2>2. QED
      BY <2>1 DEF CallsPhase
  <1>16. Rows(r, V)
    BY <1>12 DEF RowSet
  <1>17. QED
    BY <1>5, <1>14, <1>15, <1>16 DEF Phased, V, g

\* A finish that waits for its usage.
LEMMA WaitOrder ==
  ASSUME NEW f \in Seq(ChunkType), NEW c \in ChunkType, Tidy(Append(f, c)), NEW V, NEW b, Poised(b, f, c, V)
  PROVE  LET r == FinishAlone(b, c) IN Rows(r, V) /\ TextLast(r)
  <1> DEFINE x == CloseReasoning(b)
             n == IF c.text THEN 1 ELSE 0
             m == x.full + n
             r == [x EXCEPT !.full = m, !.buffered = <<c>>]
  <1>1. FinishAlone(b, c) = r
    BY DEF FinishAlone
  <1>2. Kept(x) /\ Rows(x, V) /\ TextLast(x) /\ SameOthers(b, x, "reasoning")
    BY ReasoningOrder
  <1> HIDE DEF x
  <1>3. x \in ResponsesType /\ m \in Nat /\ (~c.text => m = x.full)
    BY <1>2 DEF Kept, ResponsesType
  <1>4. <<c>> \in Seq(ChunkType)
    OBVIOUS
  <1> HIDE DEF n, m
  <1>5. /\ r \in ResponsesType /\ r.item = x.item /\ r.sent = x.sent /\ r.calls = x.calls /\ r.next = x.next
        /\ r.full = m
    BY <1>3, <1>4 DEF ResponsesType
  <1> HIDE DEF r
  <1>6. c.text => At(x.sent, DonesOf("text")) = {}
    <2>1. c.text => ~HasTools(f)
      BY TidyAppend
    <2>2. c.text => x.item["text"].state # "closed"
      BY <1>2, <2>1, ItemKinds DEF Poised, TextPhase, SameOthers
    <2>3. QED
      BY <1>2, <2>2, ItemKinds, NotDone
  <1>7. r.full = x.full \/ At(x.sent, DonesOf("text")) = {}
    BY <1>3, <1>5, <1>6
  <1>8. Rows(r, V)
    BY <1>2, <1>5, <1>7, RowsRest
  <1>9. TextLast(r)
    BY <1>2, <1>5 DEF TextLast
  <1>10. QED
    BY <1>1, <1>8, <1>9

\* What comes with the usage of a finish without calls.
LEMMA AnswerOrder ==
  ASSUME NEW V, NEW a, Kept(a), Rows(a, V), TextLast(a), NEW n \in Nat, NEW v \in SUBSET AllTokens, NEW w
  PROVE  Ordered(FormatFinish([a EXCEPT !.buffered = <<>>, !.thought = n], <<>>, v, w), V)
  <1> DEFINE y == [a EXCEPT !.buffered = <<>>, !.thought = n]
  <1>1. /\ y \in ResponsesType /\ y.item = a.item /\ y.sent = a.sent /\ y.calls = a.calls /\ y.next = a.next
        /\ y.full = a.full
    BY EmptySeq DEF Kept, ResponsesType
  <1> HIDE DEF y
  <1>2. Kept(y) /\ Rows(y, V)
    BY <1>1, KeptRest, RowsRest
  <1>3. TextLast(y)
    BY <1>1 DEF TextLast
  <1>4. Ordered(FormatFinish(y, <<>>, v, w), V)
    BY <1>2, <1>3, FinishOrder
  <1>5. QED
    BY <1>4 DEF y

\* A finish that comes with its usage.
LEMMA FinishUsageOrder ==
  ASSUME NEW f \in Seq(ChunkType), NEW c \in ChunkType, c.finish, Tidy(Append(f, c)), NEW V,
         NEW b, Poised(b, f, c, V)
  PROVE  Ordered(FinishWithUsage(b, c), V)
  <1> DEFINE x == CloseReasoning(b)
             n == x.item["reasoning"].size
             r == FormatFinish([x EXCEPT !.buffered = <<>>, !.thought = n], <<>>, c.usage, c.verbatim)
  <1>1. c.tools = <<>>
    BY TidyAppend
  <1>2. FinishWithUsage(b, c) = r
    BY <1>1 DEF FinishWithUsage
  <1>3. Kept(x) /\ Rows(x, V) /\ TextLast(x)
    BY ReasoningOrder
  <1> HIDE DEF x
  <1>4. n \in Nat /\ c.usage \in SUBSET AllTokens
    BY <1>3, ItemKinds DEF Kept, ResponsesType, ItemType, ChunkType
  <1> HIDE DEF n
  <1>5. Ordered(r, V)
    BY <1>3, <1>4, AnswerOrder
  <1>6. QED
    BY <1>2, <1>5

\* What holds of the order of the items until the finish, while the finish waits, and
\* behind it, when the content of the stream is in order.
Arranged(a, f) ==
  Tidy(f) =>
    /\ Ordered(a, Overruns(f))
    /\ At(f, FinishChunks) = {} \/ a.buffered # <<>> => Rows(a, Overruns(f)) /\ TextLast(a)
    /\ At(f, FinishChunks) = {} => Phased(a, f)

\* A chunk that brings nothing to the adapter.
LEMMA IdleArranged ==
  ASSUME NEW f \in Seq(ChunkType), NEW c \in ChunkType, ~c.finish, ~c.text, ~c.reasoning, c.tools = <<>>,
         NEW a, Arranged(a, f)
  PROVE  Arranged(a, Append(f, c))
  <1> DEFINE g == Append(f, c)
  <1>1. /\ HasText(g) <=> HasText(f)
        /\ HasTools(g) <=> HasTools(f)
        /\ \A k : HasEnding(f, k) => HasEnding(g, k)
        /\ Overruns(f) \subseteq Overruns(g)
    BY FedParts
  <1>2. (At(g, FinishChunks) = {} <=> At(f, FinishChunks) = {}) /\ (Tidy(g) => Tidy(f))
    BY FedMore, TidyAppend
  <1> HIDE DEF g
  <1>3. SUFFICES ASSUME Tidy(g) PROVE Arranged(a, g)
    BY DEF Arranged, g
  <1>4. Ordered(a, Overruns(g)) /\ (Rows(a, Overruns(f)) => Rows(a, Overruns(g)))
    BY <1>1, <1>2, <1>3, RowsWiden DEF Arranged
  <1>5. Phased(a, f) => Phased(a, g)
    BY <1>1 DEF Phased, ReasoningPhase, TextPhase, CallsPhase
  <1>6. QED
    BY <1>2, <1>3, <1>4, <1>5 DEF Arranged

\* Without events no item is open.
LEMMA SilentItems ==
  ASSUME NEW a, Booked(a), a.sent = <<>>, NEW k \in Items
  PROVE  a.item[k].state = "none"
  <1>1. At(a.sent, Additions) = {}
    BY CountEmpty
  <1>2. QED
    BY <1>1 DEF Booked, Tracked, Tells

\* response.created goes out first.
LEMMA OpenArranged ==
  ASSUME NEW a, Kept(a), NEW f, Arranged(a, f)
  PROVE  Arranged(Open(a), f)
  <1> DEFINE b == Emit(a, Event("created", "response", 0, 0))
             V == Overruns(f)
  <1>1. CASE a.sent # <<>>
    <2>1. Open(a) = a
      BY <1>1 DEF Open
    <2>2. QED
      BY <2>1
  <1>2. CASE a.sent = <<>>
    <2>1. Open(a) = b
      BY <1>2 DEF Open
    <2>2. Kept(b) /\ SameRest(a, b)
      BY <2>1, OpenKept
    <2>3. SUFFICES ASSUME Tidy(f) PROVE Arranged(b, f)
      BY <2>1 DEF Arranged
    <2>4. a \in ResponsesType /\ Booked(a) /\ Ordered(a, V)
      BY <2>3 DEF Kept, Arranged
    <2>5. Ordered(b, V) /\ b.item = a.item
      BY <2>4, EmitOrder
    <2> HIDE DEF b, V
    <2>6. \A k \in Items : b.item[k].state = "none"
      BY <1>2, <2>4, <2>5, SilentItems
    <2>7. Rows(b, V)
      BY <2>2, <2>5, <2>6 DEF Rows, Kept
    <2>8. TextLast(b) /\ Phased(b, f)
      BY <2>6, ItemKinds DEF TextLast, Phased, ReasoningPhase, TextPhase, CallsPhase
    <2>9. QED
      BY <2>5, <2>7, <2>8 DEF Arranged, V
  <1>3. QED
    BY <1>1, <1>2

\* Usage alone, for a finish that waits.
LEMMA ArrivalArranged ==
  ASSUME NEW a, NEW f, NEW u, ResponsesLive(a, f, u), NEW b, Balanced(b, f), SameRest(a, b),
         At(b.sent, Completions) = At(a.sent, Completions), NEW c \in ChunkType, Arranged(b, f)
  PROVE  Arranged(UsageArrives(b, c), f)
  <1>1. CASE b.buffered = <<>>
    BY <1>1 DEF UsageArrives
  <1>2. CASE b.buffered # <<>>
    <2> DEFINE n == b.item["reasoning"].size
               r == FormatFinish([b EXCEPT !.buffered = <<>>, !.thought = n], <<>>, c.usage, FALSE)
    <2>1. At(f, FinishChunks) # {} /\ b.buffered[1].tools = <<>>
      <3>1. a.buffered # <<>> /\ b.buffered = a.buffered
        BY <1>2 DEF SameRest
      <3>2. QED
        BY <3>1 DEF ResponsesLive, Completing, Parked
    <2>2. UsageArrives(b, c) = r
      BY <1>2, <2>1 DEF UsageArrives
    <2>3. UsageArrives(b, c).buffered = <<>>
      BY ArrivalBalanced
    <2>4. Kept(b) /\ n \in Nat /\ c.usage \in SUBSET AllTokens
      BY ItemKinds DEF Balanced, Kept, ResponsesType, ItemType, ChunkType
    <2> HIDE DEF n
    <2>5. ASSUME Tidy(f) PROVE Ordered(r, Overruns(f))
      <3>1. Rows(b, Overruns(f)) /\ TextLast(b)
        BY <1>2, <2>5 DEF Arranged
      <3>2. QED
        BY <2>4, <3>1, AnswerOrder
    <2> HIDE DEF r
    <2>6. r.buffered = <<>>
      BY <2>2, <2>3
    <2>7. Arranged(r, f)
      BY <2>1, <2>5, <2>6 DEF Arranged
    <2>8. QED
      BY <2>2, <2>7
  <1>3. QED
    BY <1>1, <1>2

\* Usage alone adds nothing to what was fed.
LEMMA UsageArranged ==
  ASSUME NEW a, NEW f, NEW u, ResponsesLive(a, f, u), Balanced(a, f), Arranged(a, f), NEW c \in ChunkType, UsageOnly(c)
  PROVE  Arranged(ResponsesFeed(a, c), f)
  <1> DEFINE o == Open(a)
             b == ReasoningPart(o, c)
  <1>1. CASE a.sent = <<>> /\ IsMarker(c)
    BY <1>1 DEF ResponsesFeed
  <1>2. CASE ~(a.sent = <<>> /\ IsMarker(c))
    <2>1. /\ Balanced(o, f) /\ SameRest(a, o) /\ At(o.sent, Completions) = At(a.sent, Completions)
      BY OpenBalanced
    <2>2. ~c.finish /\ ~c.text /\ ~c.reasoning
      BY DEF UsageOnly
    <2>3. ProcessChunk(o, c) = UsageArrives(b, c)
      BY <2>2 DEF ProcessChunk
    <2>4. ResponsesFeed(a, c) = ProcessChunk(o, c)
      BY <1>2 DEF ResponsesFeed
    <2>5. Arranged(o, f)
      BY OpenArranged DEF Balanced
    <2> HIDE DEF o
    <2>6. b = o
      BY <2>1, <2>2, ReasoningPartKept DEF Balanced
    <2> HIDE DEF b
    <2>7. Arranged(UsageArrives(o, c), f)
      BY <2>1, <2>5, ArrivalArranged
    <2>8. QED
      BY <2>3, <2>4, <2>6, <2>7
  <1>3. QED
    BY <1>1, <1>2

\* A turn of the loop keeps the items in order.
LEMMA ArrangedStep ==
  ASSUME NEW a, NEW f \in Seq(ChunkType), NEW u, NEW c, ResponsesLive(a, f, u), Balanced(a, f), Arranged(a, f),
         Shape(c, f), At(f, FinishChunks) = {} \/ UsageOnly(c)
  PROVE  Arranged(ResponsesFeed(a, c), Append(f, c))
  <1> DEFINE o == Open(a)
             b == ReasoningPart(o, c)
             r == ResponsesFeed(a, c)
             g == Append(f, c)
             V == Overruns(g)
  <1>1. c \in ChunkType
    BY DEF Shape
  <1>2. CASE UsageOnly(c)
    <2>1. Arranged(r, f)
      BY <1>1, <1>2, UsageArranged
    <2>2. c.tools = <<>> /\ ~c.finish /\ ~c.text /\ ~c.reasoning
      BY <1>2 DEF UsageOnly
    <2> HIDE DEF r
    <2>3. QED
      BY <1>1, <2>1, <2>2, IdleArranged DEF r
  <1>3. CASE a.sent = <<>> /\ IsMarker(c)
    <2>1. r = a
      BY <1>3 DEF ResponsesFeed
    <2>2. c.tools = <<>> /\ ~c.finish /\ ~c.text /\ ~c.reasoning
      BY <1>3 DEF IsMarker
    <2> HIDE DEF r
    <2>3. Arranged(a, g)
      BY <1>1, <2>2, IdleArranged
    <2> HIDE DEF g
    <2>4. QED
      BY <2>1, <2>3 DEF r, g
  <1>4. CASE ~UsageOnly(c) /\ ~(a.sent = <<>> /\ IsMarker(c))
    <2>1. At(f, FinishChunks) = {}
      BY <1>4
    <2>2. r = IF c.finish /\ c.usage # {} THEN FinishWithUsage(b, c)
              ELSE IF c.finish THEN FinishAlone(b, c) ELSE Delta(b, c)
      BY <1>4 DEF ResponsesFeed, ProcessChunk
    <2> HIDE DEF r
    <2>3. SUFFICES ASSUME Tidy(g) PROVE Arranged(r, g)
      BY DEF Arranged, r
    <2>4. Prepared(b, f) /\ Opened(o) = Started(f)
      BY <1>1, <2>1, BeginPrepared
    <2>5. Kept(o) /\ Arranged(o, f)
      BY OpenBalanced, OpenArranged DEF Balanced
    <2>6. Tidy(f) /\ Overruns(f) \subseteq V /\ (At(g, FinishChunks) = {} <=> ~c.finish)
      BY <1>1, <2>1, <2>3, FedParts, FedMore, TidyAppend
    <2> HIDE DEF o
    <2>7. Rows(o, V) /\ TextLast(o) /\ Phased(o, f)
      BY <2>1, <2>5, <2>6, RowsWiden DEF Arranged
    <2>8. Poised(b, f, c, V)
      BY <1>1, <2>3, <2>4, <2>5, <2>7, ReasoningPoised
    <2> HIDE DEF b
    <2>9. CASE c.finish /\ c.usage # {}
      <3> DEFINE x == FinishWithUsage(b, c)
      <3>1. x.buffered = <<>>
        BY <2>4, <2>9, FinishBalanced
      <3>2. Ordered(x, V)
        BY <1>1, <2>3, <2>8, <2>9, FinishUsageOrder
      <3>3. r = x
        BY <2>2, <2>9
      <3> HIDE DEF x, g
      <3>4. QED
        BY <2>6, <2>9, <3>1, <3>2, <3>3 DEF Arranged
    <2>10. CASE c.finish /\ c.usage = {}
      <3> DEFINE x == FinishAlone(b, c)
      <3>1. Rows(x, V) /\ TextLast(x)
        BY <1>1, <2>3, <2>8, WaitOrder
      <3>2. r = x
        BY <2>2, <2>10
      <3> HIDE DEF x, g
      <3>3. QED
        BY <2>6, <2>10, <3>1, <3>2 DEF Arranged, Rows
    <2>11. CASE ~c.finish
      <3> DEFINE x == Delta(b, c)
      <3>1. Rows(x, V) /\ TextLast(x) /\ Phased(x, g)
        <4>1. CASE c.tools = <<>>
          BY <1>1, <2>3, <2>8, <2>11, <4>1, PieceOrder
        <4>2. CASE c.tools # <<>>
          BY <2>3, <2>8, <2>11, <4>2, CallsOrder
        <4>3. QED
          BY <4>1, <4>2
      <3>2. r = x
        BY <2>2, <2>11
      <3> HIDE DEF x, g
      <3>3. QED
        BY <2>6, <2>11, <3>1, <3>2 DEF Arranged, Rows
    <2>12. QED
      BY <2>9, <2>10, <2>11
  <1>5. QED
    BY <1>2, <1>3, <1>4

\* Nothing was fed yet.
LEMMA StartArranged ==
  ASSUME ResponsesStart \in ResponsesType
  PROVE  Arranged(ResponsesStart, <<>>)
  <1> DEFINE a == ResponsesStart
  <1>1. Kept(a) /\ a.sent = <<>> /\ a.item = [k \in Items |-> NoItem]
    BY StartBalanced DEF Balanced, ResponsesStart
  <1> HIDE DEF a
  <1>2. \A k \in Items : a.item[k].state = "none"
    BY <1>1, SilentItems DEF Kept
  <1>3. \A T : At(a.sent, T) = {}
    BY <1>1, CountEmpty
  <1>4. \A V : Ordered(a, V)
    BY <1>3 DEF Ordered, Sealed, InRow
  <1>5. \A V : Rows(a, V)
    BY <1>1, <1>2, <1>4 DEF Rows, Kept
  <1>6. TextLast(a) /\ Phased(a, <<>>)
    BY <1>2, ItemKinds DEF TextLast, Phased, ReasoningPhase, TextPhase, CallsPhase
  <1>7. QED
    BY <1>4, <1>5, <1>6 DEF Arranged, a

\* What the end leaves: the events up to the completed response, and the end marker. The
\* reasoning is listed unless the finish, w, still waited for its usage.
Final(d, f, w) ==
  /\ Kept(d) /\ d.full = d.item["text"].size + Count(f, LateChunks)
  /\ Tidy(f) => Ordered(d, Overruns(f))
  /\ At(d.sent, Completions) = {Len(d.sent)}
  /\ At(f, FinishChunks) # {} =>
       /\ Shut(d)
       /\ \/ d.sent[Len(d.sent)].output = <<Upstream>>
          \/ Lists(d.sent[Len(d.sent)].output, d, IF w = <<>> THEN Items ELSE Items \ {"reasoning"})

\* The end completes the response, if that was put off, and marks the end.
LEMMA EndBalanced ==
  ASSUME NEW a, NEW f \in Seq(ChunkType), NEW u, ResponsesLive(a, f, u), Balanced(a, f), Arranged(a, f)
  PROVE  \E d : Final(d, f, a.buffered) /\ ResponsesEnd(a) = Emit(d, Event("end", "response", 0, 0))
  <1> DEFINE o == Open(a)
             b == IF o.buffered = <<>> THEN o
                  ELSE FormatFinish(o, o.buffered[1].tools, o.buffered[1].usage, FALSE)
             n == b.item["reasoning"].size
             m == IF b.item["text"].state = "none" THEN 0 ELSE b.full
             x == OutputOf("text", m)
             w == OutputOf("reasoning", n) \o OutputOf("text", m) \o CallsOutput(b)
             d == IF b.completed THEN b ELSE Complete(b, w, b.deferred)
             z == Event("end", "response", 0, 0)
             V == Overruns(f)
             K == IF a.buffered = <<>> THEN Items ELSE Items \ {"reasoning"}
  <1>1. ResponsesEnd(a) = Emit(d, z)
    BY DEF ResponsesEnd
  <1>2. /\ Balanced(o, f) /\ SameRest(a, o) /\ At(o.sent, Completions) = At(a.sent, Completions)
        /\ Arranged(o, f)
    BY OpenBalanced, OpenArranged DEF Balanced
  <1> HIDE DEF o
  <1>3. /\ Kept(b) /\ b.full = b.item["text"].size + Count(f, LateChunks)
        /\ b.completed => At(f, FinishChunks) # {}
        /\ ~b.completed => At(b.sent, Completions) = {}
        /\ At(f, FinishChunks) # {} => Shut(b) /\ Concluded(b, K)
        /\ Tidy(f) => Ordered(b, V)
    <2>1. CASE o.buffered = <<>> /\ At(f, FinishChunks) = {}
      <3>1. ~a.completed /\ At(a.sent, Completions) = {}
        BY <2>1, WaitingOpen
      <3>2. b = o
        BY <2>1
      <3> HIDE DEF b
      <3>3. QED
        BY <1>2, <2>1, <3>1, <3>2 DEF Balanced, SameRest, Arranged
    <2>2. CASE o.buffered = <<>> /\ At(f, FinishChunks) # {}
      <3>1. b = o
        BY <2>2
      <3> HIDE DEF b
      <3>2. Kept(b) /\ b.full = b.item["text"].size + Count(f, LateChunks) /\ Shut(b) /\ Concluded(b, Items)
        BY <1>2, <2>2, <3>1 DEF Balanced
      <3>3. Concluded(b, K) /\ (~b.completed => At(b.sent, Completions) = {})
        BY <3>2 DEF Concluded, Lists
      <3>4. Tidy(f) => Ordered(b, V)
        BY <1>2, <3>1 DEF Arranged
      <3>5. QED
        BY <2>2, <3>2, <3>3, <3>4
    <2>3. CASE o.buffered # <<>>
      <3> DEFINE r == FormatFinish(o, <<>>, {}, FALSE)
      <3>1. a.buffered # <<>> /\ o.buffered = a.buffered /\ o.completed = a.completed
        BY <1>2, <2>3 DEF SameRest
      <3>2. /\ At(f, FinishChunks) # {} /\ o.buffered[1].tools = <<>> /\ o.buffered[1].usage = {}
        BY <3>1 DEF ResponsesLive, Completing, Parked
      <3>3. ~o.completed /\ At(o.sent, Completions) = {}
        BY <1>2, <3>1, WaitingOpen
      <3>4. <<>> \in Seq(ToolType) /\ DOMAIN <<>> = {} /\ {} \in SUBSET AllTokens /\ FALSE \in BOOLEAN
        BY EmptySeq
      <3>5. \A i \in DOMAIN <<>> : Fits(o, <<>>[i], Calls)
        BY <3>4
      <3>6. \A i, j \in DOMAIN <<>> : i # j => <<>>[i].call # <<>>[j].call
        BY <3>4
      <3>7. Kept(o) /\ o.item["reasoning"].state # "open"
        BY <1>2, <3>2 DEF Balanced
      <3>8. /\ Kept(r) /\ Shut(r) /\ r.full = o.full /\ r.item["text"] = o.item["text"]
            /\ Concluded(r, Items \ {"reasoning"})
        BY <3>3, <3>4, <3>5, <3>6, <3>7, FinishKept
      <3>9. Tidy(f) => Ordered(r, V)
        <4>1. Tidy(f) => Rows(o, V) /\ TextLast(o)
          BY <1>2, <2>3 DEF Arranged
        <4>2. QED
          BY <3>4, <3>7, <4>1, FinishOrder
      <3>10. b = r
        BY <2>3, <3>2
      <3> HIDE DEF r, b
      <3>11. ~r.completed => At(r.sent, Completions) = {}
        BY <3>8 DEF Concluded
      <3>12. QED
        BY <1>2, <3>1, <3>2, <3>8, <3>9, <3>10, <3>11 DEF Balanced
    <2>4. QED
      BY <2>1, <2>2, <2>3
  <1> HIDE DEF b
  <1>4. CASE b.completed
    <2>1. d = b
      BY <1>4
    <2> HIDE DEF d
    <2>2. Concluded(b, K) /\ At(f, FinishChunks) # {} /\ Shut(b)
      BY <1>3, <1>4
    <2>3. Final(d, f, a.buffered)
      BY <1>3, <1>4, <2>1, <2>2 DEF Final, Concluded
    <2>4. QED
      BY <1>1, <2>3 DEF d
  <1>5. CASE ~b.completed
    <2>1. b \in ResponsesType /\ n \in Nat /\ m \in Nat /\ b.deferred \in SUBSET AllTokens
      BY <1>3, ItemKinds DEF Kept, ResponsesType, ItemType
    <2>2. x \in Seq(OutputType)
      <3> HIDE DEF m, n
      <3>1. QED
        BY <2>1, OutputTypes
    <2>3. b.item["text"].state # "none" => Whole(b, "text") \in ToSet(x)
      <3>1. SUFFICES ASSUME b.item["text"].state # "none" PROVE Whole(b, "text") \in ToSet(x)
        OBVIOUS
      <3>2. b.item["text"].size > 0 /\ b.item["text"].size \in Nat /\ Count(f, LateChunks) \in Nat
        BY <1>3, <3>1, ItemKinds, CountZero DEF Kept, ResponsesType, ItemType
      <3>3. m = b.full /\ m # 0
        BY <1>3, <3>1, <3>2
      <3>4. x = <<Whole(b, "text")>>
        BY <3>3 DEF OutputOf, Whole
      <3> HIDE DEF x
      <3>5. 1 \in DOMAIN x /\ x[1] = Whole(b, "text")
        BY <3>4
      <3>6. QED
        BY <3>5 DEF ToSet
    <2>4. w \in Seq(OutputType) /\ Lists(w, b, Items)
      <3> DEFINE y == OutputOf("reasoning", n) \o x \o CallsOutput(b)
      <3>1. y = w
        OBVIOUS
      <3> HIDE DEF x
      <3>2. /\ y \in Seq(OutputType)
            /\ n = b.item["reasoning"].size => Lists(y, b, Items)
        <4>1. n = b.item["reasoning"].size
          OBVIOUS
        <4> HIDE DEF n
        <4>2. QED
          BY <1>3, <2>1, <2>2, <2>3, OutputLists
      <3>3. n = b.item["reasoning"].size
        OBVIOUS
      <3> HIDE DEF y, w
      <3>4. QED
        BY <3>1, <3>2, <3>3
    <2> HIDE DEF w
    <2> DEFINE s == Complete(b, w, b.deferred)
    <2>5. s = d
      BY <1>5
    <2>6. /\ Kept(s) /\ s.item = b.item /\ s.full = b.full
          /\ At(s.sent, Completions) = {Len(s.sent)} /\ s.sent[Len(s.sent)].output = w
          /\ \A k \in Items : At(s.sent, DonesOf(k)) = At(b.sent, DonesOf(k))
      BY <1>3, <1>5, <2>1, <2>4, CompleteKept
    <2> HIDE DEF s, d
    <2>7. Lists(w, s, K)
      BY <2>4, <2>6 DEF Lists, Whole
    <2>8. Shut(b) => Shut(s)
      BY <2>6 DEF Shut
    <2>9. Tidy(f) => Ordered(s, V)
      <3>1. Tidy(f) => Ordered(Complete(b, w, b.deferred), V)
        BY <1>3, <2>1, <2>4, CompleteOrder
      <3>2. QED
        BY <3>1 DEF s
    <2>10. Final(s, f, a.buffered)
      BY <1>3, <2>6, <2>7, <2>8, <2>9 DEF Final
    <2>11. QED
      BY <1>1, <2>5, <2>10 DEF d
  <1>6. QED
    BY <1>4, <1>5

\* The books of the adapter and the order of its items within the stream, and behind
\* its end.
BalancedInv ==
  api = "responses" =>
    IF phase = "ended"
    THEN \E a : /\ ResponsesLive(a, fed, usage) /\ Balanced(a, fed) /\ Arranged(a, fed)
                /\ outcome = "exhausted" => Spent(a, usage)
                /\ adapter = IF outcome = "failed" THEN ResponsesError(a) ELSE ResponsesEnd(a)
    ELSE Balanced(adapter, fed) /\ Arranged(adapter, fed)

\* The books of a stream of the Responses API balance, and its items are in order.
THEOREM BalancedInduction == Spec => []BalancedInv
  <1>1. Init /\ ResponsesInv => BalancedInv
    <2> SUFFICES ASSUME Init, ResponsesInv, api = "responses"
                 PROVE  Balanced(adapter, fed) /\ Arranged(adapter, fed)
      BY DEF Init, BalancedInv
    <2>1. fed = <<>> /\ adapter = ResponsesStart /\ phase = "streaming"
      BY DEF Init
    <2>2. ResponsesStart \in ResponsesType
      BY <2>1 DEF ResponsesInv, ResponsesLive
    <2>3. QED
      BY <2>1, <2>2, StartBalanced, StartArranged
  <1>2. FedInv /\ WrapperInv /\ ResponsesInv /\ BalancedInv /\ [Next]_vars => BalancedInv'
    <2> SUFFICES ASSUME FedInv, WrapperInv, ResponsesInv, BalancedInv, [Next]_vars, api = "responses"
                 PROVE  /\ phase' = "ended" =>
                             \E a : /\ ResponsesLive(a, fed', usage') /\ Balanced(a, fed') /\ Arranged(a, fed')
                                    /\ outcome' = "exhausted" => Spent(a, usage')
                                    /\ adapter' = IF outcome' = "failed" THEN ResponsesError(a) ELSE ResponsesEnd(a)
                        /\ phase' # "ended" => Balanced(adapter', fed') /\ Arranged(adapter', fed')
      <3>1. [Next]_vars => api' = api
        BY DEF Next, Feed, Exhaust, Fail, Leave, Unwind, Record, LeaveReconciling, Close, vars
      <3>2. QED
        BY <3>1 DEF BalancedInv
    <2>1. phase # "ended" => /\ ResponsesLive(adapter, fed, usage) /\ Balanced(adapter, fed)
                             /\ Arranged(adapter, fed)
                             /\ outcome = "exhausted" => Spent(adapter, usage)
      BY DEF ResponsesInv, BalancedInv
    <2>2. fed \in Seq(ChunkType) /\ usage \in SUBSET AllTokens
      BY DEF FedInv, WrapperInv
    <2>3. CASE Feed
      <3>1. PICK c \in Upcoming : /\ fed' = Append(fed, c)
                                  /\ AdapterFeed(Stripped(c))
        BY <2>3 DEF Feed
      <3>2. phase = "streaming" /\ phase' = phase
        BY <2>3 DEF Feed
      <3>3. adapter' = ResponsesFeed(adapter, c)
        BY <3>1 DEF AdapterFeed, Stripped
      <3>4. Shape(c, fed) /\ (At(fed, FinishChunks) = {} \/ UsageOnly(c))
        BY UpcomingTurn
      <3>5. LET r == ResponsesFeed(adapter, c)
            IN  Balanced(r, Append(fed, c)) /\ Arranged(r, Append(fed, c))
        BY <2>1, <2>2, <3>2, <3>4, BalancedStep, ArrangedStep
      <3>6. QED
        BY <3>1, <3>2, <3>3, <3>5
    <2>4. CASE Exhaust
      <3>1. /\ phase = "streaming" /\ phase' = "unwinding" /\ fed' = fed
            /\ IF usage = {} THEN adapter' = adapter ELSE AdapterFeed(Using(Chunk, usage))
        BY <2>4 DEF Exhaust
      <3>2. ResponsesLive(adapter, fed, usage) /\ Balanced(adapter, fed) /\ Arranged(adapter, fed)
        BY <2>1, <3>1
      <3>3. Balanced(adapter', fed) /\ Arranged(adapter', fed)
        <4>1. CASE usage = {}
          BY <3>1, <3>2, <4>1
        <4>2. CASE usage # {}
          <5> DEFINE c == Using(Chunk, usage)
          <5>1. adapter' = ResponsesFeed(adapter, c)
            BY <3>1, <4>2 DEF AdapterFeed
          <5>2. c \in ChunkType /\ UsageOnly(c)
            <6>1. /\ Chunk \in ChunkType /\ Chunk.tools = <<>> /\ ~Chunk.finish /\ ~HasContent(Chunk)
              BY PlainChunks
            <6>2. /\ c \in ChunkType /\ c.finish = Chunk.finish /\ c.usage = usage /\ c.tools = Chunk.tools
                  /\ c.text = Chunk.text /\ c.reasoning = Chunk.reasoning
              BY <2>2, <6>1, UsingChunk
            <6> HIDE DEF c
            <6>3. QED
              BY <4>2, <6>1, <6>2 DEF UsageOnly, HasContent
          <5> HIDE DEF c
          <5>3. LET r == ResponsesFeed(adapter, c) IN Balanced(r, fed) /\ Arranged(r, fed)
            BY <3>2, <5>2, UsageBalanced, UsageArranged
          <5>4. QED
            BY <5>1, <5>3
        <4>3. QED
          BY <4>1, <4>2
      <3>4. QED
        BY <3>1, <3>3
    <2>5. CASE Fail \/ Leave \/ Unwind \/ Record \/ LeaveReconciling
      <3>1. /\ phase # "ended" /\ phase' # "ended" /\ UNCHANGED <<adapter, fed>>
        BY <2>5 DEF Fail, Leave, Unwind, Record, LeaveReconciling
      <3>2. QED
        BY <2>1, <3>1
    <2>6. CASE Close
      <3>1. phase = "closed" /\ phase' = "ended" /\ UNCHANGED <<fed, usage, outcome>>
            /\ adapter' = IF outcome = "failed" THEN ResponsesError(adapter) ELSE ResponsesEnd(adapter)
        BY <2>6 DEF Close
      <3>2. QED
        BY <2>1, <3>1
    <2>7. CASE UNCHANGED vars
      <3>1. UNCHANGED <<adapter, fed, usage, phase, outcome>>
        BY <2>7 DEF vars
      <3>2. QED
        BY <3>1 DEF BalancedInv
    <2>8. QED
      BY <2>3, <2>4, <2>5, <2>6, <2>7 DEF Next
  <1>3. QED
    BY <1>1, <1>2, FedInduction, WrapperInduction, ResponsesInduction, PTL DEF Spec

\* The end marker behind the completed response.
LEMMA EndPlaces ==
  ASSUME NEW d, Kept(d), At(d.sent, Completions) = {Len(d.sent)}
  PROVE  LET r == Emit(d, Event("end", "response", 0, 0))
         IN  /\ r.sent \in Seq(ResponseEvents) /\ Len(d.sent) \in Nat /\ Len(r.sent) = Len(d.sent) + 1
             /\ At(r.sent, Completions) = {Len(d.sent)} /\ At(r.sent, Ends) = {Len(d.sent) + 1}
             /\ r.sent[Len(d.sent)] = d.sent[Len(d.sent)]
             /\ \A k \in Items : At(r.sent, DonesOf(k)) = At(d.sent, DonesOf(k))
             /\ \A k \in Items : Count(r.sent, ItemDeltas(k)) = Count(d.sent, ItemDeltas(k))
             /\ At(r.sent, Additions) = At(d.sent, Additions)
             /\ \A i \in At(d.sent, Additions) : r.sent[i] = d.sent[i]
  <1> DEFINE z == Event("end", "response", 0, 0)
             s == d.sent
             t == Append(s, z)
             r == Emit(d, z)
  <1>1. s \in Seq(ResponseEvents) /\ d \in ResponsesType
    BY DEF Kept, ResponsesType
  <1>2. z \in ResponseEvents /\ z.type = "end"
    <2>1. "response" \in Items \cup {"response"} /\ 0 \in Nat
      OBVIOUS
    <2>2. QED
      BY <2>1, ResponseEvent
  <1>3. r.sent = t
    BY <1>1 DEF Emit, ResponsesType
  <1> HIDE DEF z, r, s
  <1>4. Len(t) = Len(s) + 1
    BY <1>1, <1>2, AppendFacts
  <1>5. /\ t \in Seq(ResponseEvents) /\ Len(s) \in Nat
        /\ \A i \in 1..Len(s) : t[i] = s[i]
        /\ t[Len(s) + 1] = z
        /\ \A T : /\ At(s, T) \subseteq 1..Len(s)
                  /\ At(t, T) = At(s, T) \cup (IF z \in T THEN {Len(s) + 1} ELSE {})
                  /\ Count(s, T) \in Nat
                  /\ Count(t, T) = Count(s, T) + (IF z \in T THEN 1 ELSE 0)
    BY <1>1, <1>2, PlacesAppend
  <1> HIDE DEF t
  <1>6. /\ z \notin Completions /\ z \in Ends /\ z \notin Additions
        /\ \A k \in Items : z \notin DonesOf(k) /\ z \notin ItemDeltas(k)
    BY <1>2 DEF Completions, Ends, Additions, DonesOf, ItemDeltas
  <1>7. At(s, Ends) = {} /\ At(s, Completions) = {Len(s)}
    BY DEF Kept, s
  <1>8. /\ At(t, Completions) = {Len(s)} /\ At(t, Ends) = {Len(s) + 1} /\ At(t, Additions) = At(s, Additions)
        /\ \A k \in Items : At(t, DonesOf(k)) = At(s, DonesOf(k))
    BY <1>5, <1>6, <1>7
  <1>9. \A k \in Items : Count(t, ItemDeltas(k)) = Count(s, ItemDeltas(k))
    BY <1>5, <1>6
  <1>10. t[Len(s)] = s[Len(s)]
    <2>1. Len(s) \in 1..Len(s)
      BY <1>5, <1>7
    <2>2. QED
      BY <1>5, <2>1
  <1>11. \A i \in At(s, Additions) : t[i] = s[i]
    BY <1>5
  <1>12. QED
    BY <1>3, <1>4, <1>5, <1>8, <1>9, <1>10, <1>11 DEF s, z, r

\* A stream of the Responses API that was served ends in one completed response, which
\* behind a finish lists every item with all of it; every item but an empty function
\* call is done.
THEOREM CompletedWhole == Spec => []CompletedInFull
  <1>1. FedInv /\ WrapperInv /\ BalancedInv => CompletedInFull
    <2> DEFINE late == Cardinality(FedWith(LAMBDA c : LastText(c) /\ c.usage = {}))
               size(k) == Cardinality(SentOf("delta", k)) + (IF k = "text" THEN late ELSE 0)
    <2> SUFFICES ASSUME FedInv, WrapperInv, BalancedInv, api = "responses", Served
                 PROVE  \E n \in DOMAIN sent :
                          /\ Sent("completed") = {n} /\ n = Len(sent) - 1 /\ Sent("end") = {Len(sent)}
                          /\ FinishFed # {} =>
                               \A i \in Sent("added") :
                                  /\ (sent[i].kind \in Functions => size(sent[i].kind) > 0)
                                        => SentOf("done", sent[i].kind) # {}
                                  /\ \/ sent[n].output = <<Upstream>>
                                     \/ \E o \in ToSet(sent[n].output) :
                                           o.kind = sent[i].kind /\ o.size = size(sent[i].kind)
                                     \/ sent[i].kind = "reasoning" /\ usage = {}
      BY DEF CompletedInFull, LateTexts
    <2>1. fed \in Seq(ChunkType) /\ usage \in SUBSET AllTokens
      BY DEF FedInv, WrapperInv
    <2>2. PICK a : /\ ResponsesLive(a, fed, usage) /\ Balanced(a, fed) /\ Arranged(a, fed)
                    /\ Spent(a, usage) /\ adapter = ResponsesEnd(a)
      BY DEF BalancedInv, Served
    <2>3. PICK d : Final(d, fed, a.buffered) /\ ResponsesEnd(a) = Emit(d, Event("end", "response", 0, 0))
      BY <2>1, <2>2, EndBalanced
    <2> DEFINE n == Len(d.sent)
    <2>4. /\ sent \in Seq(ResponseEvents) /\ n \in Nat /\ Len(sent) = n + 1
          /\ At(sent, Completions) = {n} /\ At(sent, Ends) = {n + 1}
          /\ sent[n] = d.sent[n]
          /\ \A k \in Items : At(sent, DonesOf(k)) = At(d.sent, DonesOf(k))
          /\ \A k \in Items : Count(sent, ItemDeltas(k)) = Count(d.sent, ItemDeltas(k))
          /\ At(sent, Additions) = At(d.sent, Additions)
          /\ \A i \in At(d.sent, Additions) : sent[i] = d.sent[i]
      <3>1. Kept(d) /\ At(d.sent, Completions) = {Len(d.sent)}
        BY <2>3 DEF Final
      <3>2. sent = Emit(d, Event("end", "response", 0, 0)).sent
        BY <2>2, <2>3 DEF sent
      <3>3. QED
        BY <3>1, <3>2, EndPlaces
    <2>5. /\ \A i \in DOMAIN sent : sent[i] \in ResponseEvents
          /\ \A i \in DOMAIN fed : fed[i] \in ChunkType
      BY <2>1, <2>4, ElementOfSeq, LenProperties
    <2>6. /\ Sent("completed") = At(sent, Completions) /\ Sent("end") = At(sent, Ends)
          /\ Sent("added") = At(sent, Additions)
          /\ \A k : SentOf("done", k) = At(sent, DonesOf(k)) /\ SentOf("delta", k) = At(sent, ItemDeltas(k))
      BY <2>5 DEF Sent, SentOf, At, Completions, Ends, Additions, DonesOf, ItemDeltas
    <2>7. late = Count(fed, LateChunks) /\ (FinishFed = {} <=> At(fed, FinishChunks) = {})
      <3>1. FedWith(LAMBDA c : LastText(c) /\ c.usage = {}) = At(fed, LateChunks)
        BY <2>5 DEF FedWith, At, LateChunks, LastText
      <3>2. FinishFed = At(fed, FinishChunks)
        BY <2>5 DEF FinishFed, FedWith, At, FinishChunks
      <3>3. QED
        BY <3>1, <3>2 DEF Count
    <2> HIDE DEF late
    <2>8. \A k \in Items : size(k) = d.item[k].size + (IF k = "text" THEN late ELSE 0)
      <3>1. \A k \in Items : Cardinality(SentOf("delta", k)) = Count(d.sent, ItemDeltas(k))
        BY <2>4, <2>6 DEF Count
      <3>2. \A k \in Items : d.item[k].size = Count(d.sent, ItemDeltas(k))
        BY <2>3 DEF Final, Kept, Booked, Tracked, Tells
      <3>3. QED
        BY <3>1, <3>2
    <2> HIDE DEF size
    <2>9. n \in DOMAIN sent
      BY <2>4 DEF At
    <2>10. ASSUME FinishFed # {}, NEW i \in Sent("added")
           PROVE  /\ (sent[i].kind \in Functions => size(sent[i].kind) > 0) => SentOf("done", sent[i].kind) # {}
                  /\ \/ sent[n].output = <<Upstream>>
                     \/ \E o \in ToSet(sent[n].output) : o.kind = sent[i].kind /\ o.size = size(sent[i].kind)
                     \/ sent[i].kind = "reasoning" /\ usage = {}
      <3> DEFINE k == sent[i].kind
      <3>1. i \in At(d.sent, Additions) /\ sent[i] = d.sent[i]
        BY <2>4, <2>6, <2>10
      <3>2. k \in Items
        BY <2>3, <3>1 DEF Final, Kept, Booked, Indexed
      <3>3. d.item[k].state # "none"
        <4>1. d.item[k].state = "none" => At(d.sent, EventsFor(k)) = {}
          BY <2>3, <3>2 DEF Final, Kept, Booked, Tracked, Tells
        <4>2. i \in At(d.sent, EventsFor(k))
          BY <3>1 DEF At, EventsFor, Additions
        <4>3. QED
          BY <4>1, <4>2
      <3>4. /\ Shut(d)
            /\ \/ d.sent[n].output = <<Upstream>>
               \/ Lists(d.sent[n].output, d, IF a.buffered = <<>> THEN Items ELSE Items \ {"reasoning"})
        BY <2>3, <2>7, <2>10 DEF Final
      <3> HIDE DEF k, n
      <3>5. k \in Functions => size(k) = d.item[k].size
        <4>1. k \in Functions => k # "text"
          BY ItemKinds DEF Calls
        <4>2. d.item[k].size \in Nat
          BY <2>3, <3>2 DEF Final, Kept, ResponsesType, ItemType
        <4>3. QED
          BY <2>8, <3>2, <4>1, <4>2
      <3>6. (k \in Functions => size(k) > 0) => At(d.sent, DonesOf(k)) # {}
        BY <3>2, <3>3, <3>4, <3>5 DEF Shut
      <3>7. size(k) = Whole(d, k).size /\ Whole(d, k).kind = k
        <4>1. CASE k = "text"
          <5>1. d.full = d.item["text"].size + Count(fed, LateChunks)
            BY <2>3 DEF Final
          <5>2. QED
            BY <2>7, <2>8, <3>2, <4>1, <5>1 DEF Whole
        <4>2. CASE k # "text"
          <5>1. d.item[k].size \in Nat
            BY <2>3, <3>2 DEF Final, Kept, ResponsesType, ItemType
          <5>2. QED
            BY <2>8, <3>2, <4>2, <5>1 DEF Whole
        <4>3. QED
          BY <4>1, <4>2
      <3>8. \/ sent[n].output = <<Upstream>>
            \/ \E o \in ToSet(sent[n].output) : o.kind = k /\ o.size = size(k)
            \/ k = "reasoning" /\ usage = {}
        <4>1. usage # {} => a.buffered = <<>>
          BY <2>2 DEF Spent
        <4>2. QED
          BY <2>4, <3>2, <3>3, <3>4, <3>7, <4>1 DEF Lists
      <3>9. SentOf("done", k) = At(d.sent, DonesOf(k))
        BY <2>4, <2>6, <3>2
      <3>10. QED
        BY <3>6, <3>8, <3>9 DEF k
    <2>11. Sent("completed") = {n} /\ n = Len(sent) - 1 /\ Sent("end") = {Len(sent)}
      BY <2>4, <2>6
    <2> HIDE DEF n
    <2>12. QED
      BY <2>9, <2>10, <2>11
  <1>2. QED
    BY <1>1, FedInduction, WrapperInduction, BalancedInduction, PTL

\* What the adapter has sent at any time, and behind the end, about its items.
Recorded(a, f) ==
  /\ a \in ResponsesType /\ Booked(a) /\ a.full = a.item["text"].size + Count(f, LateChunks)
  /\ Tidy(f) => Ordered(a, Overruns(f))

\* An event of the response that ends the stream.
LEMMA RecordedEmit ==
  ASSUME NEW a, NEW f, Recorded(a, f), NEW type \in {"end", "error"}
  PROVE  Recorded(Emit(a, Event(type, "response", 0, 0)), f)
  <1> DEFINE e == Event(type, "response", 0, 0)
             b == Emit(a, e)
             V == Overruns(f)
  <1>1. a \in ResponsesType /\ Booked(a) /\ a.next \in Nat
    BY DEF Recorded, ResponsesType
  <1>2. e \in ResponseEvents /\ e.type = type /\ e.kind = "response" /\ "response" \notin Items
    <2>1. "response" \in Items \cup {"response"} /\ 0 \in Nat
      OBVIOUS
    <2>2. type \in {"created", "added", "delta", "done", "completed", "end", "error"}
      OBVIOUS
    <2>3. e \in ResponseEvents
      BY <2>1, <2>2, ResponseEvent
    <2>4. e.type = type /\ e.kind = "response"
      BY ItemEvent DEF Event
    <2>5. "response" \notin Items
      BY ItemKinds, CallsAssumption DEF Items, Calls
    <2>6. QED
      BY <2>3, <2>4, <2>5
  <1> HIDE DEF e
  <1>3. Append(a.sent, e) \in Seq(ResponseEvents)
    BY <1>1, <1>2, PlacesAppend DEF ResponsesType
  <1>4. b \in ResponsesType /\ b.sent = Append(a.sent, e) /\ b.item = a.item /\ b.next = a.next /\ b.full = a.full
    BY <1>1, <1>3 DEF Emit, ResponsesType
  <1>5. Tidy(f) => Ordered(b, V)
    <2>1. Tidy(f) => Ordered(a, V)
      BY DEF Recorded
    <2>2. type \in {"created", "added", "delta", "done", "completed", "end", "error"}
      OBVIOUS
    <2>3. QED
      BY <1>1, <2>1, <2>2, EmitOrder DEF e
  <1> HIDE DEF b
  <1>6. Tracked(b)
    <2>1. \A k \in Items : b.item[k] = a.item[k]
      BY <1>4
    <2>2. QED
      BY <1>1, <1>2, <1>4, <2>1, TrackedAppend DEF Booked
  <1>7. Indexed(b)
    <2>1. b.next >= a.next /\ e.type # "added"
      BY <1>1, <1>2, <1>4
    <2>2. QED
      BY <1>1, <1>2, <1>4, <2>1, IndexedAppend DEF Booked
  <1>8. b.full = b.item["text"].size + Count(f, LateChunks)
    BY <1>4 DEF Recorded
  <1>9. Recorded(b, f)
    BY <1>4, <1>5, <1>6, <1>7, <1>8 DEF Recorded, Booked
  <1>10. QED
    BY <1>9 DEF b, e

\* At the end, and after an error, too.
LEMMA EndRecorded ==
  ASSUME NEW a, NEW f \in Seq(ChunkType), NEW u, ResponsesLive(a, f, u), Balanced(a, f), Arranged(a, f)
  PROVE  Recorded(a, f) /\ Recorded(ResponsesEnd(a), f) /\ Recorded(ResponsesError(a), f)
  <1>1. Recorded(a, f)
    BY DEF Recorded, Balanced, Arranged, Kept
  <1>2. Recorded(ResponsesEnd(a), f)
    <2>1. PICK d : Final(d, f, a.buffered) /\ ResponsesEnd(a) = Emit(d, Event("end", "response", 0, 0))
      BY EndBalanced
    <2>2. Recorded(d, f)
      BY <2>1 DEF Final, Recorded, Kept
    <2>3. QED
      BY <2>1, <2>2, RecordedEmit
  <1>3. Recorded(ResponsesError(a), f)
    <2> DEFINE b == Emit(a, Event("error", "response", 0, 0))
    <2>1. Recorded(b, f)
      BY <1>1, RecordedEmit
    <2>2. ResponsesError(a) = Emit(b, Event("end", "response", 0, 0))
      BY DEF ResponsesError
    <2> HIDE DEF b
    <2>3. QED
      BY <2>1, <2>2, RecordedEmit
  <1>4. QED
    BY <1>1, <1>2, <1>3

\* A call that goes on behind its end is not one of Gemini's, which come whole, and was
\* ended by a piece of its own.
LEMMA OverrunsNamed ==
  ASSUME FedInv, NEW k \in Overruns(fed)
  PROVE  Overrun(k)
  <1>1. PICK i \in DOMAIN fed, j \in DOMAIN fed : i < j /\ Parsing(fed[i], k) /\ Naming(fed[j], k)
    BY DEF Overruns
  <1>2. PICK m \in DOMAIN fed[i].tools : fed[i].tools[m].call = k /\ fed[i].tools[m].args = "last"
    BY <1>1 DEF Parsing
  <1>3. PICK n \in DOMAIN fed[j].tools : fed[j].tools[n].call = k
    BY <1>1 DEF Naming
  <1> DEFINE t == fed[i].tools[m]
  <1>4. t \in ToolType
    <2>1. fed \in Seq(ChunkType)
      BY DEF FedInv
    <2>2. fed[i] \in ChunkType
      BY <2>1, ElementOfSeq, LenProperties
    <2>3. fed[i].tools \in Seq(ToolType)
      BY <2>2 DEF ChunkType
    <2>4. QED
      BY <2>3, ElementOfSeq, LenProperties
  <1>5. ~t.start
    <2>1. CASE family = "gemini"
      <3>1. t.start /\ fed[j].tools[n].start
        BY <2>1 DEF FedInv, FewCalls, AllStart
      <3>2. QED
        BY <1>1, <1>2, <1>3, <3>1 DEF FedInv, StartOnce
    <2>2. CASE family # "gemini"
      <3>1. t.start => t.args = "none"
        BY <2>2 DEF FedInv, FewCalls, Bare
      <3>2. QED
        BY <1>2, <3>1
    <2>3. QED
      BY <2>1, <2>2
  <1>6. t = Tool(k, FALSE, "last")
    BY <1>2, <1>4, <1>5 DEF ToolType, Tool
  <1>7. Tool(k, FALSE, "last") \in ToSet(fed[i].tools)
    BY <1>6 DEF ToSet
  <1>8. fed[j].tools[n] \in ToSet(fed[j].tools)
    BY DEF ToSet
  <1>9. QED
    BY <1>1, <1>3, <1>7, <1>8 DEF Overrun

\* Content in order, without calls in the finish.
LEMMA OrderTidy ==
  ASSUME fed \in Seq(ChunkType), InOrder, ~FinishTools
  PROVE  Tidy(fed)
  <1>1. \A i \in DOMAIN fed : Single(fed[i])
    BY OneKindSingle
  <1>2. \A i \in DOMAIN fed : fed[i].finish => fed[i].tools = <<>>
    BY DEF FinishTools, FinishFed, FedWith
  <1>3. QED
    BY <1>1, <1>2 DEF Tidy, InOrder

\* A stream of the Responses API adds each item once, under an index of its own, before
\* its deltas; with content in order, and no calls in the finish, these add up to what
\* its done event, the last of it, repeats, and nothing comes between the events of the
\* reasoning or of the message.
THEOREM ItemsOrdered == Spec => []ItemsInOrder
  <1>1. FedInv /\ BalancedInv => ItemsInOrder
    <2> DEFINE late == Cardinality(FedWith(LAMBDA c : LastText(c) /\ c.usage = {}))
               size(k) == Cardinality(SentOf("delta", k)) + (IF k = "text" THEN late ELSE 0)
    <2> SUFFICES ASSUME FedInv, BalancedInv, api = "responses"
                 PROVE  /\ \A k \in Items : Cardinality(SentOf("added", k)) <= 1
                        /\ \A i, j \in Sent("added") : i < j => sent[i].index < sent[j].index
                        /\ InOrder /\ ~FinishTools =>
                             \A k \in Items :
                               \A i \in EventsOf(k) :
                                 /\ \E n \in SentOf("added", k) : n <= i /\ sent[n].index = sent[i].index
                                 /\ sent[i].type = "done" /\ ~Overrun(k) =>
                                      /\ \A j \in EventsOf(k) : j <= i
                                      /\ sent[i].size = size(k)
                                 /\ k \in {"reasoning", "text"} =>
                                      \A j \in EventsOf(k) : \A n \in i..j : sent[n].kind = k
      BY DEF ItemsInOrder, LateTexts
    <2>1. fed \in Seq(ChunkType)
      BY DEF FedInv
    <2>2. Recorded(adapter, fed)
      <3>1. CASE phase = "ended"
        <4>1. PICK a : /\ ResponsesLive(a, fed, usage) /\ Balanced(a, fed) /\ Arranged(a, fed)
                       /\ adapter = IF outcome = "failed" THEN ResponsesError(a) ELSE ResponsesEnd(a)
          BY <3>1 DEF BalancedInv
        <4>2. QED
          BY <2>1, <4>1, EndRecorded
      <3>2. CASE phase # "ended"
        BY <3>2 DEF BalancedInv, Recorded, Balanced, Arranged, Kept
      <3>3. QED
        BY <3>1, <3>2
    <2>3. sent \in Seq(ResponseEvents) /\ adapter \in ResponsesType /\ Booked(adapter)
      BY <2>2 DEF sent, Recorded, ResponsesType
    <2>4. /\ \A i \in DOMAIN sent : sent[i] \in ResponseEvents
          /\ \A i \in DOMAIN fed : fed[i] \in ChunkType
      BY <2>1, <2>3, ElementOfSeq, LenProperties
    <2>5. /\ Sent("added") = At(sent, Additions)
          /\ \A k : /\ EventsOf(k) = At(sent, EventsFor(k))
                    /\ SentOf("added", k) = {i \in At(sent, Additions) : sent[i].kind = k}
                    /\ SentOf("delta", k) = At(sent, ItemDeltas(k))
      BY <2>4 DEF Sent, SentOf, EventsOf, At, Additions, EventsFor, ItemDeltas
    <2>6. late = Count(fed, LateChunks)
      <3>1. FedWith(LAMBDA c : LastText(c) /\ c.usage = {}) = At(fed, LateChunks)
        BY <2>4 DEF FedWith, At, LateChunks, LastText
      <3>2. QED
        BY <3>1 DEF Count
    <2> HIDE DEF late
    <2>7. \A k \in Items : size(k) = SizeOf(adapter, k)
      <3>1. SUFFICES ASSUME NEW k \in Items PROVE size(k) = SizeOf(adapter, k)
        OBVIOUS
      <3>2. adapter.item[k].size = Count(sent, ItemDeltas(k))
        BY <2>3, <3>1 DEF Booked, Tracked, Tells, sent
      <3>3. Cardinality(SentOf("delta", k)) = adapter.item[k].size /\ adapter.item[k].size \in Nat
        BY <2>3, <2>5, <3>1, <3>2 DEF Count, ResponsesType, ItemType
      <3>4. k = "text" => adapter.full = adapter.item[k].size + late
        BY <2>2, <2>6 DEF Recorded
      <3>5. QED
        BY <3>3, <3>4 DEF SizeOf
    <2> HIDE DEF size
    <2>8. ASSUME NEW k \in Items, adapter.item[k].state # "none"
          PROVE  \E n \in At(sent, Additions) :
                   /\ sent[n].kind = k
                   /\ \A i \in At(sent, EventsFor(k)) :
                        n <= i /\ sent[i].index = adapter.item[k].index /\ (sent[i].type = "added" => i = n)
      BY <2>3, <2>8 DEF Booked, Tracked, Tells, sent
    <2>9. ASSUME NEW k \in Items, adapter.item[k].state = "none"
          PROVE  At(sent, EventsFor(k)) = {}
      BY <2>3, <2>9 DEF Booked, Tracked, Tells, sent
    <2>10. \A k \in Items : SentOf("added", k) \subseteq At(sent, EventsFor(k))
      BY <2>5 DEF At, Additions, EventsFor
    <2>11. ASSUME NEW k \in Items PROVE Cardinality(SentOf("added", k)) <= 1
      <3>1. CASE adapter.item[k].state = "none"
        <4>1. SentOf("added", k) = {}
          BY <2>9, <2>10, <3>1
        <4>2. QED
          BY <4>1, FS_EmptySet
      <3>2. CASE adapter.item[k].state # "none"
        <4>1. PICK n : \A i \in At(sent, EventsFor(k)) : sent[i].type = "added" => i = n
          BY <2>8, <3>2
        <4>2. \A i \in SentOf("added", k) : sent[i].type = "added"
          BY DEF SentOf, Sent
        <4>3. SentOf("added", k) \subseteq {n}
          BY <2>10, <4>1, <4>2
        <4>4. IsFiniteSet({n}) /\ Cardinality({n}) = 1
          BY FS_Singleton
        <4>5. QED
          BY <4>3, <4>4, FS_Subset
      <3>3. QED
        BY <3>1, <3>2
    <2>12. \A i, j \in Sent("added") : i < j => sent[i].index < sent[j].index
      BY <2>3, <2>5 DEF Booked, Indexed, sent
    <2>13. ASSUME InOrder, ~FinishTools, NEW k \in Items, NEW i \in EventsOf(k)
           PROVE  /\ \E n \in SentOf("added", k) : n <= i /\ sent[n].index = sent[i].index
                  /\ sent[i].type = "done" /\ ~Overrun(k) =>
                       /\ \A j \in EventsOf(k) : j <= i
                       /\ sent[i].size = size(k)
                  /\ k \in {"reasoning", "text"} =>
                       \A j \in EventsOf(k) : \A n \in i..j : sent[n].kind = k
      <3>1. Ordered(adapter, Overruns(fed))
        BY <2>1, <2>2, <2>13, OrderTidy DEF Recorded
      <3>2. i \in At(sent, EventsFor(k)) /\ EventsOf(k) = At(sent, EventsFor(k))
        BY <2>5, <2>13
      <3>3. \E n \in SentOf("added", k) : n <= i /\ sent[n].index = sent[i].index
        <4>1. adapter.item[k].state # "none"
          BY <2>9, <3>2
        <4>2. PICK n \in At(sent, Additions) :
                /\ sent[n].kind = k
                /\ \A j \in At(sent, EventsFor(k)) : n <= j /\ sent[j].index = adapter.item[k].index
          BY <2>8, <4>1
        <4>3. n \in SentOf("added", k) /\ n \in At(sent, EventsFor(k))
          BY <2>5, <2>10, <4>2
        <4>4. QED
          BY <3>2, <4>2, <4>3
      <3>4. ASSUME sent[i].type = "done", ~Overrun(k)
            PROVE  (\A j \in EventsOf(k) : j <= i) /\ sent[i].size = size(k)
        <4>1. k \notin Overruns(fed)
          BY <3>4, OverrunsNamed
        <4>2. Sealed(sent, k, SizeOf(adapter, k))
          BY <3>1, <4>1 DEF Ordered, sent
        <4>3. i \in At(sent, DonesOf(k))
          BY <3>2, <3>4 DEF At, EventsFor, DonesOf
        <4>4. sent[i].size = SizeOf(adapter, k) /\ \A j \in At(sent, EventsFor(k)) : j <= i
          BY <4>2, <4>3 DEF Sealed
        <4>5. QED
          BY <2>7, <3>2, <4>4
      <3>5. ASSUME k \in {"reasoning", "text"}, NEW j \in EventsOf(k), NEW n \in i..j
            PROVE  sent[n].kind = k
        <4>1. InRow(sent, k)
          BY <3>1, <3>5 DEF Ordered, sent
        <4>2. j \in At(sent, EventsFor(k)) /\ i \in Nat /\ j \in Nat
          <5>1. At(sent, EventsFor(k)) \subseteq 1..Len(sent) /\ Len(sent) \in Nat
            BY <2>3, CountZero, LenProperties
          <5>2. QED
            BY <3>2, <5>1
        <4>3. n \in Nat /\ i <= n /\ n <= j
          BY <4>2
        <4>4. QED
          BY <3>2, <4>1, <4>2, <4>3 DEF InRow
      <3>6. QED
        BY <3>3, <3>4, <3>5
    <2>14. QED
      BY <2>11, <2>12, <2>13
  <1>2. QED
    BY <1>1, FedInduction, BalancedInduction, PTL
=============================================================================
