---------------------------- MODULE TracePaneProofs ----------------------------
(***************************************************************************)
(* Proofs about TracePane, for every number of hops and all bounds on the  *)
(* requests, the rows and the events under way.                            *)
(***************************************************************************)
EXTENDS TracePane, SequenceTheorems, TLAPS

-------------------------------------------------------------------------------
(* Events under way.                                                       *)

\* What the handlers read of an event.
EventOK(s, e) ==
  /\ e.ev \in {"open", "hop", "done", "error", "end", "fail"}
  /\ e.ev = "hop" => e.hop \in Hop /\ e.row \in 1..MaxRows[s]

IsHop(e, h) == e.ev = "hop" /\ e.hop = h

\* No row of h is waiting.
NoneWaits(q, h) == \A i \in 1..Len(q) : ~IsHop(q[i], h)

\* The last row of h that is waiting is this one.
Waits(q, h, row) ==
  \E i \in 1..Len(q) : /\ IsHop(q[i], h) /\ q[i].row = row
                       /\ \A j \in 1..Len(q) : j > i => ~IsHop(q[j], h)

\* EventSource delivers its events in the order in which they came.
LEMMA Popping ==
  ASSUME NEW S, NEW q \in Seq(S), q # <<>>
  PROVE  /\ Tail(q) \in Seq(S) /\ Len(q) \in Nat \ {0} /\ Len(Tail(q)) = Len(q) - 1
         /\ Head(q) = q[1] /\ Head(q) \in S
         /\ \A i \in 1..Len(Tail(q)) : i + 1 \in 1..Len(q) /\ Tail(q)[i] = q[i + 1]
BY HeadTailProperties, EmptySeq

\* A new event comes last.
LEMMA Pushing ==
  ASSUME NEW S, NEW q \in Seq(S), NEW e \in S
  PROVE  /\ Append(q, e) \in Seq(S) /\ Len(q) \in Nat /\ Len(Append(q, e)) = Len(q) + 1
         /\ \A i \in 1..Len(q) : Append(q, e)[i] = q[i]
         /\ Append(q, e)[Len(q) + 1] = e
BY AppendProperties

\* Delivering an event: the row it brings was the last of its hop, or the last
\* one still waits.
LEMMA PoppingRows ==
  ASSUME NEW S, NEW q \in Seq(S), q # <<>>, NEW h
  PROVE  /\ NoneWaits(q, h) => NoneWaits(Tail(q), h) /\ ~IsHop(Head(q), h)
         /\ \A row : Waits(q, h, row) =>
              \/ IsHop(Head(q), h) /\ Head(q).row = row /\ NoneWaits(Tail(q), h)
              \/ Waits(Tail(q), h, row)
<1> DEFINE r == Tail(q)
<1>1. /\ Len(q) \in Nat \ {0} /\ Len(r) = Len(q) - 1 /\ Head(q) = q[1]
      /\ \A i \in 1..Len(r) : i + 1 \in 1..Len(q) /\ r[i] = q[i + 1]
  BY Popping
<1> HIDE DEF r
<1>2. NoneWaits(q, h) => NoneWaits(r, h) /\ ~IsHop(Head(q), h)
  <2>1. 1 \in 1..Len(q)
    BY <1>1
  <2> QED BY <1>1, <2>1 DEF NoneWaits
<1>3. ASSUME NEW row, Waits(q, h, row)
      PROVE  \/ IsHop(Head(q), h) /\ Head(q).row = row /\ NoneWaits(r, h)
             \/ Waits(r, h, row)
  <2>1. PICK i \in 1..Len(q) : /\ IsHop(q[i], h) /\ q[i].row = row
                               /\ \A j \in 1..Len(q) : j > i => ~IsHop(q[j], h)
    BY <1>3 DEF Waits
  <2>2. CASE i = 1
    <3>1. \A j \in 1..Len(r) : j + 1 > i
      BY <1>1, <2>2
    <3> QED BY <1>1, <2>1, <2>2, <3>1 DEF NoneWaits
  <2>3. CASE i # 1
    <3>1. i - 1 \in 1..Len(r) /\ r[i - 1] = q[i]
      BY <1>1, <2>3
    <3>2. \A j \in 1..Len(r) : j > i - 1 => j + 1 > i /\ j + 1 \in 1..Len(q) /\ r[j] = q[j + 1]
      BY <1>1
    <3> QED BY <2>1, <3>1, <3>2 DEF Waits
  <2> QED BY <2>2, <2>3
<1> QED BY <1>2, <1>3 DEF r

\* A new event: a row is the last of its hop, anything else changes nothing.
LEMMA PushingRows ==
  ASSUME NEW S, NEW q \in Seq(S), NEW e \in S, NEW h
  PROVE  /\ IsHop(e, h) => Waits(Append(q, e), h, e.row)
         /\ ~IsHop(e, h) /\ NoneWaits(q, h) => NoneWaits(Append(q, e), h)
         /\ \A row : ~IsHop(e, h) /\ Waits(q, h, row) => Waits(Append(q, e), h, row)
<1> DEFINE r == Append(q, e)
<1>1. /\ Len(q) \in Nat /\ Len(r) = Len(q) + 1
      /\ \A i \in 1..Len(q) : r[i] = q[i]
      /\ r[Len(q) + 1] = e
  BY Pushing
<1>2. \A i \in 1..Len(r) : i \in 1..Len(q) \/ i = Len(q) + 1
  BY <1>1
<1> HIDE DEF r
<1>3. IsHop(e, h) => Waits(r, h, e.row)
  <2>1. Len(q) + 1 \in 1..Len(r) /\ \A j \in 1..Len(r) : ~(j > Len(q) + 1)
    BY <1>1
  <2> QED BY <1>1, <2>1 DEF Waits
<1>4. ~IsHop(e, h) /\ NoneWaits(q, h) => NoneWaits(r, h)
  BY <1>1, <1>2 DEF NoneWaits
<1>5. ASSUME NEW row, ~IsHop(e, h), Waits(q, h, row) PROVE Waits(r, h, row)
  <2>1. PICK i \in 1..Len(q) : /\ IsHop(q[i], h) /\ q[i].row = row
                               /\ \A j \in 1..Len(q) : j > i => ~IsHop(q[j], h)
    BY <1>5 DEF Waits
  <2>2. i \in 1..Len(r) /\ r[i] = q[i]
    BY <1>1
  <2> QED BY <1>1, <1>2, <1>5, <2>1, <2>2 DEF Waits
<1> QED BY <1>3, <1>4, <1>5 DEF r

-------------------------------------------------------------------------------
(* The inductive invariant.                                                *)

\* The end of an answer is the end of the queue, and no row comes after its
\* "done" or "error".
InOrder(q) ==
  \A i, j \in 1..Len(q) : i < j =>
    /\ q[i].ev \notin {"end", "fail"}
    /\ q[i].ev \in {"done", "error"} => q[j].ev # "hop"

\* What is under way was sent by the connection there is.
Sent(s) ==
  \A i \in 1..Len(queue[s]) :
    /\ queue[s][i].ev \in {"end", "fail"} => net[s] = "over"
    /\ queue[s][i].ev \in {"done", "error"} => net[s] \in {"answered", "over"}
    /\ queue[s][i].ev = "hop" => queue[s][i].row <= sent[s]

\* A source that never opened has its first "open" at the head of the queue.
OpenFirst(s) ==
  ~opened[s] =>
    /\ net[s] \in {"flowing", "answered"} => queue[s] # <<>> /\ queue[s][1].ev = "open"
    /\ \A i \in 1..Len(queue[s]) : queue[s][i].ev = "done" => queue[s][1].ev = "open"

\* Until the source is closed the last row of a hop is on the screen or waits.
RowsKept(s) ==
  ready[s] # "closed" \/ message[s] = "done" =>
    \A h \in Hop : last[s][h] # 0 =>
      \/ rows[s][h] = last[s][h] /\ NoneWaits(queue[s], h)
      \/ Waits(queue[s], h, last[s][h])

\* The life of a source, from before it exists to after it is closed.
Life(s) ==
  /\ ready[s] = "none" => /\ net[s] = "none" /\ message[s] = "connecting"
                          /\ timer[s] = "off" /\ reqs[s] = 0
  /\ ready[s] = "closed" => net[s] = "none"
  /\ net[s] \in {"none", "dialing", "pausing"} => queue[s] = <<>>
  /\ message[s] \in {"done", "noresponse"}
       => ready[s] = "closed" /\ (opened[s] \/ timer[s] = "over")

PaneOK(s) == InOrder(queue[s]) /\ Sent(s) /\ OpenFirst(s) /\ RowsKept(s) /\ Life(s)

\* Nothing is found once the tabs are wired, and no tab is picked before.
PageOK == /\ page # "probing" => unprobed = {}
          /\ page = "wired" => found \subseteq tabs
          /\ page # "wired" => checked = Unknown

IInv == /\ TypeOK /\ queue = [s \in Stack |-> queue[s]]
        /\ PageOK
        /\ \A s \in Stack : PaneOK(s)

\* What a pane consists of.
PaneSame(s) ==
  /\ ready'[s] = ready[s] /\ opened'[s] = opened[s] /\ timer'[s] = timer[s]
  /\ message'[s] = message[s] /\ rows'[s] = rows[s] /\ net'[s] = net[s]
  /\ queue'[s] = queue[s] /\ reqs'[s] = reqs[s] /\ sent'[s] = sent[s]
  /\ last'[s] = last[s]

\* One pane never touches the other.
LEMMA OtherPane ==
  ASSUME NEW s, PaneOK(s), PaneSame(s)
  PROVE  PaneOK(s)'
BY DEF PaneOK, PaneSame, InOrder, Sent, OpenFirst, RowsKept, Life

\* An event that touches one pane keeps the invariant if that pane is left well.
LEMMA OnePane ==
  ASSUME IInv, NEW s \in Stack, UNCHANGED <<current, local, page, unprobed, found, tabs, checked>>,
         TypeOK', queue' = [u \in Stack |-> queue'[u]],
         PaneOK(s)', \A u \in Stack \ {s} : PaneSame(u)
  PROVE  IInv'
<1>1. \A u \in Stack \ {s} : PaneOK(u)'
  BY OtherPane DEF IInv
<1>2. PageOK'
  BY DEF IInv, PageOK
<1> QED BY <1>1, <1>2 DEF IInv

\* What is known of a pane.
LEMMA PaneFacts ==
  ASSUME IInv, NEW s \in Stack
  PROVE  /\ queue[s] \in Seq(Event(s)) /\ Len(queue[s]) \in Nat /\ Len(queue[s]) <= MaxQueue
         /\ sent[s] \in Nat /\ sent[s] <= MaxRows[s] /\ MaxRows[s] \in Nat
         /\ reqs[s] \in Nat /\ reqs[s] <= MaxRequests[s] /\ MaxRequests[s] \in Nat \ {0}
         /\ rows[s] \in [Hop -> Nat] /\ last[s] \in [Hop -> Nat]
         /\ MaxQueue \in Nat \ {0} /\ DOMAIN queue = Stack
         /\ PaneOK(s)
<1>1. queue[s] \in Seq(Event(s)) /\ Len(queue[s]) \in Nat /\ Len(queue[s]) <= MaxQueue
  BY DEF IInv, TypeOK
<1>2. /\ sent[s] \in Nat /\ reqs[s] \in Nat /\ rows[s] \in [Hop -> Nat] /\ last[s] \in [Hop -> Nat]
      /\ sent[s] <= MaxRows[s] /\ reqs[s] <= MaxRequests[s]
  BY DEF IInv, TypeOK
<1>3. MaxRows[s] \in Nat /\ MaxRequests[s] \in Nat \ {0} /\ MaxQueue \in Nat \ {0}
  BY PaneAssumption
<1>4. DOMAIN queue = Stack /\ PaneOK(s)
  BY DEF IInv
<1> QED BY <1>1, <1>2, <1>3, <1>4

\* What the script reads of each kind of event.
LEMMA EventFields ==
  ASSUME NEW s \in Stack, NEW e \in Event(s)
  PROVE  EventOK(s, e)
BY DEF Event, EventOK

\* The types of a pane that takes an event and of one that is sent one.
LEMMA PoppedType ==
  ASSUME IInv, NEW s \in Stack, queue[s] # <<>>, Pop(s)
  PROVE  /\ queue' = [u \in Stack |-> queue'[u]]
         /\ \A u \in Stack : queue'[u] = IF u = s THEN Tail(queue[s]) ELSE queue[u]
         /\ \A u \in Stack : queue'[u] \in Seq(Event(u)) /\ Len(queue'[u]) <= MaxQueue
<1>1. /\ queue' = [u \in Stack |-> queue'[u]]
      /\ \A u \in Stack : queue'[u] = IF u = s THEN Tail(queue[s]) ELSE queue[u]
  BY PaneFacts DEF Pop, Set
<1>2. Tail(queue[s]) \in Seq(Event(s)) /\ Len(Tail(queue[s])) <= MaxQueue
  BY PaneFacts, Popping
<1>3. \A u \in Stack : queue[u] \in Seq(Event(u)) /\ Len(queue[u]) <= MaxQueue
  BY PaneFacts
<1> QED BY <1>1, <1>2, <1>3

\* The types after an event has come.
LEMMA PushedType ==
  ASSUME IInv, NEW s \in Stack, NEW e \in Event(s), Push(s, e)
  PROVE  /\ queue' = [u \in Stack |-> queue'[u]]
         /\ \A u \in Stack : queue'[u] = IF u = s THEN Append(queue[s], e) ELSE queue[u]
         /\ \A u \in Stack : queue'[u] \in Seq(Event(u)) /\ Len(queue'[u]) <= MaxQueue
<1>1. /\ queue' = [u \in Stack |-> queue'[u]]
      /\ \A u \in Stack : queue'[u] = IF u = s THEN Append(queue[s], e) ELSE queue[u]
      /\ Len(queue[s]) < MaxQueue
  BY PaneFacts DEF Push, Set
<1>2. Append(queue[s], e) \in Seq(Event(s)) /\ Len(Append(queue[s], e)) <= MaxQueue
  BY <1>1, PaneFacts, Pushing
<1>3. \A u \in Stack : queue[u] \in Seq(Event(u)) /\ Len(queue[u]) <= MaxQueue
  BY PaneFacts
<1> QED BY <1>1, <1>2, <1>3

\* Closing a source drops what was under way.
LEMMA Closing ==
  ASSUME IInv, NEW s \in Stack, Close(s)
  PROVE  /\ queue' = [u \in Stack |-> queue'[u]]
         /\ \A u \in Stack : queue'[u] \in Seq(Event(u)) /\ Len(queue'[u]) <= MaxQueue
         /\ ready' \in [Stack -> {"none", "connecting", "open", "closed"}]
         /\ net' \in [Stack -> {"none", "dialing", "flowing", "answered", "over", "pausing"}]
         /\ queue'[s] = <<>> /\ ready'[s] = "closed" /\ net'[s] = "none"
         /\ \A u \in Stack \ {s} : queue'[u] = queue[u] /\ ready'[u] = ready[u] /\ net'[u] = net[u]
<1>1. /\ queue' = [u \in Stack |-> queue'[u]]
      /\ \A u \in Stack : queue'[u] = IF u = s THEN <<>> ELSE queue[u]
  BY PaneFacts DEF Close, Set
<1>2. <<>> \in Seq(Event(s)) /\ Len(<<>>) <= MaxQueue
  BY PaneFacts, EmptySeq
<1>3. \A u \in Stack : queue[u] \in Seq(Event(u)) /\ Len(queue[u]) <= MaxQueue
  BY PaneFacts
<1>4. /\ ready' \in [Stack -> {"none", "connecting", "open", "closed"}]
      /\ net' \in [Stack -> {"none", "dialing", "flowing", "answered", "over", "pausing"}]
      /\ ready'[s] = "closed" /\ net'[s] = "none"
      /\ \A u \in Stack \ {s} : ready'[u] = ready[u] /\ net'[u] = net[u]
  BY DEF Close, Set, IInv, TypeOK
<1> QED BY <1>1, <1>2, <1>3, <1>4

\* A pane whose source is closed gets no more events.
LEMMA ClosedPane ==
  ASSUME NEW s, queue'[s] = <<>>, ready'[s] = "closed", net'[s] = "none",
         message'[s] \in {"done", "noresponse"} => opened'[s] \/ timer'[s] = "over",
         message'[s] = "done" => \A h \in Hop : last'[s][h] # 0 => rows'[s][h] = last'[s][h]
  PROVE  PaneOK(s)'
<1>1. Len(queue'[s]) = 0 /\ \A i \in 1..Len(queue'[s]) : FALSE
  BY EmptySeq
<1> QED
  BY <1>1 DEF PaneOK, InOrder, Sent, OpenFirst, RowsKept, Life, NoneWaits

-------------------------------------------------------------------------------
(* The handlers.                                                           *)

\* An event is only delivered to a source that is alive.
LEMMA Alive ==
  ASSUME IInv, NEW s \in Stack, queue[s] # <<>>
  PROVE  /\ ready[s] \notin {"none", "closed"} /\ net[s] \in {"flowing", "answered", "over"}
         /\ message[s] \notin {"done", "noresponse"}
         /\ EventOK(s, Head(queue[s])) /\ Head(queue[s]) = queue[s][1]
         /\ 1 \in 1..Len(queue[s])
<1>1. net[s] \in {"flowing", "answered", "over"} /\ Life(s)
  BY PaneFacts DEF PaneOK, Life, IInv, TypeOK
<1>2. Head(queue[s]) = queue[s][1] /\ Head(queue[s]) \in Event(s) /\ Len(queue[s]) \in Nat \ {0}
  BY PaneFacts, Popping
<1> QED BY <1>1, <1>2, EventFields DEF Life

\* What is left of the queue is as it was.
LEMMA PoppedQueue ==
  ASSUME IInv, NEW s \in Stack, queue[s] # <<>>, queue'[s] = Tail(queue[s]),
         sent'[s] = sent[s], net'[s] = net[s],
         opened'[s] \/ (opened'[s] = opened[s] /\ Head(queue[s]).ev # "open")
  PROVE  InOrder(queue[s])' /\ Sent(s)' /\ OpenFirst(s)'
<1>1. /\ Len(queue[s]) \in Nat \ {0} /\ Len(queue'[s]) = Len(queue[s]) - 1
      /\ \A i \in 1..Len(queue'[s]) : i + 1 \in 1..Len(queue[s]) /\ queue'[s][i] = queue[s][i + 1]
      /\ Head(queue[s]) = queue[s][1]
  BY PaneFacts, Popping
<1>2. InOrder(queue[s]) /\ Sent(s) /\ OpenFirst(s)
  BY PaneFacts DEF PaneOK
<1>3. InOrder(queue[s])'
  BY <1>1, <1>2 DEF InOrder
<1>4. Sent(s)'
  BY <1>1, <1>2 DEF Sent
<1>5. OpenFirst(s)'
  BY <1>1, <1>2 DEF OpenFirst
<1> QED BY <1>3, <1>4, <1>5

\* A row is shown when its turn comes, and nothing else shows one.
LEMMA PoppedRows ==
  ASSUME IInv, NEW s \in Stack, queue[s] # <<>>, queue'[s] = Tail(queue[s]),
         last'[s] = last[s],
         \/ Head(queue[s]).ev # "hop" /\ rows'[s] = rows[s]
         \/ /\ Head(queue[s]).ev = "hop"
            /\ rows'[s] = [rows[s] EXCEPT ![Head(queue[s]).hop] = Head(queue[s]).row]
  PROVE  RowsKept(s)'
<1> SUFFICES ASSUME NEW h \in Hop, last[s][h] # 0
             PROVE  \/ rows'[s][h] = last[s][h] /\ NoneWaits(queue'[s], h)
                    \/ Waits(queue'[s], h, last[s][h])
  BY DEF RowsKept
<1> DEFINE e == Head(queue[s])
<1>1. /\ rows[s][h] = last[s][h] /\ NoneWaits(queue[s], h)
      \/ Waits(queue[s], h, last[s][h])
  BY Alive, PaneFacts DEF PaneOK, RowsKept
<1>2. rows[s] \in [Hop -> Nat] /\ (e.ev = "hop" => e.hop \in Hop)
  BY PaneFacts, Alive DEF EventOK
<1>3. rows'[s][h] = IF IsHop(e, h) THEN e.row ELSE rows[s][h]
  BY <1>2 DEF IsHop
<1>4. /\ NoneWaits(queue[s], h) => NoneWaits(queue'[s], h) /\ ~IsHop(e, h)
      /\ Waits(queue[s], h, last[s][h]) =>
           \/ IsHop(e, h) /\ e.row = last[s][h] /\ NoneWaits(queue'[s], h)
           \/ Waits(queue'[s], h, last[s][h])
  BY PaneFacts, PoppingRows
<1> QED BY <1>1, <1>3, <1>4

\* The handler of "open".
LEMMA OnOpenStep ==
  ASSUME IInv, NEW s \in Stack, OnOpen(s), UNCHANGED pageVars
  PROVE  IInv'
<1>1. /\ queue[s] # <<>> /\ Head(queue[s]).ev = "open" /\ Pop(s)
      /\ ready' = Set(ready, s, "open") /\ opened' = Set(opened, s, TRUE)
      /\ message' = Set(message, s, "opened")
      /\ UNCHANGED <<checked, timer, pulse, rows, net, reqs, sent, last>>
  BY DEF OnOpen, Takes
<1>2. TypeOK'
  BY <1>1, PoppedType DEF IInv, TypeOK, Set, pageVars
<1>3. /\ ready'[s] = "open" /\ opened'[s] /\ message'[s] = "opened"
      /\ \A u \in Stack \ {s} : PaneSame(u)
  BY <1>1, PoppedType DEF IInv, TypeOK, Set, PaneSame
<1>4. queue'[s] = Tail(queue[s])
  BY <1>1, PoppedType
<1>5. InOrder(queue[s])' /\ Sent(s)' /\ OpenFirst(s)' /\ RowsKept(s)'
  BY <1>1, <1>3, <1>4, PoppedQueue, PoppedRows
<1>6. Life(s)'
  BY <1>1, <1>3, Alive DEF Life
<1> QED BY <1>1, <1>2, <1>3, <1>5, <1>6, PoppedType, OnePane DEF PaneOK, pageVars

\* The handler of "hop".
LEMMA OnHopStep ==
  ASSUME IInv, NEW s \in Stack, OnHop(s), UNCHANGED pageVars
  PROVE  IInv'
<1> DEFINE e == Head(queue[s])
<1>1. /\ queue[s] # <<>> /\ e.ev = "hop" /\ Pop(s)
      /\ rows' = [rows EXCEPT ![s] = [rows[s] EXCEPT ![e.hop] = e.row]]
      /\ UNCHANGED <<checked, ready, opened, timer, message, pulse, net, reqs, sent, last>>
  BY DEF OnHop, Takes, SwapHop
<1>2. e.hop \in Hop /\ e.row \in Nat /\ e.row <= sent[s]
  <2>1. EventOK(s, e) /\ e = queue[s][1] /\ 1 \in 1..Len(queue[s])
    BY <1>1, Alive
  <2>2. e.row <= sent[s]
    BY <1>1, <2>1, PaneFacts DEF PaneOK, Sent
  <2> QED BY <1>1, <2>1, <2>2, PaneFacts DEF EventOK
<1>3. rows[s] \in [Hop -> Nat] /\ \A h \in Hop : rows[s][h] <= sent[s]
  BY DEF IInv, TypeOK
<1>4. /\ rows'[s] = [rows[s] EXCEPT ![e.hop] = e.row]
      /\ \A u \in Stack \ {s} : rows'[u] = rows[u]
      /\ rows' \in [Stack -> [Hop -> Nat]]
      /\ \A h \in Hop : rows'[s][h] <= sent[s]
  <2> DEFINE row == [rows[s] EXCEPT ![e.hop] = e.row]
  <2>1. row \in [Hop -> Nat]
    BY <1>2, <1>3
  <2>2. \A h \in Hop : row[h] <= sent[s]
    BY <1>2, <1>3
  <2>3. rows' = [rows EXCEPT ![s] = row] /\ rows \in [Stack -> [Hop -> Nat]]
    BY <1>1 DEF IInv, TypeOK
  <2> HIDE DEF row
  <2>4. rows'[s] = row /\ \A u \in Stack \ {s} : rows'[u] = rows[u]
    BY <2>3
  <2>5. rows' \in [Stack -> [Hop -> Nat]]
    BY <2>1, <2>3
  <2> QED BY <2>2, <2>4, <2>5 DEF row
<1>5. TypeOK'
  <2>1. \A u \in Stack : queue'[u] \in Seq(Event(u)) /\ Len(queue'[u]) <= MaxQueue
    BY <1>1, PoppedType
  <2>2. \A u \in Stack, h \in Hop : rows'[u][h] <= sent[u]
    BY <1>4 DEF IInv, TypeOK
  <2>3. UNCHANGED <<checked, ready, opened, timer, message, pulse, net, reqs, sent, last>>
    BY <1>1
  <2> QED BY <1>4, <2>1, <2>2, <2>3 DEF IInv, TypeOK, pageVars
<1>6. queue'[s] = Tail(queue[s]) /\ \A u \in Stack \ {s} : PaneSame(u)
  BY <1>1, <1>4, PoppedType DEF PaneSame
<1>7. InOrder(queue[s])' /\ Sent(s)' /\ OpenFirst(s)'
  BY <1>1, <1>6, PoppedQueue
<1>8. RowsKept(s)'
  BY <1>1, <1>4, <1>6, PoppedRows
<1>9. Life(s)'
  BY <1>1, Alive DEF Life
<1> QED BY <1>1, <1>5, <1>6, <1>7, <1>8, <1>9, PoppedType, OnePane DEF PaneOK, pageVars

\* The handler of an error frame.
LEMMA OnErrorStep ==
  ASSUME IInv, NEW s \in Stack, OnError(s), UNCHANGED pageVars
  PROVE  IInv'
<1>1. /\ queue[s] # <<>> /\ Head(queue[s]).ev = "error" /\ Pop(s)
      /\ message' = Set(message, s, "error") /\ pulse' = Set(pulse, s, FALSE)
      /\ UNCHANGED <<checked, ready, opened, timer, rows, net, reqs, sent, last>>
  BY DEF OnError, Takes
<1>2. TypeOK'
  BY <1>1, PoppedType DEF IInv, TypeOK, Set, pageVars
<1>3. message'[s] = "error" /\ \A u \in Stack \ {s} : PaneSame(u)
  BY <1>1, PoppedType DEF IInv, TypeOK, Set, PaneSame
<1>4. queue'[s] = Tail(queue[s])
  BY <1>1, PoppedType
<1>5. InOrder(queue[s])' /\ Sent(s)' /\ OpenFirst(s)' /\ RowsKept(s)'
  BY <1>1, <1>3, <1>4, PoppedQueue, PoppedRows
<1>6. Life(s)'
  BY <1>1, <1>3, Alive DEF Life
<1> QED BY <1>1, <1>2, <1>3, <1>5, <1>6, PoppedType, OnePane DEF PaneOK, pageVars

\* The rows of an answer have all been delivered when its "done" is.
LEMMA OnDoneStep ==
  ASSUME IInv, NEW s \in Stack, OnDone(s), UNCHANGED pageVars
  PROVE  IInv'
<1>1. /\ queue[s] # <<>> /\ Head(queue[s]).ev = "done" /\ Close(s)
      /\ message' = Set(message, s, "done") /\ pulse' = Set(pulse, s, FALSE)
      /\ UNCHANGED <<checked, opened, timer, rows, reqs, sent, last>>
  BY DEF OnDone, Takes
<1>2. TypeOK'
  BY <1>1, Closing DEF IInv, TypeOK, Set, pageVars
<1>3. /\ \A u \in Stack \ {s} : PaneSame(u)
  BY <1>1, Closing DEF IInv, TypeOK, Set, PaneSame
<1>4. /\ queue[s][1].ev = "done" /\ 1 \in 1..Len(queue[s]) /\ ready[s] # "closed"
      /\ Len(queue[s]) \in Nat
  BY <1>1, Alive, PaneFacts
<1>5. \A h \in Hop : last[s][h] # 0 => rows[s][h] = last[s][h]
  <2>1. \A h \in Hop : NoneWaits(queue[s], h)
    BY <1>4, PaneFacts DEF PaneOK, InOrder, NoneWaits, IsHop
  <2>2. \A h \in Hop : \A row : ~Waits(queue[s], h, row)
    BY <2>1 DEF NoneWaits, Waits
  <2> QED BY <1>4, <2>2, PaneFacts DEF PaneOK, RowsKept
<1>6. opened[s]
  BY <1>4, PaneFacts DEF PaneOK, OpenFirst, IInv, TypeOK
<1>7. PaneOK(s)'
  BY <1>1, <1>5, <1>6, Closing, ClosedPane
<1> QED BY <1>1, <1>2, <1>3, <1>7, Closing, OnePane DEF pageVars

\* The handler of a broken connection.
LEMMA OnConnectionErrorStep ==
  ASSUME IInv, NEW s \in Stack, OnConnectionError(s), UNCHANGED pageVars
  PROVE  IInv'
<1>1. CASE Takes(s, "end") /\ Pop(s)
  <2>1. /\ queue[s] # <<>> /\ Head(queue[s]).ev = "end" /\ Pop(s)
        /\ ready' = Set(ready, s, "connecting") /\ net' = Set(net, s, "pausing")
        /\ UNCHANGED <<checked, opened, timer, message, pulse, rows, reqs, sent, last>>
    BY <1>1 DEF OnConnectionError, Takes, shown
  <2>2. TypeOK'
    BY <2>1, PoppedType DEF IInv, TypeOK, Set, pageVars
  <2>3. /\ ready'[s] = "connecting" /\ net'[s] = "pausing"
        /\ \A u \in Stack \ {s} : PaneSame(u)
    BY <2>1, PoppedType DEF IInv, TypeOK, Set, PaneSame
  <2>4. queue'[s] = <<>> /\ Len(queue'[s]) = 0
    <3>1. Head(queue[s]) = queue[s][1] /\ Len(queue[s]) \in Nat \ {0} /\ InOrder(queue[s])
      BY <2>1, PaneFacts, Popping DEF PaneOK
    <3>2. Len(queue[s]) = 1
      <4>1. ASSUME Len(queue[s]) > 1 PROVE FALSE
        <5>1. 1 \in 1..Len(queue[s]) /\ 2 \in 1..Len(queue[s]) /\ 1 < 2
          BY <3>1, <4>1
        <5>2. queue[s][1].ev \notin {"end", "fail"}
          BY <3>1, <5>1 DEF InOrder
        <5>3. queue[s][1].ev = "end"
          BY <2>1, Alive
        <5> QED BY <5>2, <5>3
      <4>2. Len(queue[s]) \in Nat \ {0}
        BY <3>1
      <4>3. \A n \in Nat \ {0} : ~(n > 1) => n = 1
        OBVIOUS
      <4> QED BY <4>1, <4>2, <4>3
    <3>3. queue'[s] \in Seq(Event(s)) /\ Len(queue'[s]) = 0
      <4>1. queue'[s] = Tail(queue[s]) /\ queue[s] \in Seq(Event(s))
        BY <2>1, PoppedType, PaneFacts
      <4> QED BY <2>1, <3>2, <4>1, Popping
    <3> QED BY <3>3, EmptySeq
  <2>5. RowsKept(s)'
    BY <2>1, PoppedType, PoppedRows
  <2>6. InOrder(queue[s])' /\ Sent(s)' /\ OpenFirst(s)'
    BY <2>3, <2>4 DEF InOrder, Sent, OpenFirst
  <2>7. Life(s)'
    BY <2>1, <2>3, <2>4, Alive DEF Life
  <2> QED BY <2>1, <2>2, <2>3, <2>5, <2>6, <2>7, PoppedType, OnePane DEF PaneOK, pageVars
<1>2. CASE Takes(s, "fail") /\ Close(s)
  <2>1. /\ queue[s] # <<>> /\ Head(queue[s]).ev = "fail" /\ Close(s)
        /\ UNCHANGED <<checked, opened, timer, message, pulse, rows, reqs, sent, last>>
    BY <1>2 DEF OnConnectionError, Takes, shown
  <2>2. TypeOK'
    BY <2>1, Closing DEF IInv, TypeOK, pageVars
  <2>3. \A u \in Stack \ {s} : PaneSame(u)
    BY <2>1, Closing DEF PaneSame
  <2>4. PaneOK(s)'
    BY <2>1, Closing, ClosedPane, Alive
  <2> QED BY <2>1, <2>2, <2>3, <2>4, Closing, OnePane DEF pageVars
<1> QED BY <1>1, <1>2 DEF OnConnectionError

\* The timer of a pane.
LEMMA GiveUpStep ==
  ASSUME IInv, NEW s \in Stack, GiveUp(s), UNCHANGED pageVars
  PROVE  IInv'
<1>1. /\ timer[s] = "armed" /\ timer' = Set(timer, s, "over")
      /\ UNCHANGED <<checked, opened, rows, reqs, sent, last>>
  BY DEF GiveUp
<1>2. ready[s] # "none" /\ timer'[s] = "over" /\ \A u \in Stack \ {s} : timer'[u] = timer[u]
  BY <1>1, PaneFacts DEF PaneOK, Life, IInv, TypeOK, Set
<1>3. CASE UNCHANGED <<ready, message, pulse, net, queue>>
  <2>1. TypeOK'
    BY <1>1, <1>3 DEF IInv, TypeOK, Set, pageVars
  <2>2. PaneOK(s)'
    BY <1>1, <1>2, <1>3, PaneFacts DEF PaneOK, InOrder, Sent, OpenFirst, RowsKept, Life
  <2> QED BY <1>1, <1>2, <1>3, <2>1, <2>2, OnePane DEF PaneSame, pageVars, IInv
<1>4. CASE /\ message' = Set(message, s, "noresponse") /\ pulse' = Set(pulse, s, FALSE)
           /\ Close(s)
  <2>1. TypeOK'
    BY <1>1, <1>4, Closing DEF IInv, TypeOK, Set, pageVars
  <2>2. message'[s] = "noresponse" /\ \A u \in Stack \ {s} : PaneSame(u)
    BY <1>1, <1>2, <1>4, Closing DEF IInv, TypeOK, Set, PaneSame
  <2>3. PaneOK(s)'
    BY <1>2, <1>4, <2>2, Closing, ClosedPane
  <2> QED BY <1>1, <1>4, <2>1, <2>2, <2>3, Closing, OnePane DEF pageVars
<1> QED BY <1>3, <1>4 DEF GiveUp

-------------------------------------------------------------------------------
(* The network and the server.                                             *)

\* What a new event may be: an "open" comes first, a row or a "done" while the
\* answer flows, and the end is the last.
LEMMA PushedPane ==
  ASSUME IInv, NEW s \in Stack, NEW e \in Event(s),
         queue'[s] = Append(queue[s], e),
         UNCHANGED <<ready, opened, timer, message, rows, reqs>>,
         net[s] \in {"dialing", "flowing", "answered"},
         net'[s] \in {"flowing", "answered", "over"}, sent'[s] \in Nat, sent'[s] >= sent[s],
         net[s] = "answered" => net'[s] = "over",
         e.ev \in {"end", "fail"} => net'[s] = "over",
         e.ev \in {"done", "error"} => net[s] = "flowing" /\ net'[s] = "answered",
         e.ev = "open" => net[s] = "dialing",
         e.ev = "hop" => /\ net[s] = "flowing" /\ e.row <= sent'[s]
                         /\ last'[s] = [last[s] EXCEPT ![e.hop] = e.row],
         e.ev # "hop" => last'[s] = last[s],
         net'[s] # "over" => net[s] = "flowing" \/ e.ev = "open"
  PROVE  PaneOK(s)'
<1> DEFINE q == queue[s]
           r == queue'[s]
<1>1. PaneOK(s) /\ q \in Seq(Event(s)) /\ EventOK(s, e) /\ sent[s] \in Nat
  BY PaneFacts, EventFields
<1>2. /\ Len(q) \in Nat /\ Len(r) = Len(q) + 1
      /\ \A i \in 1..Len(q) : r[i] = q[i]
      /\ r[Len(q) + 1] = e
  BY <1>1, Pushing
<1>3. \A i \in 1..Len(r) : i \in 1..Len(q) \/ i = Len(q) + 1
  BY <1>2
<1>4. net[s] = "dialing" => q = <<>> /\ Len(q) = 0
  BY <1>1, EmptySeq DEF PaneOK, Life
<1>5. \A i \in 1..Len(q) : /\ q[i].ev \notin {"end", "fail"}
                           /\ q[i].ev \in {"done", "error"} => net[s] = "answered"
                           /\ q[i].ev = "hop" => q[i].row <= sent[s]
  BY <1>1 DEF PaneOK, Sent
<1>6. InOrder(queue[s])'
  <2> SUFFICES ASSUME NEW i \in 1..Len(r), NEW j \in 1..Len(r), i < j
               PROVE  /\ r[i].ev \notin {"end", "fail"}
                      /\ r[i].ev \in {"done", "error"} => r[j].ev # "hop"
    BY DEF InOrder
  <2>1. i \in 1..Len(q) /\ r[i] = q[i]
    BY <1>2, <1>3
  <2>2. CASE j \in 1..Len(q)
    BY <1>1, <1>2, <2>1, <2>2 DEF PaneOK, InOrder
  <2>3. CASE j = Len(q) + 1
    BY <1>2, <1>5, <2>1, <2>3
  <2> QED BY <1>3, <2>2, <2>3
<1>7. Sent(s)'
  <2> SUFFICES ASSUME NEW i \in 1..Len(r)
               PROVE  /\ r[i].ev \in {"end", "fail"} => net'[s] = "over"
                      /\ r[i].ev \in {"done", "error"} => net'[s] \in {"answered", "over"}
                      /\ r[i].ev = "hop" => r[i].row <= sent'[s]
    BY DEF Sent
  <2>1. CASE i \in 1..Len(q)
    <3>1. r[i] = q[i] /\ EventOK(s, q[i])
      <4>1. q[i] \in Event(s)
        BY <1>1, <2>1
      <4> QED BY <1>2, <2>1, <4>1, EventFields
    <3>2. r[i].ev = "hop" => r[i].row \in Nat /\ r[i].row <= sent[s]
      BY <1>5, <2>1, <3>1, PaneFacts DEF EventOK
    <3> QED BY <1>1, <1>5, <2>1, <3>1, <3>2
  <2>2. CASE i = Len(q) + 1
    BY <1>2, <2>2
  <2> QED BY <1>3, <2>1, <2>2
<1>8. OpenFirst(s)'
  <2> SUFFICES ASSUME ~opened[s]
               PROVE  /\ net'[s] \in {"flowing", "answered"} => r # <<>> /\ r[1].ev = "open"
                      /\ \A i \in 1..Len(r) : r[i].ev = "done" => r[1].ev = "open"
    BY DEF OpenFirst
  <2>1. r # <<>>
    BY <1>1, <1>2, EmptySeq
  <2>2. CASE net[s] = "dialing"
    <3>1. r[1] = e /\ \A i \in 1..Len(r) : r[i] = e
      BY <1>2, <1>3, <1>4, <2>2
    <3> QED BY <2>1, <2>2, <3>1
  <2>3. CASE net[s] # "dialing"
    <3>1. q # <<>> /\ q[1].ev = "open"
      BY <1>1, <2>3 DEF PaneOK, OpenFirst
    <3>2. 1 \in 1..Len(q)
      BY <1>1, <1>2, <3>1, EmptySeq
    <3> QED BY <1>2, <2>1, <3>1, <3>2
  <2> QED BY <2>2, <2>3
<1>9. ready[s] # "closed"
  BY <1>1 DEF PaneOK, Life
<1>10. RowsKept(s)'
  <2> SUFFICES ASSUME NEW h \in Hop, last'[s][h] # 0
               PROVE  \/ rows[s][h] = last'[s][h] /\ NoneWaits(r, h)
                      \/ Waits(r, h, last'[s][h])
    BY DEF RowsKept
  <2>1. last'[s][h] = IF IsHop(e, h) THEN e.row ELSE last[s][h]
    BY <1>1, PaneFacts DEF IsHop, EventOK
  <2>2. CASE IsHop(e, h)
    BY <1>1, <2>1, <2>2, PushingRows
  <2>3. CASE ~IsHop(e, h)
    <3>1. (rows[s][h] = last[s][h] /\ NoneWaits(q, h)) \/ Waits(q, h, last[s][h])
      BY <1>1, <1>9, <2>1, <2>3 DEF PaneOK, RowsKept
    <3> QED BY <1>1, <2>1, <2>3, <3>1, PushingRows
  <2> QED BY <2>2, <2>3
<1>11. Life(s)'
  BY <1>1, <1>9 DEF PaneOK, Life
<1> QED BY <1>6, <1>7, <1>8, <1>10, <1>11 DEF PaneOK

\* The kinds of events there are.
LEMMA EventKinds ==
  ASSUME NEW s \in Stack
  PROVE  /\ \A ev \in {"open", "done", "error", "end", "fail"} :
              [ev |-> ev] \in Event(s) /\ [ev |-> ev].ev = ev
         /\ \A h \in Hop, row \in 1..MaxRows[s] :
              LET e == [ev |-> "hop", hop |-> h, row |-> row]
              IN e \in Event(s) /\ e.ev = "hop" /\ e.hop = h /\ e.row = row
BY DEF Event

\* An event that is not a row: the connection is accepted, refused or lost, the
\* answer finishes, the connection ends.
LEMMA ServerStep ==
  ASSUME IInv, NEW s \in Stack, NEW ev \in {"open", "done", "error", "end", "fail"},
         NEW n \in {"flowing", "answered", "over"},
         Push(s, [ev |-> ev]), net' = Set(net, s, n), Server(s), UNCHANGED <<sent, last>>,
         net[s] \in {"dialing", "flowing", "answered"},
         net[s] = "answered" => n = "over",
         ev \in {"end", "fail"} => n = "over",
         ev \in {"done", "error"} => net[s] = "flowing" /\ n = "answered",
         ev = "open" => net[s] = "dialing",
         n # "over" => net[s] = "flowing" \/ ev = "open"
  PROVE  IInv'
<1>1. PICK e \in Event(s) : Push(s, e) /\ e.ev = ev
  BY EventKinds
<1>2. UNCHANGED <<current, local, page, unprobed, found, tabs, checked, ready, opened, timer,
                  message, pulse, rows, reqs, sent, last>>
  BY DEF Server, pageVars, shown
<1>3. net'[s] = n /\ \A u \in Stack \ {s} : net'[u] = net[u]
  BY DEF IInv, TypeOK, Set
<1>4. TypeOK'
  BY <1>1, <1>2, PushedType DEF IInv, TypeOK, Set
<1>5. \A u \in Stack \ {s} : PaneSame(u)
  BY <1>1, <1>2, <1>3, PushedType DEF PaneSame
<1>6. queue'[s] = Append(queue[s], e)
  BY <1>1, PushedType
<1>7. sent'[s] \in Nat /\ sent'[s] >= sent[s]
  BY <1>2, PaneFacts
<1>8. PaneOK(s)'
  BY <1>1, <1>2, <1>3, <1>6, <1>7, PushedPane
<1> QED BY <1>1, <1>2, <1>4, <1>5, <1>8, PushedType, OnePane

\* The server answers a request.
LEMMA AcceptStep ==
  ASSUME IInv, NEW s \in Stack, Accept(s)
  PROVE  IInv'
<1>1. net[s] = "dialing" /\ Server(s) /\ UNCHANGED <<sent, last>>
  BY DEF Accept
<1>2. CASE net' = Set(net, s, "flowing") /\ Push(s, [ev |-> "open"])
  BY <1>1, <1>2, ServerStep
<1>3. ASSUME NEW ev \in {"end", "fail"}, net' = Set(net, s, "over"), Push(s, [ev |-> ev])
      PROVE  IInv'
  BY <1>1, <1>3, ServerStep
<1> QED BY <1>2, <1>3 DEF Accept

\* The server sends its last event.
LEMMA FinishStep ==
  ASSUME IInv, NEW s \in Stack, Finish(s)
  PROVE  IInv'
<1>1. PICK ev \in {"done", "error"} : Push(s, [ev |-> ev])
  BY DEF Finish
<1> QED BY <1>1, ServerStep DEF Finish

\* The connection breaks.
LEMMA HangupStep ==
  ASSUME IInv, NEW s \in Stack, Hangup(s)
  PROVE  IInv'
BY ServerStep DEF Hangup

\* The server sends a row.
LEMMA SendHopStep ==
  ASSUME IInv, NEW s \in Stack, NEW h \in Hop, SendHop(s, h)
  PROVE  IInv'
<1> DEFINE n == sent[s] + 1
<1>1. /\ net[s] = "flowing" /\ sent[s] < MaxRows[s] /\ sent' = [sent EXCEPT ![s] = n]
      /\ last' = [last EXCEPT ![s] = [last[s] EXCEPT ![h] = n]]
      /\ Push(s, [ev |-> "hop", hop |-> h, row |-> n])
      /\ UNCHANGED <<current, local, page, unprobed, found, tabs, checked, ready, opened, timer,
                     message, pulse, rows, reqs, net>>
  BY DEF SendHop, Server, pageVars, shown, Set
<1>2. n \in 1..MaxRows[s]
  BY <1>1, PaneFacts
<1>3. PICK e \in Event(s) : Push(s, e) /\ e.ev = "hop" /\ e.hop = h /\ e.row = n
  BY <1>1, <1>2, EventKinds
<1>4. /\ sent' \in [Stack -> Nat] /\ sent'[s] = n /\ \A u \in Stack \ {s} : sent'[u] = sent[u]
      /\ \A u \in Stack : sent'[u] <= MaxRows[u]
  <2>1. n \in Nat /\ n <= MaxRows[s]
    BY <1>2, PaneFacts
  <2>2. sent' \in [Stack -> Nat] /\ sent'[s] = n /\ \A u \in Stack \ {s} : sent'[u] = sent[u]
    BY <1>1, <2>1 DEF IInv, TypeOK
  <2>3. \A u \in Stack \ {s} : sent[u] <= MaxRows[u]
    BY PaneFacts
  <2> QED BY <2>1, <2>2, <2>3
<1>5. /\ last' \in [Stack -> [Hop -> Nat]]
      /\ last'[s] = [last[s] EXCEPT ![h] = n] /\ \A u \in Stack \ {s} : last'[u] = last[u]
  BY <1>1, <1>2, PaneFacts DEF IInv, TypeOK
<1>6. \A u \in Stack, g \in Hop : rows'[u][g] <= sent'[u] /\ last'[u][g] <= sent'[u]
  <2>1. \A u \in Stack, g \in Hop : /\ rows[u][g] <= sent[u] /\ last[u][g] <= sent[u]
                                    /\ rows[u][g] \in Nat /\ last[u][g] \in Nat
                                    /\ sent[u] \in Nat
    BY DEF IInv, TypeOK
  <2>2. \A g \in Hop : last'[s][g] = n \/ last'[s][g] = last[s][g]
    BY <1>5, PaneFacts
  <2> QED BY <1>1, <1>4, <1>5, <2>1, <2>2
<1>7. TypeOK'
  <2>1. \A u \in Stack : queue'[u] \in Seq(Event(u)) /\ Len(queue'[u]) <= MaxQueue
    BY <1>3, PushedType
  <2>2. \A u \in Stack : reqs'[u] <= MaxRequests[u] /\ sent'[u] <= MaxRows[u]
    BY <1>1, <1>4, PaneFacts
  <2>3. reqs' \in [Stack -> Nat] /\ rows' \in [Stack -> [Hop -> Nat]]
    BY <1>1 DEF IInv, TypeOK
  <2> QED BY <1>1, <1>4, <1>5, <1>6, <2>1, <2>2, <2>3 DEF IInv, TypeOK
<1>8. queue'[s] = Append(queue[s], e) /\ \A u \in Stack \ {s} : PaneSame(u)
  BY <1>1, <1>3, <1>4, <1>5, PushedType DEF PaneSame
<1>9. sent'[s] \in Nat /\ sent'[s] >= sent[s] /\ e.row <= sent'[s]
  BY <1>2, <1>3, <1>4, PaneFacts
<1>10. PaneOK(s)'
  BY <1>1, <1>3, <1>5, <1>8, <1>9, PushedPane
<1> QED BY <1>1, <1>3, <1>7, <1>8, <1>10, PushedType, OnePane

\* A reconnection starts a new answer with nothing under way.
LEMMA ReconnectStep ==
  ASSUME IInv, NEW s \in Stack, Reconnect(s)
  PROVE  IInv'
<1>1. /\ net[s] = "pausing" /\ reqs[s] < MaxRequests[s]
      /\ net' = Set(net, s, "dialing") /\ reqs' = Set(reqs, s, reqs[s] + 1)
      /\ last' = Set(last, s, NoRows)
      /\ UNCHANGED <<current, local, page, unprobed, found, tabs, checked, ready, opened, timer,
                     message, pulse, rows, queue, sent>>
  BY DEF Reconnect, pageVars, shown
<1>2. /\ reqs' \in [Stack -> Nat] /\ reqs'[s] <= MaxRequests[s]
      /\ \A u \in Stack \ {s} : reqs'[u] = reqs[u]
  BY <1>1, PaneFacts DEF IInv, TypeOK, Set
<1>3. /\ last' \in [Stack -> [Hop -> Nat]] /\ \A h \in Hop : last'[s][h] = 0
      /\ \A u \in Stack \ {s} : last'[u] = last[u]
  BY <1>1 DEF IInv, TypeOK, Set, NoRows
<1>4. \A u \in Stack, h \in Hop : last'[u][h] <= sent[u]
  <2>1. \A u \in Stack, h \in Hop : last[u][h] <= sent[u] /\ sent[u] \in Nat
    BY DEF IInv, TypeOK
  <2>2. \A h \in Hop : last'[s][h] <= sent[s]
    BY <1>3, <2>1
  <2> QED BY <1>3, <2>1, <2>2
<1>5. TypeOK'
  BY <1>1, <1>2, <1>3, <1>4 DEF IInv, TypeOK, Set
<1>6. net'[s] = "dialing" /\ \A u \in Stack \ {s} : PaneSame(u)
  BY <1>1, <1>2, <1>3 DEF IInv, TypeOK, Set, PaneSame
<1>7. queue[s] = <<>> /\ (\A i \in 1..Len(queue[s]) : FALSE) /\ ready[s] \notin {"none", "closed"}
  BY <1>1, PaneFacts, EmptySeq DEF PaneOK, Life
<1>8. PaneOK(s)'
  BY <1>1, <1>3, <1>6, <1>7, PaneFacts DEF PaneOK, InOrder, Sent, OpenFirst, RowsKept, Life
<1> QED BY <1>1, <1>5, <1>6, <1>8, OnePane DEF IInv

-------------------------------------------------------------------------------
(* The page.                                                               *)

\* A pane that is started is one that never was.
LEMMA Starting ==
  ASSUME IInv, NEW s \in Stack, StartStack(s)
  PROVE  /\ checked' = s /\ UNCHANGED <<message, rows, queue, sent>>
         /\ ready' \in [Stack -> {"none", "connecting", "open", "closed"}]
         /\ opened' \in [Stack -> BOOLEAN] /\ timer' \in [Stack -> {"off", "armed", "over"}]
         /\ pulse' \in [Stack -> BOOLEAN]
         /\ net' \in [Stack -> {"none", "dialing", "flowing", "answered", "over", "pausing"}]
         /\ reqs' \in [Stack -> Nat] /\ last' \in [Stack -> [Hop -> Nat]]
         /\ \A u \in Stack : reqs'[u] <= MaxRequests[u]
         /\ \A u \in Stack : /\ queue'[u] \in Seq(Event(u)) /\ Len(queue'[u]) <= MaxQueue
                             /\ sent'[u] <= MaxRows[u]
                             /\ \A h \in Hop : rows'[u][h] <= sent'[u] /\ last'[u][h] <= sent'[u]
         /\ \A u \in Stack : PaneOK(u)'
<1>1. CASE ready[s] = "none" /\ WirePane(s)
  <2>1. /\ ready' = Set(ready, s, "connecting") /\ opened' = Set(opened, s, FALSE)
        /\ timer' = Set(timer, s, "armed") /\ pulse' = Set(pulse, s, TRUE)
        /\ net' = Set(net, s, "dialing") /\ reqs' = Set(reqs, s, reqs[s] + 1)
        /\ last' = Set(last, s, NoRows) /\ UNCHANGED <<message, rows, queue, sent>>
        /\ checked' = s
    BY <1>1 DEF WirePane, StartStack
  <2>2. /\ net[s] = "none" /\ message[s] = "connecting" /\ reqs[s] = 0
        /\ queue[s] = <<>> /\ \A i \in 1..Len(queue[s]) : FALSE
    BY <1>1, PaneFacts, EmptySeq DEF PaneOK, Life
  <2>3. /\ ready' \in [Stack -> {"none", "connecting", "open", "closed"}]
        /\ opened' \in [Stack -> BOOLEAN] /\ timer' \in [Stack -> {"off", "armed", "over"}]
        /\ pulse' \in [Stack -> BOOLEAN]
        /\ net' \in [Stack -> {"none", "dialing", "flowing", "answered", "over", "pausing"}]
    BY <2>1 DEF IInv, TypeOK, Set
  <2>4. /\ reqs' \in [Stack -> Nat] /\ reqs'[s] = 1
        /\ \A u \in Stack \ {s} : reqs'[u] = reqs[u]
    BY <2>1, <2>2 DEF IInv, TypeOK, Set
  <2>5. /\ last' \in [Stack -> [Hop -> Nat]] /\ \A h \in Hop : last'[s][h] = 0
        /\ \A u \in Stack \ {s} : last'[u] = last[u]
    BY <2>1 DEF IInv, TypeOK, Set, NoRows
  <2>6. \A u \in Stack : reqs'[u] <= MaxRequests[u]
    <3>1. 1 <= MaxRequests[s]
      BY PaneFacts
    <3> QED BY <2>4, <3>1, PaneFacts
  <2>7. \A u \in Stack, h \in Hop : last'[u][h] <= sent[u]
    <3>1. \A u \in Stack, h \in Hop : last[u][h] <= sent[u] /\ sent[u] \in Nat
      BY DEF IInv, TypeOK
    <3>2. \A h \in Hop : last'[s][h] <= sent[s]
      BY <2>5, <3>1
    <3> QED BY <2>5, <3>1, <3>2
  <2>8. /\ ready'[s] = "connecting" /\ net'[s] = "dialing"
        /\ \A u \in Stack \ {s} : PaneSame(u)
    BY <2>1, <2>4, <2>5 DEF IInv, TypeOK, Set, PaneSame
  <2>9. PaneOK(s)'
    <3>1. /\ queue'[s] = <<>> /\ \A i \in 1..Len(queue'[s]) : FALSE
          /\ message'[s] = "connecting"
      BY <2>1, <2>2
    <3>2. InOrder(queue[s])' /\ Sent(s)'
      BY <3>1 DEF InOrder, Sent
    <3>3. OpenFirst(s)' /\ Life(s)'
      BY <2>8, <3>1 DEF OpenFirst, Life
    <3>4. RowsKept(s)'
      BY <2>5 DEF RowsKept
    <3> QED BY <3>2, <3>3, <3>4 DEF PaneOK
  <2>10. \A u \in Stack \ {s} : PaneOK(u)'
    BY <2>8, PaneFacts, OtherPane
  <2>11. \A u \in Stack : /\ queue'[u] \in Seq(Event(u)) /\ Len(queue'[u]) <= MaxQueue
                          /\ sent'[u] <= MaxRows[u]
                          /\ \A h \in Hop : rows'[u][h] <= sent'[u]
    BY <2>1 DEF IInv, TypeOK
  <2> QED BY <2>1, <2>3, <2>4, <2>5, <2>6, <2>7, <2>9, <2>10, <2>11
<1>2. CASE UNCHANGED <<ready, opened, timer, shown, net, queue, reqs, sent, last>>
  <2>1. checked' = s /\ \A u \in Stack : PaneSame(u)
    BY <1>2 DEF StartStack, shown, PaneSame
  <2>2. \A u \in Stack : PaneOK(u)'
    BY <2>1, PaneFacts, OtherPane
  <2> QED BY <1>2, <2>1, <2>2 DEF IInv, TypeOK, shown
<1> QED BY <1>1, <1>2 DEF StartStack

\* The page goes on and the panes are as they were.
LEMMA PageStep ==
  ASSUME IInv, UNCHANGED paneVars, UNCHANGED <<current, local>>,
         page' \in {"probing", "enriching", "waiting", "wired", "unavailable"},
         unprobed' \in SUBSET Stack, found' \in SUBSET Stack, tabs' \in SUBSET Stack,
         checked \in tabs' \union {Unknown}, PageOK'
  PROVE  IInv'
<1>1. UNCHANGED <<checked, ready, opened, timer, message, pulse, rows, net, queue, reqs, sent, last>>
  BY DEF paneVars, shown
<1>2. TypeOK'
  BY <1>1 DEF IInv, TypeOK
<1>3. \A u \in Stack : PaneOK(u)'
  BY <1>1, PaneFacts, OtherPane DEF PaneSame
<1> QED BY <1>1, <1>2, <1>3 DEF IInv

\* A pane starts to load.
LEMMA LoadingStep ==
  ASSUME IInv, Loading
  PROVE  IInv'
<1>1. ASSUME NEW s \in Stack, NEW answered \in BOOLEAN, Probe(s, answered) PROVE IInv'
  <2>1. s \in unprobed /\ unprobed' = unprobed \ {s} /\ UNCHANGED <<current, local, page, tabs>>
        /\ UNCHANGED paneVars
    BY <1>1 DEF Probe
  <2>2. found' \in SUBSET Stack
    BY <1>1 DEF Probe, IInv, TypeOK
  <2>3. page = "probing"
    BY <2>1 DEF IInv, PageOK
  <2>4. PageOK'
    BY <2>1, <2>3 DEF IInv, PageOK, paneVars
  <2> QED BY <2>1, <2>2, <2>4, PageStep DEF IInv, TypeOK
<1>2. CASE Detected
  <2>1. PageOK'
    BY <1>2 DEF Detected, IInv, PageOK, paneVars
  <2> QED BY <1>2, <2>1, PageStep DEF Detected, IInv, TypeOK
<1>3. CASE Enriched
  <2>1. PageOK'
    BY <1>3 DEF Enriched, IInv, PageOK, paneVars
  <2> QED BY <1>3, <2>1, PageStep DEF Enriched, IInv, TypeOK
<1>4. CASE WireTabs
  <2>1. /\ page = "waiting" /\ tabs' = Usable /\ UNCHANGED <<current, local, unprobed, found>>
        /\ Usable \subseteq Stack /\ found \subseteq Usable /\ found \subseteq Stack
    BY <1>4 DEF WireTabs, Usable, IInv, TypeOK
  <2>2. CASE /\ Usable # {} /\ page' = "wired" /\ StartStack(FirstOf(Usable))
    <3>1. FirstOf(Usable) \in Usable /\ FirstOf(Usable) \in Stack
      BY <2>1, <2>2 DEF FirstOf, Stack
    <3>2. /\ current' \in Stack \union {Unknown} /\ local' \in BOOLEAN
          /\ unprobed' \in SUBSET Stack /\ found' \in SUBSET Stack /\ tabs' \in SUBSET Stack
          /\ checked' \in tabs'
      BY <2>1, <2>2, <3>1, Starting DEF IInv, TypeOK
    <3>3. /\ message' \in [Stack -> {"connecting", "opened", "done", "error", "noresponse"}]
          /\ sent' \in [Stack -> Nat] /\ rows' \in [Stack -> [Hop -> Nat]]
          /\ queue' = [u \in Stack |-> queue'[u]]
      BY <2>2, <3>1, Starting DEF IInv, TypeOK
    <3>4. TypeOK' /\ \A u \in Stack : PaneOK(u)'
      BY <2>2, <3>1, <3>2, <3>3, Starting DEF TypeOK
    <3>5. PageOK'
      BY <2>1, <2>2 DEF IInv, PageOK
    <3> QED BY <3>3, <3>4, <3>5 DEF IInv
  <2>3. CASE Usable = {} /\ page' = "unavailable" /\ UNCHANGED paneVars
    <3>1. checked' = checked /\ UNCHANGED <<ready, opened, timer, message, pulse, rows, net, queue,
                                            reqs, sent, last>>
      BY <2>3 DEF paneVars, shown
    <3>3. checked = Unknown
      BY <2>1 DEF IInv, PageOK
    <3>4. TypeOK'
      BY <2>1, <2>3, <3>1, <3>3 DEF IInv, TypeOK
    <3>5. \A u \in Stack : PaneOK(u)'
      BY <3>1, PaneFacts, OtherPane DEF PaneSame
    <3> QED BY <2>1, <2>3, <3>1, <3>4, <3>5 DEF IInv, PageOK
  <2> QED BY <1>4, <2>2, <2>3 DEF WireTabs
<1> QED BY <1>1, <1>2, <1>3, <1>4 DEF Loading

\* A tab is chosen.
LEMMA SelectTabStep ==
  ASSUME IInv, NEW s \in Stack, SelectTab(s)
  PROVE  IInv'
<1>1. /\ page = "wired" /\ s \in tabs /\ StartStack(s)
      /\ UNCHANGED <<current, local, page, unprobed, found, tabs>>
  BY DEF SelectTab, pageVars
<1>2. TypeOK' /\ queue' = [u \in Stack |-> queue'[u]] /\ \A u \in Stack : PaneOK(u)'
  BY <1>1, Starting DEF IInv, TypeOK
<1> QED BY <1>1, <1>2 DEF IInv, PageOK

-------------------------------------------------------------------------------
(* The theorems.                                                           *)

\* A page that has just loaded.
LEMMA IInvInit == Init => IInv
<1> SUFFICES ASSUME Init PROVE IInv
  OBVIOUS
<1>1. TypeOK
  <2>1. \A s \in Stack : /\ queue[s] \in Seq(Event(s)) /\ Len(queue[s]) = 0
                         /\ \A h \in Hop : rows[s][h] = 0 /\ last[s][h] = 0
    BY EmptySeq DEF Init, NoRows
  <2>2. /\ reqs \in [Stack -> Nat] /\ sent \in [Stack -> Nat]
        /\ rows \in [Stack -> [Hop -> Nat]] /\ last \in [Stack -> [Hop -> Nat]]
    BY DEF Init, NoRows
  <2>3. \A s \in Stack : MaxRequests[s] \in Nat /\ MaxRows[s] \in Nat /\ MaxQueue \in Nat
    BY PaneAssumption
  <2>4. \A s \in Stack : reqs[s] = 0 /\ sent[s] = 0
    BY DEF Init
  <2> QED BY <2>1, <2>2, <2>3, <2>4 DEF Init, TypeOK
<1>2. ASSUME NEW s \in Stack PROVE PaneOK(s)
  <2>1. queue[s] = <<>> /\ \A i \in 1..Len(queue[s]) : FALSE
    BY EmptySeq DEF Init
  <2> QED BY <2>1 DEF Init, PaneOK, InOrder, Sent, OpenFirst, RowsKept, Life, NoRows
<1>3. PageOK /\ queue = [s \in Stack |-> queue[s]]
  BY DEF Init, PageOK
<1> QED BY <1>1, <1>2, <1>3 DEF IInv

\* Every callback, and every step of the network and the server, keeps it.
LEMMA IInvStep == IInv /\ [Next]_vars => IInv'
<1> SUFFICES ASSUME IInv, [Next]_vars PROVE IInv'
  OBVIOUS
<1>1. CASE UNCHANGED vars
  <2>1. PageOK'
    BY <1>1 DEF vars, pageVars, paneVars, IInv, PageOK
  <2> QED BY <1>1, <2>1, PageStep DEF vars, pageVars, IInv, TypeOK
<1>2. ASSUME NEW s \in Stack, Handle(s) PROVE IInv'
  BY <1>2, OnOpenStep, OnHopStep, OnDoneStep, OnErrorStep, OnConnectionErrorStep DEF Handle
<1>3. ASSUME NEW s \in Stack, TimeOut(s) PROVE IInv'
  BY <1>3, GiveUpStep DEF TimeOut
<1> QED
  BY <1>1, <1>2, <1>3, LoadingStep, SelectTabStep, AcceptStep, FinishStep, HangupStep,
     ReconnectStep, SendHopStep DEF Next

\* The invariant holds of every run of the card, however the events of both
\* panes, the timers and the visitor's clicks fall.
THEOREM Invariance == Spec => []IInv
<1> QED BY IInvInit, IInvStep, PTL DEF Spec

\* TypeOK, whatever the bounds.
THEOREM TypeCorrect == Spec => []TypeOK
<1>1. IInv => TypeOK
  BY DEF IInv
<1> QED BY <1>1, Invariance, PTL

\* wireTracerouteTabs runs once: no probe finds its stack afterwards.
THEOREM ProbedStacksAlwaysOffered == Spec => []ProbedStacksOffered
<1>1. IInv => ProbedStacksOffered
  BY DEF IInv, PageOK, ProbedStacksOffered
<1> QED BY <1>1, Invariance, PTL

\* wireTraceroutePane's "done": a finished pane shows the last row of every hop
\* of the answer that finished it, whatever earlier answers left on the screen.
THEOREM DoneAlwaysShowsTrace == Spec => []DoneShowsTrace
<1>1. ASSUME IInv, NEW s \in Stack, message[s] = "done", NEW h \in Hop, last[s][h] # 0
      PROVE  rows[s][h] = last[s][h]
  <2>1. Life(s) /\ RowsKept(s)
    BY <1>1, PaneFacts DEF PaneOK
  <2>2. queue[s] = <<>> /\ \A i \in 1..Len(queue[s]) : FALSE
    BY <1>1, <2>1, EmptySeq DEF Life
  <2> QED BY <1>1, <2>1, <2>2 DEF RowsKept, Waits
<1>2. IInv => DoneShowsTrace
  BY <1>1 DEF DoneShowsTrace
<1> QED BY <1>2, Invariance, PTL

\* After "done", or after the pane has given up, nothing that was under way
\* changes it and no reconnection asks again.
THEOREM AlwaysSettledForGood == Spec => SettledForGood
<1> DEFINE Kept(s) == /\ message'[s] = message[s] /\ pulse'[s] = pulse[s]
                      /\ rows'[s] = rows[s] /\ reqs'[s] = reqs[s]
<1>1. ASSUME IInv, [Next]_vars, NEW s \in Stack, message[s] \in {"done", "noresponse"}
      PROVE  Kept(s)
  <2>1. /\ ready[s] = "closed" /\ net[s] = "none" /\ queue[s] = <<>>
        /\ opened[s] \/ timer[s] = "over"
    BY <1>1, PaneFacts DEF PaneOK, Life
  <2>2. CASE UNCHANGED vars \/ (\E u \in Stack, answered \in BOOLEAN : Probe(u, answered))
             \/ Detected \/ Enriched
    BY <2>2 DEF vars, Probe, Detected, Enriched, paneVars, shown
  <2>3. ASSUME NEW u \in Stack, StartStack(u) PROVE Kept(s)
    <3>1. CASE u = s
      BY <2>1, <2>3, <3>1 DEF StartStack, shown
    <3>2. CASE u # s
      BY <1>1, <2>3, <3>2 DEF StartStack, WirePane, shown, Set, IInv, TypeOK
    <3> QED BY <3>1, <3>2
  <2>4. CASE WireTabs
    <3>1. FirstOf(Usable) \in Stack \/ UNCHANGED paneVars
      BY <1>1, <2>4 DEF WireTabs, FirstOf, Stack, Usable
    <3> QED BY <2>3, <2>4, <3>1 DEF WireTabs, paneVars, shown
  <2>5. ASSUME NEW u \in Stack,
               \/ OnOpen(u) \/ OnHop(u) \/ OnDone(u) \/ OnError(u) \/ OnConnectionError(u)
               \/ GiveUp(u)
        PROVE  Kept(s)
    <3>1. CASE u = s
      BY <2>1, <2>5, <3>1 DEF OnOpen, OnHop, OnDone, OnError, OnConnectionError, GiveUp, Takes
    <3>2. CASE u # s
      BY <1>1, <2>5, <3>2
         DEF OnOpen, OnHop, SwapHop, OnDone, OnError, OnConnectionError, GiveUp, shown, Set,
             IInv, TypeOK
    <3> QED BY <3>1, <3>2
  <2>6. ASSUME NEW u \in Stack,
               Accept(u) \/ Finish(u) \/ Hangup(u) \/ \E h \in Hop : SendHop(u, h)
        PROVE  Kept(s)
    BY <2>6 DEF Accept, Finish, Hangup, SendHop, Server, shown
  <2>7. ASSUME NEW u \in Stack, Reconnect(u) PROVE Kept(s)
    BY <1>1, <2>1, <2>7 DEF Reconnect, shown, Set, IInv, TypeOK
  <2> QED
    BY <1>1, <2>2, <2>3, <2>4, <2>5, <2>6, <2>7 DEF Next, Loading, SelectTab, Handle, TimeOut
<1>2. IInv /\ [Next]_vars
        => [\A s \in Stack : message[s] \in {"done", "noresponse"} => Kept(s)]_vars
  BY <1>1
<1> QED BY <1>2, Invariance, PTL DEF Spec, SettledForGood

\* A pane has one request under way at most.
THEOREM AlwaysOneAtATime == Spec => OneAtATime
<1> DEFINE Free(s) == net[s] \in {"none", "pausing"} /\ ready[s] # "closed"
<1>1. ASSUME IInv, [Next]_vars, NEW s \in Stack, reqs'[s] > reqs[s]
      PROVE  Free(s)
  <2>1. reqs[s] \in Nat /\ reqs'[s] # reqs[s] /\ Life(s)
    BY <1>1, PaneFacts DEF PaneOK
  <2>2. ASSUME NEW u \in Stack, StartStack(u) PROVE Free(s)
    BY <1>1, <2>1, <2>2 DEF StartStack, WirePane, Set, Life, IInv, TypeOK
  <2>3. CASE WireTabs
    <3>1. StartStack(FirstOf(Usable)) /\ FirstOf(Usable) \in Stack
      BY <1>1, <2>1, <2>3 DEF WireTabs, FirstOf, Stack, Usable, paneVars
    <3> QED BY <2>2, <3>1
  <2>4. ASSUME NEW u \in Stack, Reconnect(u) PROVE Free(s)
    BY <1>1, <2>1, <2>4 DEF Reconnect, Set, Life, IInv, TypeOK
  <2>5. ASSUME \/ UNCHANGED vars \/ Detected \/ Enriched
               \/ \E u \in Stack, answered \in BOOLEAN : Probe(u, answered)
               \/ \E u \in Stack :
                    \/ OnOpen(u) \/ OnHop(u) \/ OnDone(u) \/ OnError(u)
                    \/ OnConnectionError(u) \/ GiveUp(u)
                    \/ Accept(u) \/ Finish(u) \/ Hangup(u) \/ \E h \in Hop : SendHop(u, h)
        PROVE  UNCHANGED reqs
    BY <2>5 DEF vars, Detected, Enriched, Probe, paneVars, OnOpen, OnHop, OnDone, OnError,
                OnConnectionError, GiveUp, Accept, Finish, Hangup, SendHop, Server
  <2> QED
    BY <1>1, <2>1, <2>2, <2>3, <2>4, <2>5 DEF Next, Loading, SelectTab, Handle, TimeOut
<1>2. IInv /\ [Next]_vars
        => [\A s \in Stack : reqs'[s] > reqs[s] => net[s] \in {"none", "pausing"}
                                                   /\ ready[s] # "closed"]_vars
  BY <1>1
<1> QED BY <1>2, Invariance, PTL DEF Spec, OneAtATime
================================================================================
