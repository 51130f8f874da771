---------------------------- MODULE LiveHopsProofs ----------------------------
(***************************************************************************)
(* Proofs about LiveHops, for every number of hops, addresses and probes.  *)
(***************************************************************************)
EXTENDS LiveHops, TLAPS

-------------------------------------------------------------------------------
(* to_hop() and the accumulator.                                           *)

\* A loss in tenths of a percent.
Tenths == 0..1000

\* The loss is a percentage when no more came back than was sent,
LEMMA LossRange ==
  ASSUME NEW sent \in Nat, NEW received \in Nat, received <= sent
  PROVE  Loss(sent, received) \in Tenths
<1>1. CASE sent = 0
  BY <1>1 DEF Loss, Tenths
<1>2. CASE sent > 0
  <2> DEFINE n == 2000 * (sent - received) + sent
             d == 2 * sent
             q == n \div d
  <2>1. n \in Nat /\ d \in Nat /\ d > 0 /\ n < 1001 * d
    BY <1>2
  <2>2. q \in Int /\ d * q <= n /\ n < d * (q + 1)
    <3> HIDE DEF n, d
    <3> QED BY <2>1
  <2>3. q >= 0
    <3> HIDE DEF n, d, q
    <3>1. ~(q + 1 <= 0)
      BY <2>1, <2>2
    <3> QED BY <2>2, <3>1
  <2>4. q <= 1000
    <3> HIDE DEF n, d, q
    <3>1. ~(q >= 1001)
      BY <2>1, <2>2
    <3> QED BY <2>2, <3>1
  <2>5. Loss(sent, received) = q
    BY <1>2 DEF Loss
  <2> QED BY <2>2, <2>3, <2>4, <2>5 DEF Tenths
<1> QED BY <1>1, <1>2

\* and none when all of it did.
LEMMA NoLoss ==
  ASSUME NEW sent \in Nat
  PROVE  Loss(sent, sent) = 0
<1>1. CASE sent = 0
  BY <1>1 DEF Loss
<1>2. CASE sent > 0
  <2>1. sent \div (2 * sent) = 0
    BY <1>2
  <2>2. 2000 * (sent - sent) + sent = sent
    OBVIOUS
  <2> QED BY <1>2, <2>1, <2>2 DEF Loss
<1> QED BY <1>1, <1>2

\* states.setdefault: there is an accumulator for every hop asked about.
LEMMA HopAtType ==
  ASSUME TypeOK, NEW h \in Pos
  PROVE  HopAt(h) \in HopState
BY DEF TypeOK, HopAt, NewHop, HopState

\* Replacing the accumulator of one hop.
LEMMA UpdateHop ==
  ASSUME TypeOK, NEW h \in Pos, NEW s \in HopState, Update(h, s)
  PROVE  /\ states' \in [Pos -> HopState \union {None}]
         /\ HopAt(h)' = s /\ states'[h] # None
         /\ \A g \in Pos \ {h} : HopAt(g)' = HopAt(g) /\ states'[g] = states[g]
BY LiveHopsAssumption DEF TypeOK, Update, HopAt

\* The row of an accumulator.
LEMMA ToHopType ==
  ASSUME NEW s \in HopState, s.received <= s.sent
  PROVE  /\ ToHop(s) \in Row /\ ToHop(s) # None
         /\ ToHop(s).ip = s.ip /\ ToHop(s).samples = s.samples
         /\ ToHop(s).named = s.named /\ ToHop(s).labels = s.labels
         /\ ToHop(s).loss = Loss(s.sent, s.received)
<1>1. Loss(s.sent, s.received) \in Tenths
  <2>1. s.sent \in Nat /\ s.received \in Nat
    BY DEF HopState
  <2> QED BY <2>1, LossRange
<1>2. ToHop(s) \in Row
  BY <1>1 DEF ToHop, Row, HopState, Tenths
<1>3. /\ ToHop(s).ip = s.ip /\ ToHop(s).samples = s.samples
      /\ ToHop(s).named = s.named /\ ToHop(s).labels = s.labels
      /\ ToHop(s).loss = Loss(s.sent, s.received)
  BY DEF ToHop
<1>4. ToHop(s) # None
  <2>1. None \notin Row
    BY LiveHopsAssumption
  <2> QED BY <1>2, <2>1
<1> QED BY <1>2, <1>3, <1>4

\* Sending one row to the client.
LEMMA EmitRow ==
  ASSUME TypeOK, NEW h \in Pos, NEW s \in HopState, s.received <= s.sent, Emit(h, s)
  PROVE  /\ latest' \in [Pos -> Row \union {None}]
         /\ latest'[h] = ToHop(s) /\ Shown(h)'
         /\ \A g \in Pos \ {h} : latest'[g] = latest[g]
BY ToHopType DEF TypeOK, Emit, Shown

\* What the enrichment leaves alone.
LEMMA EnrichHop ==
  ASSUME NEW s \in HopState
  PROVE  /\ Enrich(s) \in HopState
         /\ Enrich(s).ip = s.ip /\ Enrich(s).sent = s.sent
         /\ Enrich(s).received = s.received /\ Enrich(s).samples = s.samples
BY DEF Enrich, HopState

-------------------------------------------------------------------------------
(* The inductive invariant.                                                *)

\* Each probe of a hop is owed or received and each time belongs to a reply; a
\* hop has an address, and a row, from its first host line on, and mtr prints
\* host lines for a probe that is still owed.
Account(h) ==
  /\ owed[h] + HopAt(h).received = HopAt(h).sent
  /\ HopAt(h).sent <= MaxProbes
  /\ HopAt(h).samples <= HopAt(h).received
  /\ HopAt(h).ip = None => HopAt(h).received = 0 /\ seen[h] = {}
  /\ HopAt(h).ip # None => Shown(h)
  /\ host = h => HopAt(h).ip # None /\ owed[h] > 0

\* A row that is shown says what the accumulator knows, except for the loss.
Current(h) ==
  Shown(h) => /\ latest[h].ip = HopAt(h).ip /\ latest[h].samples = HopAt(h).samples
              /\ latest[h].named = HopAt(h).named /\ latest[h].labels = HopAt(h).labels

\* No loss once everything was answered.
Lossless(h) ==
  HopAt(h).sent > 0 /\ owed[h] = 0 /\ Clean(h) => Shown(h) /\ latest[h].loss = 0

\* The last word on a hop.
Listed(h) ==
  phase = "done" /\ states[h] # None /\ HopAt(h).sent > 0 =>
    /\ Shown(h)
    /\ HopAt(h).ip = None => latest[h] = ToHop(HopAt(h))

HopOK(h) == Account(h) /\ Current(h) /\ Lossless(h) /\ Listed(h)

IInv == TypeOK /\ \A h \in Pos : HopOK(h)

\* A line about one hop leaves the others as they are; the host lines of the
\* others are not open.
LEMMA OtherHops ==
  ASSUME NEW h, NEW g, HopOK(g),
         HopAt(g)' = HopAt(g), states'[g] = states[g], latest'[g] = latest[g],
         owed'[g] = owed[g], seen'[g] = seen[g], host' # g \/ host = g, phase' = phase
  PROVE  HopOK(g)'
BY DEF HopOK, Account, Current, Lossless, Listed, Shown, Clean, ToHop

\* A line that changes an accumulator and shows it.
LEMMA ShownLine ==
  ASSUME IInv, NEW h \in Pos, NEW s \in HopState, Update(h, s), Emit(h, s),
         phase = "reading", phase' = phase,
         owed' \in [Pos -> 0..MaxProbes], seen' \in [Pos -> SUBSET Addr],
         host' \in {h, None},
         \A g \in Pos \ {h} : owed'[g] = owed[g] /\ seen'[g] = seen[g],
         owed'[h] + s.received = s.sent, s.sent <= MaxProbes, s.samples <= s.received,
         s.ip # None, host' = h => owed'[h] > 0
  PROVE  IInv'
<1> USE DEF IInv
<1>1. s.received <= s.sent /\ s.received \in Nat /\ s.sent \in Nat
  BY DEF TypeOK, HopState
<1>2. TypeOK'
  BY <1>1, UpdateHop, EmitRow DEF TypeOK
<1>3. HopOK(h)'
  <2>1. HopAt(h)' = s /\ latest'[h] = ToHop(s) /\ Shown(h)'
    BY <1>1, UpdateHop, EmitRow
  <2>2. Account(h)'
    BY <2>1 DEF Account
  <2>3. Current(h)'
    BY <1>1, <2>1, ToHopType DEF Current
  <2>4. Lossless(h)'
    <3>1. owed'[h] = 0 => s.received = s.sent
      BY <1>1
    <3> QED BY <1>1, <2>1, <3>1, ToHopType, NoLoss DEF Lossless
  <2> QED BY <2>1, <2>2, <2>3, <2>4 DEF HopOK, Listed
<1>4. ASSUME NEW g \in Pos \ {h} PROVE HopOK(g)'
  BY <1>1, UpdateHop, EmitRow, OtherHops, LiveHopsAssumption
<1> QED BY <1>2, <1>3, <1>4

\* A line that changes the counts of an accumulator and shows nothing.
LEMMA CountedLine ==
  ASSUME IInv, NEW h \in Pos, NEW s \in HopState, Update(h, s), UNCHANGED latest,
         phase = "reading", phase' = phase, UNCHANGED seen,
         owed' \in [Pos -> 0..MaxProbes], host' = None,
         \A g \in Pos \ {h} : owed'[g] = owed[g],
         owed'[h] + s.received = s.sent, s.sent <= MaxProbes,
         s.samples <= s.received,
         s.ip = HopAt(h).ip, s.samples = HopAt(h).samples, s.named = HopAt(h).named,
         s.labels = HopAt(h).labels,
         s.ip = None => s.received = 0,
         owed'[h] > 0 \/ s.samples < s.received
  PROVE  IInv'
<1> USE DEF IInv
<1>1. TypeOK'
  BY UpdateHop DEF TypeOK
<1>2. HopAt(h)' = s
  BY UpdateHop
<1>3. HopOK(h)'
  <2>1. Account(h)'
    BY <1>2, LiveHopsAssumption DEF HopOK, Account, Shown
  <2>2. Current(h)'
    BY <1>2 DEF HopOK, Current, Shown
  <2>3. Lossless(h)'
    BY <1>2 DEF Lossless, Clean, TypeOK, HopState
  <2> QED BY <2>1, <2>2, <2>3 DEF HopOK, Listed
<1>4. ASSUME NEW g \in Pos \ {h} PROVE HopOK(g)'
  BY UpdateHop, OtherHops, LiveHopsAssumption
<1> QED BY <1>1, <1>3, <1>4

-------------------------------------------------------------------------------
(* One step per kind of line.                                              *)

\* What is known of the hop a line is about.
LEMMA HopFacts ==
  ASSUME IInv, NEW h \in Pos
  PROVE  /\ HopAt(h) \in HopState
         /\ HopAt(h).sent \in Nat /\ HopAt(h).received \in Nat /\ HopAt(h).samples \in Nat
         /\ owed[h] \in Nat /\ owed[h] <= MaxProbes /\ MaxProbes \in Nat
         /\ Account(h) /\ Current(h)
<1>1. HopAt(h) \in HopState
  BY HopAtType DEF IInv
<1> QED BY <1>1, LiveHopsAssumption DEF IInv, TypeOK, HopState, HopOK

\* mtr's reply goes to a hop that has an address and a probe out.
LEMMA ReplyFacts ==
  ASSUME IInv, NEW h \in Pos, Replies(h)
  PROVE  /\ owed[h] > 0 /\ owed'[h] = owed[h] - 1 /\ owed' \in [Pos -> 0..MaxProbes]
         /\ \A g \in Pos \ {h} : owed'[g] = owed[g]
         /\ host' = None /\ phase = "reading" /\ UNCHANGED <<seen, phase>>
         /\ HopAt(h).ip # None
<1>1. /\ owed[h] > 0 /\ owed' = [owed EXCEPT ![h] = owed[h] - 1]
      /\ host' = None /\ phase = "reading" /\ UNCHANGED <<seen, phase>>
      /\ host = h \/ seen[h] # {}
  BY DEF Replies
<1>2. owed[h] - 1 \in 0..MaxProbes /\ owed \in [Pos -> 0..MaxProbes]
  BY <1>1, HopFacts DEF IInv, TypeOK
<1>3. HopAt(h).ip # None
  BY <1>1, HopFacts DEF Account
<1> QED BY <1>1, <1>2, <1>3

\* "h"
LEMMA HostLineStep ==
  ASSUME IInv, NEW h \in Pos, NEW a \in Addr, HostLine(h, a)
  PROVE  IInv'
<1> DEFINE s0 == [HopAt(h) EXCEPT !.ip = a]
           s == Enrich(s0)
<1>1. s0 \in HopState /\ s0.ip = a /\ s0.sent = HopAt(h).sent
      /\ s0.received = HopAt(h).received /\ s0.samples = HopAt(h).samples
  BY HopFacts DEF HopState
<1>2. /\ s \in HopState /\ s.ip = a /\ s.sent = HopAt(h).sent
      /\ s.received = HopAt(h).received /\ s.samples = HopAt(h).samples
  <2> HIDE DEF s0
  <2> QED BY <1>1, EnrichHop
<1>3. Update(h, s) /\ Emit(h, s)
  BY DEF HostLine
<1> HIDE DEF s0, s
<1>4. /\ phase = "reading" /\ UNCHANGED <<owed, phase>> /\ owed[h] > 0
      /\ host' = h /\ seen' = [seen EXCEPT ![h] = seen[h] \union {a}]
  BY DEF HostLine
<1>5. /\ owed' \in [Pos -> 0..MaxProbes] /\ seen' \in [Pos -> SUBSET Addr]
      /\ \A g \in Pos \ {h} : owed'[g] = owed[g] /\ seen'[g] = seen[g]
  BY <1>4 DEF IInv, TypeOK
<1>6. a # None
  BY LiveHopsAssumption
<1>7. owed'[h] + s.received = s.sent /\ s.sent <= MaxProbes /\ s.samples <= s.received
  BY <1>2, <1>4, HopFacts DEF Account
<1> QED BY <1>2, <1>3, <1>4, <1>5, <1>6, <1>7, ShownLine

\* "m"
LEMMA LabelLineStep ==
  ASSUME IInv, NEW h \in Pos, LabelLine(h)
  PROVE  IInv'
<1> DEFINE s == [HopAt(h) EXCEPT !.labels = @ \union {HopAt(h).ip}]
<1>1. /\ phase = "reading" /\ host = h /\ UNCHANGED <<owed, seen, host, phase>>
      /\ HopAt(h).ip # None /\ owed[h] > 0
  BY HopFacts DEF LabelLine, Account
<1>2. /\ s \in HopState /\ s.ip = HopAt(h).ip /\ s.sent = HopAt(h).sent
      /\ s.received = HopAt(h).received /\ s.samples = HopAt(h).samples
  BY <1>1, HopFacts DEF HopState
<1>3. Update(h, s) /\ Emit(h, s)
  BY <1>1, <1>2 DEF LabelLine
<1> HIDE DEF s
<1>4. /\ owed' \in [Pos -> 0..MaxProbes] /\ seen' \in [Pos -> SUBSET Addr]
      /\ \A g \in Pos \ {h} : owed'[g] = owed[g] /\ seen'[g] = seen[g]
      /\ host' = h /\ owed'[h] > 0
  BY <1>1 DEF IInv, TypeOK
<1>5. owed'[h] + s.received = s.sent /\ s.sent <= MaxProbes /\ s.samples <= s.received
  BY <1>1, <1>2, HopFacts DEF Account
<1> QED BY <1>1, <1>2, <1>3, <1>4, <1>5, ShownLine

\* "x"
LEMMA ProbeLineStep ==
  ASSUME IInv, NEW h \in Pos, ProbeLine(h)
  PROVE  IInv'
<1> DEFINE s == [HopAt(h) EXCEPT !.sent = @ + 1]
<1>1. /\ s \in HopState /\ s.ip = HopAt(h).ip /\ s.sent = HopAt(h).sent + 1
      /\ s.received = HopAt(h).received /\ s.samples = HopAt(h).samples
      /\ s.named = HopAt(h).named /\ s.labels = HopAt(h).labels
  BY HopFacts DEF HopState
<1>2. Update(h, s) /\ UNCHANGED latest
  BY DEF ProbeLine
<1> HIDE DEF s
<1>3. /\ phase = "reading" /\ host' = None /\ UNCHANGED <<seen, phase>>
      /\ HopAt(h).sent < MaxProbes /\ owed' = [owed EXCEPT ![h] = owed[h] + 1]
  BY DEF ProbeLine
<1>4. owed[h] + 1 \in 0..MaxProbes /\ s.sent <= MaxProbes
  BY <1>1, <1>3, HopFacts DEF Account
<1>5. /\ owed' \in [Pos -> 0..MaxProbes] /\ owed'[h] = owed[h] + 1
      /\ \A g \in Pos \ {h} : owed'[g] = owed[g]
  BY <1>3, <1>4 DEF IInv, TypeOK
<1>6. /\ owed'[h] + s.received = s.sent /\ s.samples <= s.received
      /\ s.ip = None => s.received = 0
      /\ owed'[h] > 0
  BY <1>1, <1>5, HopFacts DEF Account
<1> QED BY <1>1, <1>2, <1>3, <1>4, <1>5, <1>6, CountedLine

\* "p"
LEMMA ReplyLineStep ==
  ASSUME IInv, NEW h \in Pos, ReplyLine(h)
  PROVE  IInv'
<1> DEFINE s0 == [HopAt(h) EXCEPT !.received = @ + 1, !.samples = @ + 1]
           s == Enrich(s0)
<1>1. s0 \in HopState /\ s0.ip = HopAt(h).ip /\ s0.sent = HopAt(h).sent
      /\ s0.received = HopAt(h).received + 1 /\ s0.samples = HopAt(h).samples + 1
  <2> DEFINE r == HopAt(h)
             y == [r EXCEPT !.received = r.received + 1]
  <2>1. s0 = [y EXCEPT !.samples = r.samples + 1]
    BY Zenon
  <2>2. /\ y \in HopState /\ y.ip = r.ip /\ y.sent = r.sent
        /\ y.received = r.received + 1 /\ y.samples = r.samples
    BY HopFacts DEF HopState
  <2>3. r.samples \in Nat
    BY HopFacts
  <2> HIDE DEF s0, y, r
  <2>4. /\ s0 \in HopState /\ s0.ip = y.ip /\ s0.sent = y.sent
        /\ s0.received = y.received /\ s0.samples = r.samples + 1
    BY <2>1, <2>2, <2>3 DEF HopState
  <2> QED BY <2>2, <2>4 DEF r
<1>2. /\ s \in HopState /\ s.ip = HopAt(h).ip /\ s.sent = HopAt(h).sent
      /\ s.received = HopAt(h).received + 1 /\ s.samples = HopAt(h).samples + 1
  <2> HIDE DEF s0
  <2> QED BY <1>1, EnrichHop
<1>3. Update(h, s) /\ Emit(h, s) /\ Replies(h)
  BY DEF ReplyLine
<1> HIDE DEF s0, s
<1>4. /\ owed'[h] + s.received = s.sent /\ s.sent <= MaxProbes
      /\ s.samples <= s.received /\ s.ip # None
  BY <1>2, <1>3, ReplyFacts, HopFacts DEF Account
<1>5. seen' \in [Pos -> SUBSET Addr] /\ host' # h
  BY <1>3, ReplyFacts, LiveHopsAssumption DEF IInv, TypeOK
<1> QED BY <1>2, <1>3, <1>4, <1>5, ReplyFacts, ShownLine

\* "p" without a time.
LEMMA GarbledReplyLineStep ==
  ASSUME IInv, NEW h \in Pos, GarbledReplyLine(h)
  PROVE  IInv'
<1> DEFINE s == [HopAt(h) EXCEPT !.received = @ + 1]
<1>1. /\ s \in HopState /\ s.ip = HopAt(h).ip /\ s.sent = HopAt(h).sent
      /\ s.received = HopAt(h).received + 1 /\ s.samples = HopAt(h).samples
      /\ s.named = HopAt(h).named /\ s.labels = HopAt(h).labels
  BY HopFacts DEF HopState
<1>2. Update(h, s) /\ UNCHANGED latest /\ Replies(h)
  BY DEF GarbledReplyLine
<1> HIDE DEF s
<1>3. /\ owed'[h] + s.received = s.sent /\ s.sent <= MaxProbes
      /\ s.samples <= s.received /\ s.samples < s.received /\ s.ip # None
  BY <1>1, <1>2, ReplyFacts, HopFacts DEF Account
<1> QED BY <1>1, <1>2, <1>3, ReplyFacts, CountedLine

\* The end of the lines.
LEMMA FlushStep ==
  ASSUME IInv, Flush
  PROVE  IInv'
<1>1. /\ UNCHANGED <<states, owed, seen, host>> /\ phase' = "done"
      /\ \A h \in Pos : HopAt(h)' = HopAt(h)
  BY DEF Flush, mtrVars, HopAt
<1>2. ASSUME NEW h \in Pos
      PROVE  /\ HopAt(h).received <= HopAt(h).sent
             /\ ToHop(HopAt(h)) \in Row /\ ToHop(HopAt(h)) # None
  <2>1. HopAt(h).received <= HopAt(h).sent
    BY HopFacts DEF Account
  <2> QED BY <2>1, HopFacts, ToHopType
<1>3. \A h \in Pos : latest'[h] = IF states[h] # None /\ HopAt(h).ip = None /\ HopAt(h).sent > 0
                                  THEN ToHop(HopAt(h)) ELSE latest[h]
  BY DEF Flush
<1>4. TypeOK'
  <2>1. latest' \in [Pos -> Row \union {None}]
    BY <1>2 DEF Flush, IInv, TypeOK
  <2> QED BY <1>1, <2>1 DEF IInv, TypeOK
<1>5. ASSUME NEW h \in Pos PROVE HopOK(h)'
  <2>1. CASE states[h] # None /\ HopAt(h).ip = None /\ HopAt(h).sent > 0
    <3>1. latest'[h] = ToHop(HopAt(h)) /\ Shown(h)'
      BY <1>2, <1>3, <2>1 DEF Shown
    <3>2. Account(h)'
      BY <1>1, <3>1, HopFacts DEF Account
    <3>3. Current(h)'
      BY <1>1, <1>2, <3>1, HopFacts, ToHopType DEF Current
    <3>4. owed[h] > 0
      BY <2>1, HopFacts DEF Account
    <3>5. Lossless(h)'
      BY <1>1, <3>4 DEF Lossless
    <3>6. Listed(h)'
      BY <1>1, <3>1 DEF Listed, ToHop
    <3> QED BY <3>2, <3>3, <3>5, <3>6 DEF HopOK
  <2>2. CASE ~(states[h] # None /\ HopAt(h).ip = None /\ HopAt(h).sent > 0)
    <3>1. latest'[h] = latest[h] /\ Shown(h)' = Shown(h)
      BY <1>3, <2>2 DEF Shown
    <3>2. Account(h)' /\ Current(h)'
      BY <1>1, <3>1, HopFacts DEF Account, Current
    <3>3. Lossless(h)'
      BY <1>1, <3>1 DEF IInv, HopOK, Lossless, Clean
    <3>4. Listed(h)'
      BY <1>1, <2>2, <3>1, HopFacts DEF Listed, Account
    <3> QED BY <3>2, <3>3, <3>4 DEF HopOK
  <2> QED BY <2>1, <2>2
<1> QED BY <1>4, <1>5 DEF IInv

-------------------------------------------------------------------------------
(* The theorems.                                                           *)

\* Nothing is known, owed or shown before the first line.
LEMMA IInvInit == Init => IInv
<1> SUFFICES ASSUME Init PROVE IInv
  OBVIOUS
<1>1. TypeOK
  BY LiveHopsAssumption DEF Init, TypeOK
<1>2. ASSUME NEW h \in Pos PROVE HopOK(h)
  <2>1. HopAt(h) = NewHop
    BY DEF Init, HopAt
  <2> QED BY <2>1, LiveHopsAssumption
          DEF Init, HopOK, Account, Current, Lossless, Listed, Shown, NewHop
<1> QED BY <1>1, <1>2 DEF IInv

\* Every line keeps it.
LEMMA IInvStep == IInv /\ [Next]_vars => IInv'
<1> SUFFICES ASSUME IInv, [Next]_vars PROVE IInv'
  OBVIOUS
<1>1. CASE Cut
  <2>1. phase' = "cut" /\ UNCHANGED <<owed, seen, host, states, latest>>
    BY <1>1 DEF Cut, mtrVars
  <2> QED BY <2>1 DEF IInv, TypeOK, HopOK, Account, Current, Lossless, Listed, Shown, Clean, HopAt
<1>2. CASE UNCHANGED vars
  BY <1>2 DEF vars, IInv, TypeOK, HopOK, Account, Current, Lossless, Listed, Shown, Clean, HopAt,
              ToHop
<1> QED
  BY <1>1, <1>2, HostLineStep, LabelLineStep, ProbeLineStep, ReplyLineStep, GarbledReplyLineStep,
     FlushStep DEF Next

\* The invariant holds of every run of stream_mtr_live, whatever mtr prints.
THEOREM Invariance == Spec => []IInv
<1> QED BY IInvInit, IInvStep, PTL DEF Spec

\* TypeOK: in particular the loss of every row is between 0 and 100 %.
THEOREM TypeCorrect == Spec => []TypeOK
<1>1. IInv => TypeOK
  BY DEF IInv
<1> QED BY <1>1, Invariance, PTL

\* stream_mtr_live: the row a client has of a hop says what the accumulator
\* knows, apart from the loss, after every single line.
THEOREM RowsAlwaysCurrent == Spec => []RowsCurrent
<1>1. IInv => RowsCurrent
  <2> SUFFICES ASSUME IInv, NEW h \in Pos, Shown(h)
               PROVE  latest[h] = [ToHop(HopAt(h)) EXCEPT !.loss = latest[h].loss]
    BY DEF RowsCurrent
  <2>1. latest[h] \in Row /\ Current(h)
    BY HopFacts DEF IInv, TypeOK, Shown
  <2>2. latest[h] = [ip |-> HopAt(h).ip, loss |-> latest[h].loss,
                     samples |-> HopAt(h).samples, named |-> HopAt(h).named,
                     labels |-> HopAt(h).labels]
    BY <2>1 DEF Row, Current
  <2> QED BY <2>2 DEF ToHop
<1> QED BY <1>1, Invariance, PTL

\* stream_mtr_live: when every probe of a hop has been answered, and every reply
\* had a time, its row is exact, in whatever order the lines came.
THEOREM AnsweredHopsAlwaysExact == Spec => []AnsweredHopsExact
<1>1. IInv => AnsweredHopsExact
  <2> SUFFICES ASSUME IInv, NEW h \in Pos, HopAt(h).sent > 0, owed[h] = 0, Clean(h)
               PROVE  Shown(h) /\ latest[h].loss = 0 /\ latest[h].samples = HopAt(h).sent
    BY DEF AnsweredHopsExact
  <2>1. Shown(h) /\ latest[h].loss = 0
    BY DEF IInv, HopOK, Lossless
  <2>2. latest[h].samples = HopAt(h).samples
    BY <2>1, HopFacts DEF Current
  <2>3. HopAt(h).samples = HopAt(h).sent
    BY HopFacts DEF Account, Clean
  <2> QED BY <2>1, <2>2, <2>3
<1> QED BY <1>1, Invariance, PTL

\* stream_mtr_live's last loop: a finished trace has a row for each hop that
\* was probed.
THEOREM EveryProbedHopAlwaysListed == Spec => []EveryProbedHopListed
<1>1. IInv => EveryProbedHopListed
  BY DEF IInv, HopOK, Listed, EveryProbedHopListed
<1> QED BY <1>1, Invariance, PTL
===============================================================================
