---------------------------- MODULE MtrSlotsProofs ----------------------------
(***************************************************************************)
(* Proofs about MtrSlots, for every set of tasks, every cap and both       *)
(* values of Bounded and Recancel.                                         *)
(***************************************************************************)
EXTENDS MtrSlots, SequenceTheorems, FiniteSetTheorems, TLAPS

-------------------------------------------------------------------------------
(* What the three queue operations do to the set of waiters.               *)

Distinct(q) == \A i, j \in DOMAIN q : q[i] = q[j] => i = j

\* asyncio's acquire appends a newcomer to _waiters.
LEMMA QueueAppend ==
  ASSUME NEW q \in Seq(Task), NEW t \in Task, Distinct(q), t \notin ToSet(q)
  PROVE  /\ Append(q, t) \in Seq(Task)
         /\ ToSet(Append(q, t)) = ToSet(q) \union {t}
         /\ Distinct(Append(q, t))
<1> DEFINE a == Append(q, t)
<1>1. /\ a \in Seq(Task)
      /\ Len(a) = Len(q) + 1
      /\ \A i \in 1..Len(q) : a[i] = q[i]
      /\ a[Len(q) + 1] = t
  BY AppendProperties
<1>2. DOMAIN q = 1..Len(q) /\ DOMAIN a = 1..(Len(q) + 1) /\ Len(q) \in Nat
  BY <1>1
<1> HIDE DEF a
<1>3. ToSet(a) = ToSet(q) \union {t}
  BY <1>1, <1>2 DEF ToSet
<1>4. Distinct(a)
  BY <1>1, <1>2 DEF ToSet, Distinct
<1> QED BY <1>1, <1>3, <1>4 DEF a

\* release() pops the first pending waiter.
LEMMA QueueTail ==
  ASSUME NEW q \in Seq(Task), q # <<>>, Distinct(q)
  PROVE  /\ Head(q) \in ToSet(q) /\ Head(q) \in Task
         /\ Tail(q) \in Seq(Task)
         /\ ToSet(Tail(q)) = ToSet(q) \ {Head(q)}
         /\ Distinct(Tail(q))
<1> DEFINE r == Tail(q)
<1>1. /\ r \in Seq(Task)
      /\ Len(r) = Len(q) - 1
      /\ \A i \in 1..Len(r) : r[i] = q[i + 1]
      /\ Head(q) = q[1] /\ Head(q) \in Task
  BY HeadTailProperties
<1>2. /\ DOMAIN q = 1..Len(q) /\ DOMAIN r = 1..(Len(q) - 1)
      /\ Len(q) \in Nat \ {0}
  BY <1>1, EmptySeq
<1> HIDE DEF r
<1>3. ToSet(r) = ToSet(q) \ {Head(q)}
  <2>1. ASSUME NEW x \in ToSet(r) PROVE x \in ToSet(q) \ {Head(q)}
    <3>1. PICK i \in 1..(Len(q) - 1) : x = r[i]
      BY <1>2 DEF ToSet
    <3>2. i + 1 \in 1..Len(q) /\ i + 1 # 1 /\ 1 \in 1..Len(q) /\ x = q[i + 1]
      BY <1>1, <1>2, <3>1
    <3>3. q[i + 1] # q[1]
      BY <1>2, <3>2 DEF Distinct
    <3> QED BY <1>1, <1>2, <3>2, <3>3 DEF ToSet
  <2>2. ASSUME NEW x \in ToSet(q) \ {Head(q)} PROVE x \in ToSet(r)
    <3>1. PICK i \in 1..Len(q) : x = q[i]
      BY <1>2 DEF ToSet
    <3>2. i # 1 /\ i - 1 \in 1..(Len(q) - 1) /\ r[i - 1] = q[i]
      BY <1>1, <1>2, <3>1
    <3> QED BY <1>2, <3>1, <3>2 DEF ToSet
  <2> QED BY <2>1, <2>2
<1>4. Distinct(r)
  <2> SUFFICES ASSUME NEW i \in DOMAIN r, NEW j \in DOMAIN r, r[i] = r[j]
               PROVE  i = j
    BY DEF Distinct
  <2>1. /\ i \in Int /\ i + 1 \in DOMAIN q /\ r[i] = q[i + 1]
        /\ j \in Int /\ j + 1 \in DOMAIN q /\ r[j] = q[j + 1]
    BY <1>1, <1>2
  <2>2. i + 1 = j + 1
    BY <2>1 DEF Distinct
  <2> QED BY <2>1, <2>2
<1>5. Head(q) \in ToSet(q)
  BY <1>1, <1>2 DEF ToSet
<1> QED BY <1>1, <1>3, <1>4, <1>5 DEF r

\* A waiter that gives up removes its own entry, wherever it stands.
LEMMA QueueRemove ==
  ASSUME NEW q \in Seq(Task), Distinct(q), NEW n \in DOMAIN q
  PROVE  /\ RemoveAt(q, n) \in Seq(Task)
         /\ ToSet(RemoveAt(q, n)) = ToSet(q) \ {q[n]}
         /\ Distinct(RemoveAt(q, n))
<1> DEFINE r == RemoveAt(q, n)
<1>1. Len(q) \in Nat /\ n \in 1..Len(q) /\ DOMAIN q = 1..Len(q)
  OBVIOUS
<1>2. /\ SubSeq(q, 1, n - 1) \in Seq(Task)
      /\ Len(SubSeq(q, 1, n - 1)) = n - 1
      /\ \A i \in 1..(n - 1) : SubSeq(q, 1, n - 1)[i] = q[i]
  BY <1>1
<1>3. /\ SubSeq(q, n + 1, Len(q)) \in Seq(Task)
      /\ Len(SubSeq(q, n + 1, Len(q))) = Len(q) - n
      /\ \A i \in 1..(Len(q) - n) : SubSeq(q, n + 1, Len(q))[i] = q[n + i]
  BY <1>1
<1>4. /\ r \in Seq(Task)
      /\ Len(r) = Len(q) - 1
      /\ \A i \in 1..(Len(q) - 1) : r[i] = IF i < n THEN q[i] ELSE q[i + 1]
  <2> DEFINE a == SubSeq(q, 1, n - 1)
             b == SubSeq(q, n + 1, Len(q))
  <2>1. r = a \o b
    BY DEF RemoveAt
  <2> HIDE DEF a, b, r
  <2>2. /\ a \in Seq(Task) /\ Len(a) = n - 1 /\ \A i \in 1..(n - 1) : a[i] = q[i]
        /\ b \in Seq(Task) /\ Len(b) = Len(q) - n
        /\ \A i \in 1..(Len(q) - n) : b[i] = q[n + i]
    BY <1>2, <1>3 DEF a, b
  <2>3. /\ r \in Seq(Task)
        /\ Len(r) = Len(a) + Len(b)
        /\ \A i \in 1..(Len(a) + Len(b)) :
             r[i] = IF i <= Len(a) THEN a[i] ELSE b[i - Len(a)]
    BY <2>1, <2>2, ConcatProperties
  <2>4. ASSUME NEW i \in 1..(Len(q) - 1), i < n PROVE r[i] = q[i]
    BY <1>1, <2>2, <2>3, <2>4
  <2>5. ASSUME NEW i \in 1..(Len(q) - 1), ~(i < n) PROVE r[i] = q[i + 1]
    <3> DEFINE k == i - (n - 1)
    <3>1. k \in 1..(Len(q) - n) /\ n + k = i + 1 /\ ~(i <= n - 1)
      BY <1>1, <2>5
    <3>2. Len(a) = n - 1 /\ Len(a) + Len(b) = Len(q) - 1
      BY <1>1, <2>2
    <3>3. r[i] = b[k]
      BY <2>3, <3>1, <3>2
    <3>4. b[k] = q[n + k]
      BY <2>2, <3>1
    <3> HIDE DEF k
    <3> QED BY <3>1, <3>3, <3>4
  <2> QED BY <1>1, <2>2, <2>3, <2>4, <2>5
<1>5. DOMAIN r = 1..(Len(q) - 1)
  BY <1>4
<1> HIDE DEF r
<1>6. ToSet(r) = ToSet(q) \ {q[n]}
  <2>1. ASSUME NEW x \in ToSet(r) PROVE x \in ToSet(q) \ {q[n]}
    <3>1. PICK i \in 1..(Len(q) - 1) : x = r[i]
      BY <1>5 DEF ToSet
    <3>2. PICK k \in 1..Len(q) : k # n /\ x = q[k]
      <4>1. CASE i < n
        BY <1>1, <1>4, <3>1, <4>1
      <4>2. CASE i >= n
        BY <1>1, <1>4, <3>1, <4>2
      <4> QED BY <1>1, <3>1, <4>1, <4>2
    <3>3. q[k] # q[n]
      BY <1>1, <3>2 DEF Distinct
    <3> QED BY <1>1, <3>2, <3>3 DEF ToSet
  <2>2. ASSUME NEW x \in ToSet(q) \ {q[n]} PROVE x \in ToSet(r)
    <3>1. PICK i \in 1..Len(q) : x = q[i]
      BY <1>1 DEF ToSet
    <3>2. CASE i < n
      BY <1>1, <1>4, <1>5, <3>1, <3>2 DEF ToSet
    <3>3. CASE i > n
      <4>1. i - 1 \in 1..(Len(q) - 1) /\ r[i - 1] = q[i]
        BY <1>1, <1>4, <3>3
      <4> QED BY <1>5, <3>1, <4>1 DEF ToSet
    <3> QED BY <1>1, <3>1, <3>2, <3>3
  <2> QED BY <2>1, <2>2
<1>7. Distinct(r)
  <2> SUFFICES ASSUME NEW i \in DOMAIN r, NEW j \in DOMAIN r, r[i] = r[j]
               PROVE  i = j
    BY DEF Distinct
  <2> DEFINE k(m) == IF m < n THEN m ELSE m + 1
  <2>1. /\ i \in Int /\ k(i) \in DOMAIN q /\ r[i] = q[k(i)]
        /\ j \in Int /\ k(j) \in DOMAIN q /\ r[j] = q[k(j)]
    BY <1>1, <1>4, <1>5
  <2>2. k(i) = k(j)
    <3> HIDE DEF k
    <3> QED BY <2>1 DEF Distinct
  <2> QED BY <1>1, <2>1, <2>2
<1> QED BY <1>4, <1>6, <1>7 DEF r

-------------------------------------------------------------------------------
(* The slots.  SlotInv is inductive: SlotAccounting alone is not, because a *)
(* hand-over keeps the sum only if the waiter it goes to owned nothing,     *)
(* which is what WaitersQueued says of the queue.                           *)

Holders == {t \in Task : at[t] \in Holding}

SlotTypes == /\ at \in [Task -> Place]
             /\ value \in Nat
             /\ queue \in Seq(Task)
             /\ woken \subseteq Task
             /\ lost \in Nat

\* The tasks suspended in acquire() are exactly the queued and the woken ones,
\* each once: a waiter that timed out or disconnected leaves no entry behind
\* that a later release could hand a slot to.
WaitersQueued ==
  /\ {t \in Task : at[t] = "waiting"} = ToSet(queue) \union woken
  /\ ToSet(queue) \intersect woken = {}
  /\ \A i, j \in DOMAIN queue : queue[i] = queue[j] => i = j

SlotInv == SlotTypes /\ WaitersQueued /\ SlotAccounting /\ NoLostWakeup

\* The owners are the holders and the woken, finitely many.
LEMMA OwnersFinite ==
  ASSUME SlotTypes
  PROVE  /\ Owners = Holders \union woken
         /\ IsFiniteSet(Owners) /\ Cardinality(Owners) \in Nat
<1>1. Owners = Holders \union woken
  BY DEF Owners, Holders
<1>2. IsFiniteSet(Task)
  BY MtrSlotsAssumption
<1>3. Owners \in SUBSET Task
  BY <1>1 DEF Holders, SlotTypes
<1> QED BY <1>1, <1>2, <1>3, FS_Subset, FS_CardinalityType

\* What a step does to the abstract pool: one of its actions or nothing.
PoolStep == [Pool!PoolNext]_(Pool!poolVars)

\* The steps of the pool, in terms of the slots' owners.
LEMMA PoolSteps ==
  ASSUME SlotInv
  PROVE  /\ UNCHANGED <<Owners, lost>> => PoolStep
         /\ \A t \in Task \ Owners :
              value > 0 /\ Owners' = Owners \union {t} /\ lost' = lost => PoolStep
         /\ \A t \in Owners :
              Owners' = Owners \ {t} /\ lost' \in {lost, lost + 1} => PoolStep
         /\ \A t \in Owners, u \in Task \ Owners :
              Owners' = (Owners \ {t}) \union {u} /\ lost' = lost => PoolStep
         /\ Owners' = {} /\ lost' = 0 => PoolStep
<1> USE DEF PoolStep, Pool!poolVars, Pool!PoolNext
<1>1. Owners \subseteq Task
  BY DEF Owners, SlotInv, SlotTypes
<1>2. UNCHANGED <<Owners, lost>> => PoolStep
  OBVIOUS
<1>3. ASSUME NEW t \in Task \ Owners,
             value > 0, Owners' = Owners \union {t}, lost' = lost
      PROVE  PoolStep
  <2>1. Cardinality(Owners) + lost < Cap
    BY <1>3, OwnersFinite, MtrSlotsAssumption DEF SlotInv, SlotTypes, SlotAccounting
  <2>2. Pool!Cardinality(Owners) = Cardinality(Owners)
    BY DEF Pool!Cardinality, Cardinality
  <2> QED BY <1>3, <2>1, <2>2 DEF Pool!Grant
<1>4. ASSUME NEW t \in Owners, Owners' = Owners \ {t}, lost' \in {lost, lost + 1}
      PROVE  PoolStep
  BY <1>1, <1>4 DEF Pool!Return, Pool!Lose
<1>5. ASSUME NEW t \in Owners, NEW u \in Task \ Owners,
             Owners' = (Owners \ {t}) \union {u}, lost' = lost
      PROVE  PoolStep
  BY <1>1, <1>5 DEF Pool!HandOver
<1>6. Owners' = {} /\ lost' = 0 => PoolStep
  BY DEF Pool!Renew
<1> QED BY <1>2, <1>3, <1>4, <1>5, <1>6

\* A queued waiter owns nothing, and a woken one holds nothing yet.
LEMMA WaitersOwnNothing ==
  ASSUME SlotInv
  PROVE  /\ \A u \in ToSet(queue) : u \in Task /\ at[u] = "waiting" /\ u \notin Owners
         /\ \A u \in woken : u \in Task /\ at[u] = "waiting" /\ u \notin Holders
<1>1. "waiting" \notin Holding
  BY DEF Holding
<1>2. \A u \in ToSet(queue) \union woken : u \in Task /\ at[u] = "waiting"
  BY DEF SlotInv, WaitersQueued
<1> QED BY <1>1, <1>2 DEF Holders, Owners, SlotInv, WaitersQueued

\* Every way of giving a slot back: the owner t becomes idle and release()
\* runs, whether t held the slot or had only just been woken for it.
LEMMA SlotReleased ==
  ASSUME SlotInv, NEW t \in Owners,
         at' = [at EXCEPT ![t] = "idle"],
         ReleaseTo(woken \ {t}), UNCHANGED lost
  PROVE  SlotInv' /\ PoolStep
<1> USE DEF SlotInv
<1>1. t \in Task /\ t \notin ToSet(queue)
  BY WaitersOwnNothing DEF Owners, SlotTypes
<1>2. {u \in Task : at'[u] = "waiting"} = {u \in Task : at[u] = "waiting"} \ {t}
  BY DEF SlotTypes
<1>3. Holders' = Holders \ {t}
  BY DEF Holders, Holding, SlotTypes
<1>4. at' \in [Task -> Place]
  BY DEF SlotTypes, Place
<1>5. /\ IsFiniteSet(Owners \ {t})
      /\ Cardinality(Owners \ {t}) = Cardinality(Owners) - 1
      /\ Cardinality(Owners) \in Nat
  BY OwnersFinite, FS_RemoveElement
<1>6. Owners \ {t} = (Holders \ {t}) \union (woken \ {t})
  BY OwnersFinite
<1>7. CASE queue = <<>>
  <2>1. value' = value + 1 /\ woken' = woken \ {t} /\ queue' = <<>>
    BY <1>7 DEF ReleaseTo
  <2>2. SlotTypes'
    BY <1>4, <2>1, EmptySeq DEF SlotTypes
  <2>3. Owners' = Owners \ {t}
    BY <1>3, <1>6, <2>1 DEF Owners, Holders
  <2>4. SlotAccounting'
    BY <1>5, <2>1, <2>3 DEF SlotAccounting, SlotTypes
  <2>5. WaitersQueued'
    <3>1. ToSet(queue') = {} /\ ToSet(queue) = {} /\ Distinct(queue')
      BY <1>7, <2>1 DEF ToSet, Distinct
    <3> QED BY <1>2, <2>1, <3>1 DEF WaitersQueued, Distinct
  <2>6. NoLostWakeup'
    BY <2>1 DEF NoLostWakeup
  <2>7. PoolStep
    BY <2>3, PoolSteps
  <2> QED BY <2>2, <2>4, <2>5, <2>6, <2>7
<1>8. CASE queue # <<>>
  <2>1. /\ value' = value /\ queue' = Tail(queue)
        /\ woken' = (woken \ {t}) \union {Head(queue)}
    BY <1>8 DEF ReleaseTo
  <2>2. Distinct(queue) /\ queue \in Seq(Task)
    BY DEF WaitersQueued, Distinct, SlotTypes
  <2>3. /\ Head(queue) \in ToSet(queue) /\ Head(queue) \in Task
        /\ Tail(queue) \in Seq(Task)
        /\ ToSet(Tail(queue)) = ToSet(queue) \ {Head(queue)}
        /\ Distinct(Tail(queue))
    BY <1>8, <2>2, QueueTail
  <2>4. Head(queue) \notin Owners \ {t}
    BY <2>3, WaitersOwnNothing
  <2>5. SlotTypes'
    BY <1>4, <2>1, <2>3 DEF SlotTypes
  <2>6. Owners' = (Owners \ {t}) \union {Head(queue)}
    BY <1>3, <1>6, <2>1 DEF Owners, Holders
  <2>7. Cardinality(Owners') = Cardinality(Owners)
    <3>1. Cardinality(Owners') = Cardinality(Owners \ {t}) + 1
      BY <1>5, <2>4, <2>6, FS_AddElement
    <3> QED BY <1>5, <3>1
  <2>8. SlotAccounting'
    BY <2>1, <2>7 DEF SlotAccounting
  <2>9. WaitersQueued'
    BY <1>1, <1>2, <2>1, <2>3 DEF WaitersQueued, Distinct
  <2>10. NoLostWakeup'
    BY <2>1 DEF NoLostWakeup
  <2>11. PoolStep
    BY <2>3, <2>4, <2>6, WaitersOwnNothing, PoolSteps
  <2> QED BY <2>5, <2>8, <2>9, <2>10, <2>11
<1> QED BY <1>7, <1>8

\* A holder goes from one of its awaits to another.
LEMMA HolderMoves ==
  ASSUME SlotInv, NEW t \in Task, at[t] \in Holding, NEW p \in Holding,
         at' = [at EXCEPT ![t] = p], UNCHANGED <<value, queue, woken, lost>>
  PROVE  SlotInv' /\ PoolStep
<1> USE DEF SlotInv
<1>1. Holders' = Holders
  BY DEF Holders, SlotTypes
<1>2. {u \in Task : at'[u] = "waiting"} = {u \in Task : at[u] = "waiting"}
  BY DEF SlotTypes, Holding
<1>3. Owners' = Owners
  BY <1>1 DEF Owners, Holders
<1>4. SlotTypes'
  BY DEF SlotTypes, Place
<1>5. SlotAccounting'
  BY <1>3 DEF SlotAccounting
<1>6. WaitersQueued'
  BY <1>2 DEF WaitersQueued
<1>7. PoolStep
  BY <1>3, PoolSteps
<1> QED BY <1>4, <1>5, <1>6, <1>7 DEF NoLostWakeup

\* A holder ends without a release: the slot moves to `lost`.
LEMMA HolderLeaks ==
  ASSUME SlotInv, NEW t \in Task, at[t] \in Holding,
         at' = [at EXCEPT ![t] = "idle"], lost' = lost + 1,
         UNCHANGED <<value, queue, woken>>
  PROVE  SlotInv' /\ PoolStep
<1> USE DEF SlotInv
<1>1. t \in Holders /\ t \notin woken /\ "idle" \notin Holding
  BY WaitersOwnNothing DEF Holders, Holding
<1>2. Holders' = Holders \ {t}
  BY <1>1 DEF Holders, SlotTypes
<1>3. {u \in Task : at'[u] = "waiting"} = {u \in Task : at[u] = "waiting"}
  BY DEF SlotTypes, Holding
<1>4. t \in Owners /\ Owners' = Owners \ {t}
  BY <1>1, <1>2 DEF Owners, Holders
<1>5. Cardinality(Owners') = Cardinality(Owners) - 1 /\ Cardinality(Owners) \in Nat
  BY <1>4, OwnersFinite, FS_RemoveElement
<1>6. SlotTypes'
  BY DEF SlotTypes, Place
<1>7. SlotAccounting'
  BY <1>5 DEF SlotAccounting, SlotTypes
<1>8. WaitersQueued'
  BY <1>3 DEF WaitersQueued
<1>9. PoolStep
  BY <1>4, PoolSteps
<1> QED BY <1>6, <1>7, <1>8, <1>9 DEF NoLostWakeup

-------------------------------------------------------------------------------
(* The three actions that change the queue without a release.               *)

\* Asking for a slot keeps the slots accounted.
LEMMA BeginKeepsSlots ==
  ASSUME SlotInv, NEW t \in Task, NEW m \in Mode, Begin(t, m)
  PROVE  SlotInv' /\ PoolStep
<1> USE DEF SlotInv
<1>1. t \notin Owners /\ t \notin ToSet(queue) /\ t \notin Holders
  BY WaitersOwnNothing, "idle" \notin Holding, OwnersFinite
     DEF Begin, Holding, Owners, Holders
<1>2. lost' = lost /\ woken' = woken
  BY DEF Begin
<1>3. CASE ~Locked
  <2>1. /\ value' = value - 1 /\ queue' = queue /\ value # 0 /\ queue = <<>>
        /\ at' = [at EXCEPT ![t] = "spawning"]
    BY <1>3 DEF Begin, Locked
  <2>2. SlotTypes'
    BY <1>2, <2>1 DEF SlotTypes, Place, Holding
  <2>3. {u \in Task : at'[u] = "waiting"} = {u \in Task : at[u] = "waiting"}
    BY <2>1 DEF SlotTypes, Begin
  <2>4. Owners' = Owners \union {t}
    BY <1>2, <2>1 DEF Owners, Holding, SlotTypes
  <2>5. Cardinality(Owners') = Cardinality(Owners) + 1 /\ Cardinality(Owners) \in Nat
    BY <1>1, <2>4, OwnersFinite, FS_AddElement
  <2>6. SlotAccounting'
    BY <1>2, <2>1, <2>5 DEF SlotAccounting, SlotTypes
  <2>7. WaitersQueued'
    BY <1>2, <2>1, <2>3 DEF WaitersQueued
  <2>8. NoLostWakeup'
    BY <2>1 DEF NoLostWakeup
  <2>9. PoolStep
    BY <1>1, <1>2, <2>1, <2>4, PoolSteps DEF SlotTypes
  <2> QED BY <2>2, <2>6, <2>7, <2>8, <2>9
<1>4. CASE Locked
  <2>1. /\ value' = value /\ queue' = Append(queue, t)
        /\ at' = [at EXCEPT ![t] = "waiting"]
    BY <1>4 DEF Begin
  <2>2. Distinct(queue) /\ queue \in Seq(Task)
    BY DEF WaitersQueued, Distinct, SlotTypes
  <2>3. /\ Append(queue, t) \in Seq(Task)
        /\ ToSet(Append(queue, t)) = ToSet(queue) \union {t}
        /\ Distinct(Append(queue, t))
    BY <1>1, <2>2, QueueAppend
  <2>4. SlotTypes'
    BY <1>2, <2>1, <2>3 DEF SlotTypes, Place
  <2>5. {u \in Task : at'[u] = "waiting"} = {u \in Task : at[u] = "waiting"} \union {t}
    BY <2>1 DEF SlotTypes
  <2>6. Owners' = Owners
    BY <1>1, <1>2, <2>1 DEF Owners, Holders, Holding, SlotTypes
  <2>7. SlotAccounting'
    BY <1>2, <2>1, <2>6 DEF SlotAccounting
  <2>8. WaitersQueued'
    BY <1>1, <1>2, <2>1, <2>3, <2>5 DEF WaitersQueued, Distinct, Owners
  <2>9. NoLostWakeup'
    BY <1>2, <1>4, <2>1 DEF NoLostWakeup, Locked, SlotTypes
  <2>10. PoolStep
    BY <1>2, <2>6, PoolSteps
  <2> QED BY <2>4, <2>7, <2>8, <2>9, <2>10
<1> QED BY <1>3, <1>4

\* A woken waiter keeps the slots accounted.
LEMMA ResumeKeepsSlots ==
  ASSUME SlotInv, NEW t \in Task, Resume(t)
  PROVE  SlotInv' /\ PoolStep
<1> USE DEF SlotInv
<1>1. /\ t \in woken /\ at' = [at EXCEPT ![t] = "spawning"] /\ lost' = lost
      /\ "spawning" \in Holding
  BY DEF Resume, Holding
<1>2. {u \in Task : at'[u] = "waiting"} = {u \in Task : at[u] = "waiting"} \ {t}
  BY <1>1 DEF SlotTypes
<1>3. Holders' = Holders \union {t} /\ t \notin ToSet(queue)
  BY <1>1 DEF Holders, SlotTypes, WaitersQueued
<1>4. CASE value > 0 /\ queue # <<>>
  <2>1. /\ value' = value - 1 /\ queue' = Tail(queue)
        /\ woken' = (woken \ {t}) \union {Head(queue)}
    BY <1>4 DEF Resume
  <2>2. Distinct(queue) /\ queue \in Seq(Task)
    BY DEF WaitersQueued, Distinct, SlotTypes
  <2>3. /\ Head(queue) \in ToSet(queue) /\ Head(queue) \in Task
        /\ Tail(queue) \in Seq(Task)
        /\ ToSet(Tail(queue)) = ToSet(queue) \ {Head(queue)}
        /\ Distinct(Tail(queue))
    BY <1>4, <2>2, QueueTail
  <2>4. SlotTypes'
    BY <1>1, <1>4, <2>1, <2>3 DEF SlotTypes, Place
  <2>5. Owners' = Owners \union {Head(queue)}
    BY <1>1, <1>3, <2>1, OwnersFinite DEF Owners, Holders
  <2>6. Head(queue) \notin Owners
    BY <2>3, WaitersOwnNothing
  <2>7. Cardinality(Owners') = Cardinality(Owners) + 1 /\ Cardinality(Owners) \in Nat
    BY <2>5, <2>6, OwnersFinite, FS_AddElement
  <2>8. SlotAccounting'
    BY <1>1, <1>4, <2>1, <2>7 DEF SlotAccounting, SlotTypes
  <2>9. WaitersQueued'
    BY <1>2, <1>3, <2>1, <2>3 DEF WaitersQueued, Distinct
  <2>10. NoLostWakeup'
    BY <2>1 DEF NoLostWakeup
  <2>11. PoolStep
    BY <1>1, <1>4, <2>3, <2>5, <2>6, PoolSteps
  <2> QED BY <2>4, <2>8, <2>9, <2>10, <2>11
<1>5. CASE value = 0 \/ queue = <<>>
  <2>1. value' = value /\ queue' = queue /\ woken' = woken \ {t}
    BY <1>5 DEF Resume, SlotTypes
  <2>2. SlotTypes'
    BY <1>1, <2>1 DEF SlotTypes, Place
  <2>3. Owners' = Owners
    BY <1>1, <1>3, <2>1, OwnersFinite DEF Owners, Holders
  <2>4. SlotAccounting'
    BY <1>1, <2>1, <2>3 DEF SlotAccounting
  <2>5. WaitersQueued'
    BY <1>2, <1>3, <2>1 DEF WaitersQueued
  <2>6. NoLostWakeup'
    BY <1>5, <2>1 DEF NoLostWakeup, SlotTypes
  <2>7. PoolStep
    BY <1>1, <2>3, PoolSteps
  <2> QED BY <2>2, <2>4, <2>5, <2>6, <2>7
<1> QED BY <1>4, <1>5 DEF SlotTypes

\* A waiter cancelled or timed out keeps the slots accounted.
LEMMA CancelAcquireKeepsSlots ==
  ASSUME SlotInv, NEW t \in Task, NEW result, CancelAcquire(t, result)
  PROVE  SlotInv' /\ PoolStep
<1> USE DEF SlotInv
<1>1. at[t] = "waiting" /\ at' = [at EXCEPT ![t] = "idle"] /\ lost' = lost
  BY DEF CancelAcquire, Leave
<1>2. CASE t \in woken
  <2>1. t \in Owners /\ ReleaseTo(woken \ {t})
    BY <1>2 DEF CancelAcquire, Owners
  <2> QED BY <1>1, <2>1, SlotReleased
<1>3. CASE t \notin woken
  <2>1. PICK i \in DOMAIN queue : queue[i] = t /\ queue' = RemoveAt(queue, i)
    BY <1>3 DEF CancelAcquire
  <2>2. value' = value /\ woken' = woken
    BY <1>3 DEF CancelAcquire
  <2>3. Distinct(queue) /\ queue \in Seq(Task)
    BY DEF WaitersQueued, Distinct, SlotTypes
  <2>4. /\ queue' \in Seq(Task) /\ ToSet(queue') = ToSet(queue) \ {t}
        /\ Distinct(queue')
    BY <2>1, <2>3, QueueRemove
  <2>5. {u \in Task : at'[u] = "waiting"} = {u \in Task : at[u] = "waiting"} \ {t}
    BY <1>1 DEF SlotTypes
  <2>6. Owners' = Owners
    BY <1>1, <2>2 DEF Owners, Holding, SlotTypes
  <2>7. SlotTypes'
    BY <1>1, <2>2, <2>4 DEF SlotTypes, Place
  <2>8. SlotAccounting'
    BY <1>1, <2>2, <2>6 DEF SlotAccounting
  <2>9. WaitersQueued'
    BY <1>3, <2>2, <2>4, <2>5 DEF WaitersQueued, Distinct
  <2>10. queue # <<>>
    BY <2>1, EmptySeq, <2>3
  <2>11. NoLostWakeup'
    BY <2>2, <2>10 DEF NoLostWakeup
  <2>12. PoolStep
    BY <1>1, <2>6, PoolSteps
  <2> QED BY <2>7, <2>8, <2>9, <2>11, <2>12
<1> QED BY <1>2, <1>3

-------------------------------------------------------------------------------
(* The processes.                                                          *)

\* What is known of a task's subprocess from where the task waits.
ProcInv ==
  /\ mode \in [Task -> Mode]
  /\ outcome \in [Task -> Outcome]
  /\ mtr \in [Task -> Proc]
  /\ \A t \in Task :
       /\ at[t] = "communicating" => mode[t] = "blocking"
       /\ at[t] \in {"waiting", "spawning"} => mtr[t] = "none"
       /\ at[t] \in {"reaping", "unwinding", "finalising"} => mtr[t] = "killed"
  /\ StreamProcessHeld

IInv == SlotInv /\ ProcInv

\* The inductive invariant holds at the start.
LEMMA IInvInit == Init => IInv
<1> SUFFICES ASSUME Init PROVE IInv
  OBVIOUS
<1> USE DEF Init
<1>1. SlotTypes
  BY MtrSlotsAssumption, EmptySeq DEF SlotTypes, Place
<1>2. ToSet(queue) = {} /\ woken = {} /\ DOMAIN queue = {}
  BY DEF ToSet
<1>3. WaitersQueued
  BY <1>2 DEF WaitersQueued
<1>4. Owners = {}
  BY DEF Owners, Holding
<1>5. SlotAccounting
  BY <1>4, FS_EmptySet, MtrSlotsAssumption DEF SlotAccounting
<1>6. NoLostWakeup
  BY DEF NoLostWakeup
<1>7. ProcInv
  BY DEF ProcInv, Mode, Outcome, Proc, StreamProcessHeld
<1> QED BY <1>1, <1>3, <1>5, <1>6, <1>7 DEF IInv, SlotInv

\* Finish ends a trace whose task holds a slot.
LEMMA FinishKeepsSlots ==
  ASSUME SlotInv, NEW t \in Task, at[t] \in Holding, NEW result,
         Finish(t, result), UNCHANGED lost
  PROVE  SlotInv' /\ PoolStep
<1>1. t \in Owners /\ t \notin woken
  BY WaitersOwnNothing DEF Owners, Holders
<1>2. woken \ {t} = woken
  BY <1>1
<1> QED BY <1>1, <1>2, SlotReleased DEF Finish, Leave, Release

\* Entering the finally moves no slot.
LEMMA EnterFinallyKeepsSlots ==
  ASSUME SlotInv, NEW t \in Task, at[t] \in Holding, NEW place \in Holding,
         NEW result, EnterFinally(t, place, result), UNCHANGED lost
  PROVE  SlotInv' /\ PoolStep
<1>1. CASE mtr[t] = "running" /\ at' = [at EXCEPT ![t] = place]
           /\ UNCHANGED <<value, queue, woken>>
  BY <1>1, HolderMoves
<1>2. CASE Finish(t, result)
  BY <1>2, FinishKeepsSlots
<1> QED BY <1>1, <1>2 DEF EnterFinally

\* A client that goes away keeps the slots accounted.
LEMMA DisconnectKeepsSlots ==
  ASSUME SlotInv, NEW t \in Task, Disconnect(t)
  PROVE  SlotInv' /\ PoolStep
<1> USE DEF Holding
<1>1. CASE CancelAcquire(t, "cancelled")
  BY <1>1, CancelAcquireKeepsSlots
<1>2. CASE at[t] = "spawning" /\ Finish(t, "cancelled") /\ UNCHANGED <<mode, mtr, lost>>
  BY <1>2, FinishKeepsSlots
<1>3. CASE /\ at[t] \in {"reading", "exiting", "stderr"}
           /\ EnterFinally(t, "unwinding", "cancelled")
           /\ UNCHANGED <<mode, lost>>
  BY <1>3, EnterFinallyKeepsSlots
<1>4. CASE /\ at[t] = "sending"
           /\ at' = [at EXCEPT ![t] = "closing"]
           /\ UNCHANGED <<mode, mtr, value, queue, woken, lost>>
  BY <1>4, HolderMoves
<1>5. CASE at[t] = "reaping" /\ SlotLeaks(t)
  BY <1>5, HolderLeaks DEF SlotLeaks, Leave
<1> QED BY <1>1, <1>2, <1>3, <1>4, <1>5 DEF Disconnect

\* The slot part of every action of a task.
LEMMA TaskKeepsSlots ==
  ASSUME SlotInv, NEW t \in Task,
         \/ \E m \in Mode : Begin(t, m)
         \/ Resume(t) \/ GiveUp(t)
         \/ Spawned(t) \/ SpawnFails(t) \/ MtrExits(t)
         \/ Communicated(t) \/ CommunicateTimesOut(t)
         \/ Line(t) \/ Sent(t) \/ Eof(t) \/ Exited(t) \/ StderrRead(t)
         \/ ReadTimesOut(t) \/ Close(t) \/ Reaped(t)
         \/ Disconnect(t) \/ CancelledAgain(t)
         \/ OrphanExits(t)
  PROVE  SlotInv' /\ PoolStep
<1> USE DEF Holding
<1>1. ASSUME NEW m \in Mode, Begin(t, m) PROVE SlotInv' /\ PoolStep
  BY <1>1, BeginKeepsSlots
<1>2. CASE Resume(t)
  BY <1>2, ResumeKeepsSlots
<1>3. CASE GiveUp(t)
  BY <1>3, CancelAcquireKeepsSlots DEF GiveUp
<1>4. CASE Spawned(t)
  BY <1>4, HolderMoves DEF Spawned
<1>5. CASE SpawnFails(t) \/ Communicated(t) \/ CommunicateTimesOut(t) \/ StderrRead(t)
           \/ Reaped(t)
  BY <1>5, FinishKeepsSlots
     DEF SpawnFails, Communicated, CommunicateTimesOut, StderrRead, Reaped
<1>6. CASE MtrExits(t) \/ OrphanExits(t)
  <2>1. UNCHANGED <<at, value, queue, woken, lost>>
    BY <1>6 DEF MtrExits, OrphanExits
  <2>2. SlotInv'
    BY <2>1 DEF SlotInv, SlotTypes, WaitersQueued, SlotAccounting, NoLostWakeup, Owners
  <2>3. PoolStep
    BY <2>1, PoolSteps DEF Owners
  <2> QED BY <2>2, <2>3
<1>7. CASE Line(t) \/ Sent(t) \/ Eof(t)
  BY <1>7, HolderMoves DEF Line, Sent, Eof
<1>8. CASE Exited(t)
  <2>1. CASE Finish(t, "ok") /\ UNCHANGED lost
    BY <1>8, <2>1, FinishKeepsSlots DEF Exited
  <2>2. CASE at' = [at EXCEPT ![t] = "stderr"] /\ UNCHANGED <<value, queue, woken, lost>>
    BY <1>8, <2>2, HolderMoves DEF Exited
  <2> QED BY <1>8, <2>1, <2>2 DEF Exited
<1>9. CASE ReadTimesOut(t)
  <2>1. CASE at[t] = "reading" /\ EnterFinally(t, "reaping", "failed") /\ UNCHANGED lost
    BY <2>1, EnterFinallyKeepsSlots
  <2>2. CASE at[t] = "sending" /\ at' = [at EXCEPT ![t] = "closing"]
             /\ UNCHANGED <<value, queue, woken, lost>>
    BY <2>2, HolderMoves
  <2> QED BY <1>9, <2>1, <2>2 DEF ReadTimesOut
<1>10. CASE Close(t)
  BY <1>10, EnterFinallyKeepsSlots DEF Close
<1>11. CASE Disconnect(t)
  BY <1>11, DisconnectKeepsSlots
<1>12. CASE CancelledAgain(t)
  BY <1>12, HolderLeaks DEF CancelledAgain, SlotLeaks, Leave
<1> QED BY <1>1, <1>2, <1>3, <1>4, <1>5, <1>6, <1>7, <1>8, <1>9, <1>10, <1>11, <1>12

\* The process part of every action of a task.
LEMMA TaskKeepsProcs ==
  ASSUME IInv, NEW t \in Task,
         \/ \E m \in Mode : Begin(t, m)
         \/ Resume(t) \/ GiveUp(t)
         \/ Spawned(t) \/ SpawnFails(t) \/ MtrExits(t)
         \/ Communicated(t) \/ CommunicateTimesOut(t)
         \/ Line(t) \/ Sent(t) \/ Eof(t) \/ Exited(t) \/ StderrRead(t)
         \/ ReadTimesOut(t) \/ Close(t) \/ Reaped(t)
         \/ Disconnect(t) \/ CancelledAgain(t)
         \/ OrphanExits(t)
  PROVE  ProcInv'
<1> USE DEF ProcInv, StreamProcessHeld, Mode, Outcome, Proc, Holding
<1>0. at \in [Task -> Place] /\ ProcInv
  BY DEF IInv, SlotInv, SlotTypes
<1>1. ASSUME NEW m \in Mode, Begin(t, m) PROVE ProcInv'
  BY <1>0, <1>1 DEF Begin
<1>2. CASE Resume(t)
  BY <1>0, <1>2, WaitersOwnNothing DEF Resume, IInv
<1>3. CASE GiveUp(t)
  BY <1>0, <1>3 DEF GiveUp, CancelAcquire, Leave
<1>4. CASE Spawned(t)
  BY <1>0, <1>4 DEF Spawned
<1>5. CASE SpawnFails(t)
  BY <1>0, <1>5 DEF SpawnFails, Finish, Leave
<1>6. CASE MtrExits(t)
  BY <1>0, <1>6 DEF MtrExits
<1>7. CASE Communicated(t)
  BY <1>0, <1>7 DEF Communicated, Finish, Leave
<1>8. CASE CommunicateTimesOut(t)
  BY <1>0, <1>8 DEF CommunicateTimesOut, Finish, Leave
<1>9. CASE Line(t) \/ Sent(t) \/ Eof(t)
  BY <1>0, <1>9 DEF Line, Sent, Eof
<1>10. CASE Exited(t)
  BY <1>0, <1>10 DEF Exited, Finish, Leave
<1>11. CASE StderrRead(t)
  BY <1>0, <1>11 DEF StderrRead, Finish, Leave
<1>12. CASE ReadTimesOut(t)
  BY <1>0, <1>12 DEF ReadTimesOut, EnterFinally, Finish, Leave
<1>13. CASE Close(t)
  BY <1>0, <1>13 DEF Close, EnterFinally, Finish, Leave
<1>14. CASE Reaped(t)
  BY <1>0, <1>14 DEF Reaped, Finish, Leave
<1>15. CASE Disconnect(t)
  BY <1>0, <1>15 DEF Disconnect, CancelAcquire, EnterFinally, SlotLeaks, Finish, Leave
<1>16. CASE CancelledAgain(t)
  BY <1>0, <1>16 DEF CancelledAgain, SlotLeaks, Leave
<1>17. CASE OrphanExits(t)
  BY <1>0, <1>17 DEF OrphanExits
<1> QED BY <1>1, <1>2, <1>3, <1>4, <1>5, <1>6, <1>7, <1>8, <1>9, <1>10, <1>11,
           <1>12, <1>13, <1>14, <1>15, <1>16, <1>17

-------------------------------------------------------------------------------
(* The inductive invariant and what follows from it.                       *)

\* Every step of any task, of the clients or of the container keeps IInv.
LEMMA IInvStep == IInv /\ [Next]_vars => IInv' /\ PoolStep
<1> SUFFICES ASSUME IInv, [Next]_vars PROVE IInv' /\ PoolStep
  OBVIOUS
<1>1. ASSUME NEW t \in Task,
             \/ \E m \in Mode : Begin(t, m)
             \/ Resume(t) \/ GiveUp(t)
             \/ Spawned(t) \/ SpawnFails(t) \/ MtrExits(t)
             \/ Communicated(t) \/ CommunicateTimesOut(t)
             \/ Line(t) \/ Sent(t) \/ Eof(t) \/ Exited(t) \/ StderrRead(t)
             \/ ReadTimesOut(t) \/ Close(t) \/ Reaped(t)
             \/ Disconnect(t) \/ CancelledAgain(t)
             \/ OrphanExits(t)
      PROVE  IInv' /\ PoolStep
  <2>1. SlotInv' /\ PoolStep
    BY <1>1, TaskKeepsSlots DEF IInv
  <2>2. ProcInv'
    BY <1>1, TaskKeepsProcs
  <2> QED BY <2>1, <2>2 DEF IInv
<1>2. CASE Restart
  <2>1. SlotTypes'
    BY <1>2, MtrSlotsAssumption, EmptySeq DEF Restart, SlotTypes, Place
  <2>2. ToSet(queue') = {} /\ woken' = {} /\ DOMAIN queue' = {}
    BY <1>2 DEF Restart, ToSet
  <2>3. WaitersQueued'
    BY <1>2, <2>2 DEF Restart, WaitersQueued
  <2>4. Owners' = {}
    BY <1>2 DEF Restart, Owners, Holding
  <2>5. SlotAccounting'
    BY <1>2, <2>4, FS_EmptySet, MtrSlotsAssumption DEF Restart, SlotAccounting
  <2>6. NoLostWakeup' /\ ProcInv'
    BY <1>2 DEF Restart, NoLostWakeup, ProcInv, Mode, Outcome, Proc, StreamProcessHeld
  <2>7. PoolStep
    BY <1>2, <2>4, PoolSteps DEF Restart, IInv
  <2> QED BY <2>1, <2>3, <2>5, <2>6, <2>7 DEF IInv, SlotInv
<1>3. CASE UNCHANGED vars
  <2>1. IInv'
    BY <1>3 DEF vars, IInv, SlotInv, SlotTypes, WaitersQueued, SlotAccounting,
                NoLostWakeup, Owners, ProcInv, StreamProcessHeld
  <2>2. UNCHANGED <<Owners, lost>>
    BY <1>3 DEF vars, Owners
  <2> QED BY <2>1, <2>2, PoolSteps DEF IInv
<1> QED BY <1>1, <1>2, <1>3 DEF Next

\* IInv holds in every reachable state.
THEOREM Invariance == Spec => []IInv
  BY IInvInit, IInvStep, PTL DEF Spec

\* No slot is released twice, granted twice or forgotten other than through
\* `lost`, for any number of coroutines and any cap.
THEOREM SlotsAccounted == Spec => []SlotAccounting
<1>1. IInv => SlotAccounting
  BY DEF IInv, SlotInv
<1> QED BY <1>1, Invariance, PTL

\* The cap of the abstract pool: never more than Cap slots are out, held or lost.
THEOREM SlotsWithinCap == Spec => []Pool!WithinCap
<1>1. IInv => Pool!WithinCap
  <2> SUFFICES ASSUME IInv PROVE Pool!WithinCap
    OBVIOUS
  <2>1. value \in Nat /\ lost \in Nat /\ Cap \in Nat /\ Cardinality(Owners) \in Nat
    BY MtrSlotsAssumption, OwnersFinite DEF IInv, SlotInv, SlotTypes
  <2>2. value + Cardinality(Owners) + lost = Cap
    BY DEF IInv, SlotInv, SlotAccounting
  <2>3. Pool!Cardinality(Owners) = Cardinality(Owners)
    BY DEF Pool!Cardinality, Cardinality
  <2> QED BY <2>1, <2>2, <2>3 DEF Pool!WithinCap
<1> QED BY <1>1, Invariance, PTL

\* Every variable keeps its type; that the counter and the lost slots stay
\* within 0..Cap is a consequence of the accounting.
THEOREM TypeCorrect == Spec => []TypeOK
<1>1. IInv => TypeOK
  <2> SUFFICES ASSUME IInv PROVE TypeOK
    OBVIOUS
  <2> USE DEF IInv, SlotInv
  <2>1. SlotTypes /\ Cardinality(Owners) \in Nat
    BY OwnersFinite
  <2>2. value \in 0..Cap /\ lost \in 0..Cap
    BY <2>1, MtrSlotsAssumption DEF SlotTypes, SlotAccounting
  <2> QED BY <2>1, <2>2 DEF TypeOK, SlotTypes, ProcInv
<1> QED BY <1>1, Invariance, PTL

\* A cancelled wait never swallows a wake-up that another waiter needs.
THEOREM WakeupsNotLost == Spec => []NoLostWakeup
<1>1. IInv => NoLostWakeup
  BY DEF IInv, SlotInv
<1> QED BY <1>1, Invariance, PTL

\* The semaphore's queue is exactly the set of coroutines that wait in it.
THEOREM WaitersAreQueued == Spec => []WaitersQueued
<1>1. IInv => WaitersQueued
  BY DEF IInv, SlotInv
<1> QED BY <1>1, Invariance, PTL

\* A stream gives its slot back only after its mtr is dead.
THEOREM StreamProcessesHeld == Spec => []StreamProcessHeld
<1>1. IInv => StreamProcessHeld
  BY DEF IInv, ProcInv
<1> QED BY <1>1, Invariance, PTL

\* run_mtr and _stream_mtr_raw_lines on asyncio's semaphore implement the
\* abstract pool: every step of theirs grants, returns, hands over or loses
\* one slot, or leaves the slots alone.
THEOREM Refinement == Spec => ImplementsSlotPool
<1>1. Init => Pool!PoolInit
  <2> SUFFICES ASSUME Init PROVE Owners = {} /\ lost = 0
    BY DEF Pool!PoolInit
  <2> QED BY DEF Init, Owners, Holding
<1>2. IInv /\ [Next]_vars => [Pool!PoolNext]_(Pool!poolVars)
  BY IInvStep DEF PoolStep
<1> QED BY <1>1, <1>2, Invariance, PTL DEF Spec, ImplementsSlotPool, Pool!PoolSpec
===============================================================================
