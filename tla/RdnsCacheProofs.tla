---------------------------- MODULE RdnsCacheProofs ----------------------------
(***************************************************************************)
(* Proofs about RdnsCache, for every number of requests, addresses and     *)
(* names and for all timeouts and times to live.                           *)
(***************************************************************************)
EXTENDS RdnsCache, TLAPS

-------------------------------------------------------------------------------
(* The inductive invariant.                                                *)

\* getcap blocks the event loop, so no second one starts beside it.
OneBlocker ==
  \A t, u \in Task : at[t] = "capcheck" /\ at[u] = "capcheck" => t = u

\* What is left of a lookup and of a getcap is at most its timeout.
WithinBudget ==
  \A t \in Task : /\ at[t] \in {"resolving", "resolved"} => left[t] <= DnsWait
                  /\ at[t] = "set" => left[t] <= Delay
                  /\ at[t] = "capcheck" => left[t] <= CapWait

\* For how long the name that a lookup holds has not been true.
Held(t) == old[addr[t]][got[t]]

\* A wait whose result was at most base old when it began: while it has time
\* left the result has aged by what has passed of it, and a getcap that overruns
\* it cannot have started later than in its last unit.
Aged(t, base, wait) ==
  /\ left[t] > 0 => Held(t) + left[t] <= base + wait
  /\ Held(t) <= base + Prolonged(wait)
  /\ \A u \in Task : at[u] = "capcheck" => Held(t) + left[u] <= base + Prolonged(wait)

HeldFresh ==
  \A t \in Task : /\ at[t] = "resolved" => Aged(t, 0, DnsWait)
                  /\ at[t] = "set" => Aged(t, Prolonged(DnsWait), Delay)

\* An entry was at most as old as a lookup can be when it was stored.
CacheFresh ==
  \A a \in Addr : cache[a].left > 0 => old[a][cache[a].name] + cache[a].left <= Freshness

\* The record of an address is true now.
RecordTrue == \A a \in Addr : old[a][dns[a]] = 0

FreshInv == OneBlocker /\ WithinBudget /\ HeldFresh /\ CacheFresh /\ RecordTrue

IInv == TypeOK /\ OnePublisher /\ FreshInv

-------------------------------------------------------------------------------
(* Types.                                                                  *)

\* The timeouts and times to live are positive.
LEMMA PositiveConstants ==
  /\ RdnsTtl \in Nat /\ RdnsTtl > 0 /\ DnsWait \in Nat /\ DnsWait > 0
  /\ Delay \in Nat /\ Delay > 0 /\ MtrWait \in Nat /\ MtrWait > 0
  /\ CapWait \in Nat /\ CapWait > 0
  /\ Prolonged(DnsWait) \in Nat /\ Prolonged(Delay) \in Nat /\ Freshness \in Nat
BY RdnsAssumption DEF Prolonged, Freshness

\* Going to the next await of a coroutine.
LEMMA GotoType ==
  ASSUME TypeOK, NEW t \in Task, NEW place \in Place, Goto(t, place)
  PROVE  at' \in [Task -> Place] /\ left' \in [Task -> Nat]
BY PositiveConstants DEF TypeOK, Goto, Budget

\* Replying.
LEMMA EndType ==
  ASSUME TypeOK, NEW t \in Task, NEW r \in Reply, End(t, r)
  PROVE  /\ at' \in [Task -> Place] /\ left' \in [Task -> Nat]
         /\ reply' \in [Task -> Reply] /\ has' \in [Task -> BOOLEAN]
         /\ got' \in [Task -> Answers] /\ failing' \in [Task -> SUBSET Check]
<1>1. "idle" \in Place /\ NoName \in Answers
  BY DEF Place, Answers
<1>2. at' \in [Task -> Place] /\ left' \in [Task -> Nat]
  BY <1>1, GotoType DEF End
<1>3. reply' \in [Task -> Reply] /\ got' \in [Task -> Answers]
  BY <1>1 DEF TypeOK, End
<1>4. has' \in [Task -> BOOLEAN] /\ failing' \in [Task -> SUBSET Check]
  BY DEF TypeOK, End
<1> QED BY <1>2, <1>3, <1>4

\* Asking the resolver, or failing to.
LEMMA StartQueryType ==
  ASSUME TypeOK, NEW t \in Task, StartQuery(t)
  PROVE  /\ at' \in [Task -> Place] /\ left' \in [Task -> Nat]
         /\ reply' \in [Task -> Reply]
         /\ got' \in [Task -> Answers] /\ failing' \in [Task -> SUBSET Check]
         /\ has' \in [Task -> BOOLEAN]
<1>1. CASE Goes(t, "resolving") /\ UNCHANGED has
  BY <1>1, GotoType DEF Goes, Place, TypeOK
<1>2. CASE End(t, "raised")
  BY <1>2, EndType DEF Reply
<1> QED BY <1>1, <1>2 DEF StartQuery

\* Every step of a coroutine keeps the types.
LEMMA TypeStepTask ==
  ASSUME TypeOK, NEW t \in Task,
         Step(t) \/ Reject(t) \/ CheckHealth(t) \/ \E a \in Addr : Ask(t, a)
  PROVE  TypeOK'
<1>1. CASE Ping(t)
  <2>1. CASE up /\ FirstPing(t) /\ Goes(t, "get")
    <3>1. at' \in [Task -> Place] /\ left' \in [Task -> Nat]
      BY <2>1, GotoType DEF Goes, Place
    <3>2. has' \in [Task -> BOOLEAN] /\ pool' \in BOOLEAN
      BY <2>1 DEF FirstPing, TypeOK
    <3> QED BY <1>1, <2>1, <3>1, <3>2 DEF Ping, Goes, TypeOK, world
  <2>2. CASE pool' = FALSE /\ StartQuery(t)
    BY <1>1, <2>2, StartQueryType DEF Ping, TypeOK, world
  <2> QED BY <1>1, <2>1, <2>2 DEF Ping
<1>2. CASE Get(t)
  <2>1. CASE End(t, cache[addr[t]].name)
    <3>1. cache[addr[t]].name \in Reply
      BY DEF TypeOK, Reply
    <3>2. UNCHANGED <<addr, pool, up, cache, dns, conf, old>>
      BY <1>2 DEF Get, valkey, world
    <3> QED BY <2>1, <3>1, <3>2, EndType DEF TypeOK
  <2>2. CASE StartQuery(t)
    BY <1>2, <2>2, StartQueryType DEF Get, TypeOK, valkey, world
  <2> QED BY <1>2, <2>1, <2>2 DEF Get
<1>3. CASE Answered(t)
  <2>1. at' \in [Task -> Place]
    BY <1>3 DEF Answered, TypeOK, Place
  <2>2. got' \in [Task -> Answers]
    BY <1>3 DEF Answered, TypeOK, Answers
  <2>3. old' \in [Addr -> [Answers -> 0..(Freshness + 1)]]
    <3>1. 0 \in 0..(Freshness + 1)
      BY PositiveConstants
    <3>2. \/ UNCHANGED old
          \/ old' = [old EXCEPT ![addr[t]] = [old[addr[t]] EXCEPT ![NoName] = 0]]
      BY <1>3 DEF Answered
    <3> QED BY <3>1, <3>2 DEF TypeOK
  <2> QED BY <1>3, <2>1, <2>2, <2>3 DEF Answered, TypeOK, valkey
<1>4. CASE Resolved(t)
  <2>1. CASE Goes(t, "set") /\ UNCHANGED has
    BY <1>4, <2>1, GotoType DEF Resolved, Goes, TypeOK, Place, valkey, world
  <2>2. CASE End(t, got[t])
    BY <1>4, <2>2, EndType DEF Resolved, TypeOK, Reply, valkey, world
  <2> QED BY <1>4, <2>1, <2>2 DEF Resolved
<1>5. CASE Set(t)
  <2>1. cache' \in [Addr -> [name : Answers, left : 0..RdnsTtl]]
    BY <1>5, PositiveConstants DEF Set, TypeOK
  <2> QED BY <1>5, <2>1, EndType DEF Set, TypeOK, Reply, world
<1>6. CASE MtrChecked(t)
  <2>1. failing' \in [Task -> SUBSET Check]
    BY <1>6 DEF MtrChecked, TypeOK, Check
  <2> QED BY <1>6, <2>1, GotoType DEF MtrChecked, TypeOK, Place, valkey, world
<1>7. CASE CapChecked(t)
  <2>1. failing' \in [Task -> SUBSET Check]
    <3>1. PICK bad \in SUBSET {"mtr_capability"} :
            failing' = [failing EXCEPT ![t] = failing[t] \union bad]
      BY <1>7 DEF CapChecked
    <3>2. failing[t] \union bad \in SUBSET Check
      BY DEF TypeOK, Check
    <3> QED BY <3>1, <3>2 DEF TypeOK
  <2>2. /\ at' \in [Task -> Place] /\ left' \in [Task -> Nat]
        /\ has' \in [Task -> BOOLEAN] /\ pool' \in BOOLEAN
    BY <1>7, GotoType DEF CapChecked, GetValkey, TypeOK, Place
  <2> QED BY <1>7, <2>1, <2>2 DEF CapChecked, TypeOK, world
<1>8. CASE HealthFirstPing(t)
  <2>1. CASE up /\ FirstPing(t) /\ Goes(t, "pong")
    <3>1. at' \in [Task -> Place] /\ left' \in [Task -> Nat]
      BY <2>1, GotoType DEF Goes, Place
    <3>2. has' \in [Task -> BOOLEAN] /\ pool' \in BOOLEAN
      BY <2>1 DEF FirstPing, TypeOK
    <3> QED BY <1>8, <2>1, <3>1, <3>2 DEF HealthFirstPing, Goes, TypeOK, world
  <2>2. CASE pool' = FALSE /\ Verdict(t, failing[t] \union {"valkey"})
    BY <1>8, <2>2, EndType DEF HealthFirstPing, Verdict, TypeOK, Reply, world
  <2> QED BY <1>8, <2>1, <2>2 DEF HealthFirstPing
<1>9. CASE Pong(t)
  BY <1>9, EndType DEF Pong, Verdict, TypeOK, Reply, valkey, world
<1>10. CASE Reject(t)
  BY <1>10, EndType DEF Reject, TypeOK, Reply, valkey, world
<1>11. CASE CheckHealth(t)
  <2>1. reply' \in [Task -> Reply]
    BY <1>11 DEF CheckHealth, TypeOK, Reply
  <2> QED BY <1>11, <2>1, GotoType DEF CheckHealth, TypeOK, Place, valkey, world
<1>12. ASSUME NEW a \in Addr, Ask(t, a) PROVE TypeOK'
  <2>1. /\ at' \in [Task -> Place] /\ left' \in [Task -> Nat]
        /\ has' \in [Task -> BOOLEAN] /\ pool' \in BOOLEAN
    BY <1>12, GotoType DEF Ask, GetValkey, TypeOK, Place
  <2>2. reply' \in [Task -> Reply] /\ addr' \in [Task -> Addr]
    BY <1>12 DEF Ask, TypeOK, Reply
  <2> QED BY <1>12, <2>1, <2>2 DEF Ask, TypeOK, world
<1> QED
  BY <1>1, <1>2, <1>3, <1>4, <1>5, <1>6, <1>7, <1>8, <1>9, <1>10, <1>11, <1>12 DEF Step

\* So do the clock, the DNS, Valkey and a restart.
LEMMA TypeStepWorld ==
  ASSUME TypeOK,
         \/ \E a \in Addr, n \in Answers : Renumber(a, n)
         \/ Tick \/ ValkeyChanges \/ Restart
  PROVE  TypeOK'
<1>1. ASSUME NEW a \in Addr, NEW n \in Answers, Renumber(a, n) PROVE TypeOK'
  BY <1>1, PositiveConstants DEF Renumber, TypeOK, valkey
<1>2. CASE Tick
  <2>1. left' \in [Task -> Nat]
    BY <1>2 DEF Tick, TypeOK
  <2>2. cache' \in [Addr -> [name : Answers, left : 0..RdnsTtl]]
    <3>1. Absent \in [name : Answers, left : 0..RdnsTtl]
      BY PositiveConstants DEF Absent, Answers
    <3>2. ASSUME NEW a \in Addr, cache[a].left > 1
          PROVE  [cache[a] EXCEPT !.left = @ - 1] \in [name : Answers, left : 0..RdnsTtl]
      <4>1. cache[a] \in [name : Answers, left : 0..RdnsTtl]
        BY DEF TypeOK
      <4>2. cache[a].left - 1 \in 0..RdnsTtl
        BY <3>2, <4>1, PositiveConstants
      <4> QED BY <4>1, <4>2
    <3> QED BY <1>2, <3>1, <3>2 DEF Tick
  <2>3. old' \in [Addr -> [Answers -> 0..(Freshness + 1)]]
    BY <1>2, PositiveConstants DEF Tick, TypeOK
  <2> QED BY <1>2, <2>1, <2>2, <2>3 DEF Tick, TypeOK
<1>3. CASE ValkeyChanges
  <2>1. cache' \in [Addr -> [name : Answers, left : 0..RdnsTtl]] /\ up' \in BOOLEAN
    BY <1>3, PositiveConstants DEF ValkeyChanges, TypeOK, Absent, Answers
  <2> QED BY <1>3, <2>1 DEF ValkeyChanges, TypeOK, world
<1>4. CASE Restart
  BY <1>4 DEF Restart, TypeOK, Place, Reply, Answers, world
<1> QED BY <1>1, <1>2, <1>3, <1>4

\* What a coroutine that moves on leaves alone.
LEMMA GotoMoves ==
  ASSUME TypeOK, NEW t \in Task, NEW place \in Place, Goto(t, place)
  PROVE  /\ at'[t] = place /\ left'[t] = Budget(place)
         /\ \A u \in Task \ {t} : at'[u] = at[u] /\ left'[u] = left[u]
BY DEF TypeOK, Goto

\* A reply ends the request.
LEMMA EndMoves ==
  ASSUME TypeOK, NEW t \in Task, NEW r, End(t, r)
  PROVE  /\ at'[t] = "idle" /\ reply'[t] = r
         /\ \A u \in Task \ {t} : /\ at'[u] = at[u] /\ left'[u] = left[u]
                                  /\ got'[u] = got[u] /\ reply'[u] = reply[u]
<1>1. "idle" \in Place
  BY DEF Place
<1> QED BY <1>1, GotoMoves DEF End, TypeOK

\* The resolver is asked, or resolv.conf cannot be read and the request ends.
LEMMA StartQueryMoves ==
  ASSUME TypeOK, NEW t \in Task, StartQuery(t)
  PROVE  /\ \/ at'[t] = "resolving" /\ left'[t] = DnsWait /\ reply'[t] = reply[t]
            \/ at'[t] = "idle" /\ reply'[t] = "raised" /\ ~conf
         /\ \A u \in Task \ {t} : /\ at'[u] = at[u] /\ left'[u] = left[u]
                                  /\ got'[u] = got[u] /\ reply'[u] = reply[u]
<1>1. CASE Goes(t, "resolving")
  <2>1. "resolving" \in Place /\ Budget("resolving") = DnsWait
    BY DEF Place, Budget
  <2> QED BY <1>1, <2>1, GotoMoves DEF Goes
<1>2. CASE ~conf /\ End(t, "raised")
  BY <1>2, EndMoves
<1> QED BY <1>1, <1>2 DEF StartQuery

-------------------------------------------------------------------------------
(* One publisher.                                                          *)

Pinging == {"ping", "firstping"}

\* Nobody begins or goes on testing a client unless it is published.
LEMMA PublisherKept ==
  ASSUME OnePublisher, NEW t \in Task,
         \A u \in Task \ {t} : at'[u] = at[u],
         \/ at'[t] \notin Pinging /\ pool' = pool
         \/ at'[t] \notin Pinging /\ at[t] \in Pinging
         \/ at'[t] \in Pinging /\ ~pool /\ pool'
  PROVE  OnePublisher'
BY DEF OnePublisher, Pinging

\* get_valkey keeps the client it finds and publishes the one it makes.
LEMMA GetValkeyKeepsOne ==
  ASSUME TypeOK, OnePublisher, NEW t \in Task, NEW dial \in Pinging,
         NEW place \in Place \ Pinging, GetValkey(t, dial, place)
  PROVE  OnePublisher'
<1>1. dial \in Place
  BY DEF Place, Pinging
<1>2. CASE pool
  BY <1>2, GotoMoves, PublisherKept DEF GetValkey
<1>3. CASE ~pool
  BY <1>1, <1>3, GotoMoves, PublisherKept DEF GetValkey
<1> QED BY <1>2, <1>3

\* The client is shared: publishing, testing and dropping it are steps of their
\* own, and no order of them leaves two requests testing.
LEMMA OnePublisherStep ==
  ASSUME TypeOK, OnePublisher, [Next]_vars
  PROVE  OnePublisher'
<1> USE DEF Pinging, Place
<1>1. ASSUME NEW t \in Task, Ping(t) PROVE OnePublisher'
  <2>1. /\ \A u \in Task \ {t} : at'[u] = at[u]
        /\ at'[t] \notin Pinging
    BY <1>1, GotoMoves, StartQueryMoves DEF Ping, Goes
  <2> QED BY <1>1, <2>1, PublisherKept DEF Ping, Runs
<1>2. ASSUME NEW t \in Task, Get(t) PROVE OnePublisher'
  <2>1. /\ \A u \in Task \ {t} : at'[u] = at[u]
        /\ at'[t] \notin Pinging
    BY <1>2, EndMoves, StartQueryMoves DEF Get
  <2> QED BY <1>2, <2>1, PublisherKept DEF Get, valkey
<1>3. ASSUME NEW t \in Task, Answered(t) PROVE OnePublisher'
  BY <1>3, PublisherKept DEF Answered, TypeOK, valkey
<1>4. ASSUME NEW t \in Task, Resolved(t) PROVE OnePublisher'
  <2>1. /\ \A u \in Task \ {t} : at'[u] = at[u]
        /\ at'[t] \notin Pinging
    BY <1>4, EndMoves, GotoMoves DEF Resolved, Goes
  <2> QED BY <1>4, <2>1, PublisherKept DEF Resolved, valkey
<1>5. ASSUME NEW t \in Task, Set(t) PROVE OnePublisher'
  BY <1>5, EndMoves, PublisherKept DEF Set
<1>6. ASSUME NEW t \in Task, MtrChecked(t) PROVE OnePublisher'
  BY <1>6, GotoMoves, PublisherKept DEF MtrChecked, valkey
<1>7. ASSUME NEW t \in Task, CapChecked(t) PROVE OnePublisher'
  BY <1>7, GetValkeyKeepsOne DEF CapChecked
<1>8. ASSUME NEW t \in Task, HealthFirstPing(t) PROVE OnePublisher'
  <2>1. /\ \A u \in Task \ {t} : at'[u] = at[u]
        /\ at'[t] \notin Pinging
    BY <1>8, GotoMoves, EndMoves DEF HealthFirstPing, Goes, Verdict
  <2> QED BY <1>8, <2>1, PublisherKept DEF HealthFirstPing, Runs
<1>9. ASSUME NEW t \in Task, Pong(t) PROVE OnePublisher'
  BY <1>9, EndMoves, PublisherKept DEF Pong, Verdict, valkey
<1>10. ASSUME NEW t \in Task, Reject(t) PROVE OnePublisher'
  BY <1>10, EndMoves, PublisherKept DEF Reject, valkey
<1>11. ASSUME NEW t \in Task, CheckHealth(t) PROVE OnePublisher'
  BY <1>11, GotoMoves, PublisherKept DEF CheckHealth, valkey
<1>12. ASSUME NEW t \in Task, NEW a \in Addr, Ask(t, a) PROVE OnePublisher'
  BY <1>12, GetValkeyKeepsOne DEF Ask
<1>13. ASSUME NEW a \in Addr, NEW n \in Answers, Renumber(a, n) PROVE OnePublisher'
  BY <1>13 DEF Renumber, OnePublisher, valkey
<1>14. CASE Tick BY <1>14 DEF Tick, OnePublisher
<1>15. CASE ValkeyChanges BY <1>15 DEF ValkeyChanges, OnePublisher
<1>16. CASE Restart BY <1>16 DEF Restart, OnePublisher
<1>17. CASE UNCHANGED vars BY <1>17 DEF vars, valkey, OnePublisher
<1> QED
  BY <1>1, <1>2, <1>3, <1>4, <1>5, <1>6, <1>7, <1>8, <1>9, <1>10, <1>11, <1>12, <1>13,
     <1>14, <1>15, <1>16, <1>17 DEF Next, Step

-------------------------------------------------------------------------------
(* Freshness.                                                              *)

\* A step of a coroutine that neither holds a name afterwards nor blocks the
\* loop, and that stores nothing, makes nothing older.
LEMMA FreshReleased ==
  ASSUME TypeOK, FreshInv, NEW t \in Task,
         UNCHANGED <<cache, dns, old>>,
         \A u \in Task \ {t} : /\ at'[u] = at[u] /\ left'[u] = left[u]
                               /\ got'[u] = got[u] /\ addr'[u] = addr[u],
         at'[t] \notin {"resolved", "set", "capcheck"},
         at'[t] = "resolving" => left'[t] = DnsWait
  PROVE  FreshInv'
<1>1. OneBlocker'
  BY DEF FreshInv, OneBlocker
<1>2. WithinBudget'
  BY PositiveConstants DEF FreshInv, WithinBudget
<1>3. HeldFresh'
  <2>1. ASSUME NEW u \in Task \ {t}, NEW base, NEW wait, Aged(u, base, wait)
        PROVE  Aged(u, base, wait)'
    BY <2>1 DEF Aged, Held
  <2> QED BY <2>1 DEF FreshInv, HeldFresh
<1>4. CacheFresh' /\ RecordTrue'
  BY DEF FreshInv, CacheFresh, RecordTrue
<1> QED BY <1>1, <1>2, <1>3, <1>4 DEF FreshInv

\* A resolver answers with what is true, or a failure is known from now on.
LEMMA FreshAnswered ==
  ASSUME TypeOK, FreshInv, NEW t \in Task, Answered(t)
  PROVE  FreshInv'
<1>1. /\ at[t] = "resolving" /\ at' = [at EXCEPT ![t] = "resolved"]
      /\ \A u \in Task \ {t} : got'[u] = got[u]
      /\ UNCHANGED <<addr, left, cache, dns>>
  BY DEF Answered, valkey, TypeOK
<1>2. /\ \A a \in Addr, n \in Answers : old'[a][n] \in Nat /\ old'[a][n] <= old[a][n]
      /\ Held(t)' = 0
  <2>1. addr[t] \in Addr /\ NoName \in Answers
    BY DEF TypeOK, Answers
  <2>2. \A a \in Addr, n \in Answers : old[a][n] \in Nat
    BY DEF TypeOK
  <2>3. CASE got' = [got EXCEPT ![t] = dns[addr[t]]] /\ UNCHANGED old
    BY <1>1, <2>1, <2>2, <2>3 DEF Held, TypeOK, FreshInv, RecordTrue
  <2>4. CASE /\ got' = [got EXCEPT ![t] = NoName]
             /\ old' = [old EXCEPT ![addr[t]][NoName] = 0]
    <3>1. old' = [old EXCEPT ![addr[t]] = [old[addr[t]] EXCEPT ![NoName] = 0]]
      BY <2>4
    <3>2. /\ old[addr[t]] \in [Answers -> 0..(Freshness + 1)]
          /\ DOMAIN old = Addr
      BY <2>1 DEF TypeOK
    <3>3. \A a \in Addr, n \in Answers :
            old'[a][n] = IF a = addr[t] /\ n = NoName THEN 0 ELSE old[a][n]
      BY <2>1, <3>1, <3>2
    <3> QED BY <1>1, <2>1, <2>2, <2>4, <3>3 DEF Held, TypeOK
  <2> QED BY <2>3, <2>4 DEF Answered
<1>3. OneBlocker' /\ WithinBudget'
  BY <1>1 DEF FreshInv, OneBlocker, WithinBudget, TypeOK
<1>4. HeldFresh'
  <2>1. Aged(t, 0, DnsWait)'
    <3>1. /\ left'[t] \in Nat /\ left'[t] <= DnsWait
          /\ \A u \in Task : at'[u] = "capcheck" => /\ left'[u] \in Nat /\ left'[u] <= CapWait
      BY <1>1 DEF FreshInv, WithinBudget, TypeOK
    <3> QED BY <1>2, <3>1, PositiveConstants DEF Aged, Prolonged
  <2>2. ASSUME NEW u \in Task \ {t}, NEW base \in Nat, NEW wait \in Nat, Aged(u, base, wait)
        PROVE  Aged(u, base, wait)'
    <3>1. Held(u)' <= Held(u) /\ Held(u) \in Nat /\ Held(u)' \in Nat
      BY <1>1, <1>2 DEF Held, TypeOK
    <3>2. \A v \in Task : at'[v] = "capcheck" => at[v] = "capcheck"
      BY <1>1 DEF TypeOK
    <3>3. \A v \in Task : left[v] \in Nat /\ left'[v] = left[v]
      BY <1>1 DEF TypeOK
    <3> QED BY <2>2, <3>1, <3>2, <3>3, PositiveConstants DEF Aged, Prolonged
  <2>3. \A u \in Task \ {t} : at'[u] = at[u]
    BY <1>1
  <2>4. at'[t] = "resolved"
    BY <1>1 DEF TypeOK
  <2> QED BY <2>1, <2>2, <2>3, <2>4, PositiveConstants DEF FreshInv, HeldFresh
<1>5. CacheFresh' /\ RecordTrue'
  <2>1. \A a \in Addr : /\ cache[a].left \in Nat /\ cache[a].name \in Answers
                        /\ dns[a] \in Answers
    BY DEF TypeOK
  <2>2. \A a \in Addr, n \in Answers : old[a][n] \in Nat
    BY DEF TypeOK
  <2> QED BY <1>1, <1>2, <2>1, <2>2, PositiveConstants DEF FreshInv, CacheFresh, RecordTrue
<1> QED BY <1>3, <1>4, <1>5 DEF FreshInv

\* A lookup goes on to store what it got.
LEMMA FreshStoring ==
  ASSUME TypeOK, FreshInv, NEW t \in Task, Resolved(t), has[t]
  PROVE  FreshInv'
<1>1. CASE Goes(t, "set") /\ UNCHANGED has
  <2>1. /\ at'[t] = "set" /\ left'[t] = Delay
        /\ \A u \in Task \ {t} : at'[u] = at[u] /\ left'[u] = left[u]
    BY <1>1, GotoMoves DEF Goes, Place, Budget
  <2>2. at[t] = "resolved" /\ LoopFree /\ UNCHANGED <<addr, got, cache, dns, old>>
    BY <1>1 DEF Resolved, Runs, Goes, valkey, world
  <2>3. OneBlocker' /\ WithinBudget'
    BY <2>1, <2>2, PositiveConstants DEF FreshInv, OneBlocker, WithinBudget, LoopFree
  <2>4. Aged(t, Prolonged(DnsWait), Delay)'
    <3>1. Held(t) \in Nat /\ Held(t)' = Held(t) /\ Held(t) <= 0 + Prolonged(DnsWait)
      BY <2>2 DEF FreshInv, HeldFresh, Aged, Held, TypeOK
    <3>2. \A u \in Task : at'[u] # "capcheck"
      BY <2>1, <2>2 DEF LoopFree
    <3> QED BY <2>1, <3>1, <3>2, PositiveConstants DEF Aged, Prolonged
  <2>5. ASSUME NEW u \in Task \ {t}, NEW base, NEW wait, Aged(u, base, wait)
        PROVE  Aged(u, base, wait)'
    BY <2>1, <2>2, <2>5 DEF Aged, Held
  <2>6. HeldFresh'
    BY <2>1, <2>4, <2>5 DEF FreshInv, HeldFresh
  <2>7. CacheFresh' /\ RecordTrue'
    BY <2>2 DEF FreshInv, CacheFresh, RecordTrue
  <2> QED BY <2>3, <2>6, <2>7 DEF FreshInv
<1> QED BY <1>1 DEF Resolved

\* What a lookup holds when it replies, and what a hit finds.
LEMMA HeldIsFresh ==
  ASSUME TypeOK, FreshInv, NEW t \in Task
  PROVE  /\ at[t] = "resolved" => old[addr[t]][got[t]] < Freshness
         /\ at[t] = "set" => old[addr[t]][got[t]] + RdnsTtl <= Freshness
         /\ at[t] = "set" => old[addr[t]][got[t]] < Freshness
         /\ cache[addr[t]].left > 0 => old[addr[t]][cache[addr[t]].name] < Freshness
<1>1. old[addr[t]][got[t]] \in Nat
  BY DEF TypeOK
<1>2. at[t] = "resolved" => old[addr[t]][got[t]] <= 0 + Prolonged(DnsWait)
  BY DEF FreshInv, HeldFresh, Aged, Held
<1>3. at[t] = "set" => old[addr[t]][got[t]] <= Prolonged(DnsWait) + Prolonged(Delay)
  BY DEF FreshInv, HeldFresh, Aged, Held
<1>4. /\ addr[t] \in Addr /\ cache[addr[t]].left \in Nat
      /\ old[addr[t]][cache[addr[t]].name] \in Nat
  BY DEF TypeOK
<1>5. cache[addr[t]].left > 0
        => old[addr[t]][cache[addr[t]].name] + cache[addr[t]].left <= Freshness
  BY <1>4 DEF FreshInv, CacheFresh
<1> QED BY <1>1, <1>2, <1>3, <1>4, <1>5, PositiveConstants DEF Freshness

\* The entry is stored for RdnsTtl, whatever was there.
LEMMA FreshSet ==
  ASSUME TypeOK, FreshInv, NEW t \in Task, Set(t)
  PROVE  FreshInv'
<1>1. /\ at'[t] = "idle"
      /\ \A u \in Task \ {t} : /\ at'[u] = at[u] /\ left'[u] = left[u]
                               /\ got'[u] = got[u]
      /\ at[t] = "set" /\ UNCHANGED <<addr, dns, old>>
  BY EndMoves DEF Set, Runs, world
<1>2. OneBlocker' /\ WithinBudget' /\ RecordTrue'
  BY <1>1 DEF FreshInv, OneBlocker, WithinBudget, RecordTrue
<1>3. HeldFresh'
  <2>1. ASSUME NEW u \in Task \ {t}, NEW base, NEW wait, Aged(u, base, wait)
        PROVE  Aged(u, base, wait)'
    BY <1>1, <2>1 DEF Aged, Held
  <2> QED BY <1>1, <2>1 DEF FreshInv, HeldFresh
<1>4. CacheFresh'
  <2>1. CASE cache' = cache
    BY <1>1, <2>1 DEF FreshInv, CacheFresh
  <2>2. CASE cache' = [cache EXCEPT ![addr[t]] = [name |-> got[t], left |-> RdnsTtl]]
    <3>1. \A a \in Addr : cache'[a] = IF a = addr[t] THEN [name |-> got[t], left |-> RdnsTtl]
                                      ELSE cache[a]
      BY <2>2 DEF TypeOK
    <3>2. old[addr[t]][got[t]] + RdnsTtl <= Freshness
      BY <1>1, HeldIsFresh
    <3> QED BY <1>1, <3>1, <3>2 DEF FreshInv, CacheFresh
  <2> QED BY <2>1, <2>2 DEF Set
<1> QED BY <1>2, <1>3, <1>4 DEF FreshInv

\* A getcap starts only when no lookup that holds a name is overdue.
LEMMA FreshMtrChecked ==
  ASSUME TypeOK, FreshInv, NEW t \in Task, MtrChecked(t)
  PROVE  FreshInv'
<1>1. /\ at'[t] = "capcheck" /\ left'[t] = CapWait
      /\ \A u \in Task \ {t} : at'[u] = at[u] /\ left'[u] = left[u]
      /\ LoopFree /\ UNCHANGED <<addr, got, cache, dns, old>>
      /\ \A u \in Task : at[u] \in {"resolved", "set"} => left[u] > 0
  BY GotoMoves DEF MtrChecked, Runs, Place, Budget, valkey, world
<1>2. OneBlocker' /\ WithinBudget' /\ CacheFresh' /\ RecordTrue'
  BY <1>1, PositiveConstants
     DEF FreshInv, OneBlocker, WithinBudget, CacheFresh, RecordTrue, LoopFree
<1>3. HeldFresh'
  <2>1. ASSUME NEW u \in Task \ {t}, NEW base \in Nat, NEW wait \in Nat,
               Aged(u, base, wait), left[u] > 0
        PROVE  Aged(u, base, wait)'
    <3>1. Held(u)' = Held(u) /\ Held(u) \in Nat /\ left[u] \in Nat /\ left'[u] = left[u]
      BY <1>1 DEF Held, TypeOK
    <3>2. \A v \in Task : at'[v] = "capcheck" => v = t
      BY <1>1 DEF LoopFree
    <3>3. Held(u) + CapWait <= base + Prolonged(wait)
      BY <2>1, <3>1, PositiveConstants DEF Aged, Prolonged
    <3> QED BY <1>1, <2>1, <3>1, <3>2, <3>3 DEF Aged
  <2> QED BY <1>1, <2>1, PositiveConstants DEF FreshInv, HeldFresh
<1> QED BY <1>2, <1>3 DEF FreshInv

\* What is not true now gets a unit older.
LEMMA OldTicks ==
  ASSUME TypeOK, Tick
  PROVE  /\ \A a \in Addr, n \in Answers :
              /\ old'[a][n] \in Nat /\ old[a][n] \in Nat /\ old'[a][n] <= old[a][n] + 1
         /\ \A t \in Task : Held(t)' \in Nat /\ Held(t) \in Nat /\ Held(t)' <= Held(t) + 1
<1>1. \A a \in Addr, n \in Answers :
        /\ old[a][n] \in Nat
        /\ old'[a][n] = IF n = dns[a] \/ old[a][n] > Freshness THEN old[a][n]
                        ELSE old[a][n] + 1
  BY DEF Tick, TypeOK
<1>2. \A a \in Addr, n \in Answers :
        /\ old'[a][n] \in Nat /\ old[a][n] \in Nat /\ old'[a][n] <= old[a][n] + 1
  BY <1>1
<1>3. \A t \in Task : addr[t] \in Addr /\ got[t] \in Answers /\ UNCHANGED <<addr, got>>
  BY DEF Tick, TypeOK
<1> QED BY <1>2, <1>3 DEF Held

\* Time passes for a lookup while it has some left, or while the loop is blocked.
LEMMA FreshTick ==
  ASSUME TypeOK, FreshInv, Tick
  PROVE  FreshInv'
<1>1. /\ UNCHANGED <<at, addr, got, dns>>
      /\ \A t \in Task : /\ left[t] \in Nat /\ left'[t] \in Nat
                         /\ left[t] > 0 => left'[t] = left[t] - 1
                         /\ left[t] = 0 => left'[t] = 0
      /\ \A t \in Task : at[t] = "capcheck" => left[t] > 0
      /\ LoopFree => \A t \in Task : at[t] # "idle" => left[t] > 0
  BY DEF Tick, TypeOK
<1>2. OneBlocker' /\ WithinBudget'
  BY <1>1, PositiveConstants DEF FreshInv, OneBlocker, WithinBudget
<1>3. HeldFresh'
  <2>1. ASSUME NEW t \in Task, at[t] # "idle", NEW base \in Nat, NEW wait \in Nat,
               Aged(t, base, wait)
        PROVE  Aged(t, base, wait)'
    <3>1. Held(t) \in Nat /\ Held(t)' \in Nat /\ Held(t)' <= Held(t) + 1
      BY OldTicks
    <3>2. left'[t] > 0 => Held(t)' + left'[t] <= base + wait
      BY <1>1, <2>1, <3>1 DEF Aged
    <3>3. ASSUME NEW u \in Task, at[u] = "capcheck"
          PROVE  Held(t)' + left'[u] <= base + Prolonged(wait)
      <4>1. Held(t) + left[u] <= base + Prolonged(wait) /\ Prolonged(wait) \in Nat
        BY <2>1, <3>3, PositiveConstants DEF Aged, Prolonged
      <4>2. left[u] \in Nat /\ left'[u] = left[u] - 1
        BY <1>1, <3>3
      <4> QED BY <3>1, <4>1, <4>2
    <3>4. Held(t)' <= base + Prolonged(wait)
      <4>1. CASE LoopFree
        <5>1. left[t] > 0 /\ left[t] \in Nat
          BY <1>1, <2>1, <4>1
        <5>2. Held(t) + left[t] <= base + wait
          BY <2>1, <5>1 DEF Aged
        <5> QED BY <3>1, <5>1, <5>2, PositiveConstants DEF Prolonged
      <4>2. CASE ~LoopFree
        <5>1. PICK u \in Task : at[u] = "capcheck"
          BY <4>2 DEF LoopFree
        <5>2. Held(t)' + left'[u] <= base + Prolonged(wait) /\ left'[u] \in Nat
          BY <1>1, <3>3, <5>1
        <5> QED BY <3>1, <5>2, PositiveConstants DEF Prolonged
      <4> QED BY <4>1, <4>2
    <3> QED BY <1>1, <3>2, <3>3, <3>4 DEF Aged
  <2> QED BY <1>1, <2>1, PositiveConstants DEF FreshInv, HeldFresh
<1>4. CacheFresh'
  <2> SUFFICES ASSUME NEW a \in Addr, cache'[a].left > 0
               PROVE  old'[a][cache'[a].name] + cache'[a].left <= Freshness
    BY DEF CacheFresh
  <2>1. cache[a] \in [name : Answers, left : 0..RdnsTtl]
    BY DEF TypeOK
  <2>2. cache'[a] = IF cache[a].left > 1 THEN [cache[a] EXCEPT !.left = cache[a].left - 1]
                    ELSE Absent
    BY DEF Tick
  <2>3. CASE cache[a].left > 1
    <3>1. /\ cache'[a].left = cache[a].left - 1 /\ cache'[a].name = cache[a].name
          /\ cache[a].left \in Nat /\ cache[a].name \in Answers
      BY <2>1, <2>2, <2>3
    <3>2. old[a][cache[a].name] + cache[a].left <= Freshness
      BY <2>3, <3>1 DEF FreshInv, CacheFresh
    <3> QED BY <3>1, <3>2, OldTicks, <2>3, PositiveConstants
  <2>4. CASE ~(cache[a].left > 1)
    BY <2>2, <2>4 DEF Absent
  <2> QED BY <2>3, <2>4
<1>5. RecordTrue'
  BY DEF Tick, TypeOK, FreshInv, RecordTrue
<1> QED BY <1>2, <1>3, <1>4, <1>5 DEF FreshInv

\* A record changes: the new one is true from now on, the old one was until now.
LEMMA FreshRenumber ==
  ASSUME TypeOK, FreshInv, NEW a \in Addr, NEW n \in Answers, Renumber(a, n)
  PROVE  FreshInv'
<1>1. UNCHANGED <<at, addr, left, got, cache>>
  BY DEF Renumber, valkey
<1>2. \A b \in Addr, m \in Answers :
        /\ old'[b][m] = IF b = a /\ m = n THEN 0 ELSE old[b][m]
        /\ old[b][m] \in Nat /\ old'[b][m] \in Nat /\ old'[b][m] <= old[b][m]
  <2>1. old' = [old EXCEPT ![a] = [old[a] EXCEPT ![n] = 0]]
    BY DEF Renumber
  <2>2. old[a] \in [Answers -> 0..(Freshness + 1)] /\ DOMAIN old = Addr
    BY DEF TypeOK
  <2>3. \A b \in Addr, m \in Answers : old[b][m] \in Nat
    BY DEF TypeOK
  <2> QED BY <2>1, <2>2, <2>3
<1>3. OneBlocker' /\ WithinBudget'
  BY <1>1 DEF FreshInv, OneBlocker, WithinBudget
<1>4. HeldFresh'
  <2>1. ASSUME NEW u \in Task, NEW base \in Nat, NEW wait \in Nat, Aged(u, base, wait)
        PROVE  Aged(u, base, wait)'
    <3>1. Held(u)' <= Held(u) /\ Held(u) \in Nat /\ Held(u)' \in Nat
      BY <1>1, <1>2 DEF Held, TypeOK
    <3>2. \A v \in Task : left[v] \in Nat
      BY DEF TypeOK
    <3> QED BY <1>1, <2>1, <3>1, <3>2, PositiveConstants DEF Aged, Prolonged
  <2> QED BY <1>1, <2>1, PositiveConstants DEF FreshInv, HeldFresh
<1>5. CacheFresh'
  <2>1. \A b \in Addr : cache[b].left \in Nat /\ cache[b].name \in Answers
    BY DEF TypeOK
  <2> QED BY <1>1, <1>2, <2>1, PositiveConstants DEF FreshInv, CacheFresh
<1>6. RecordTrue'
  <2>1. \A b \in Addr : dns[b] \in Answers /\ dns'[b] = IF b = a THEN n ELSE dns[b]
    BY DEF Renumber, TypeOK
  <2> QED BY <1>2, <2>1 DEF FreshInv, RecordTrue
<1> QED BY <1>3, <1>4, <1>5, <1>6 DEF FreshInv

\* Every step keeps what is held and what is stored fresh.
LEMMA FreshStep ==
  ASSUME TypeOK, FreshInv, [Next]_vars
  PROVE  FreshInv'
<1>1. ASSUME NEW t \in Task, Ping(t) PROVE FreshInv'
  <2>1. CASE Goes(t, "get")
    <3>1. "get" \in Place
      BY DEF Place
    <3> QED BY <1>1, <2>1, <3>1, GotoMoves, FreshReleased DEF Ping, Goes, world
  <2>2. CASE StartQuery(t)
    BY <1>1, <2>2, StartQueryMoves, FreshReleased DEF Ping, world
  <2> QED BY <1>1, <2>1, <2>2 DEF Ping
<1>2. ASSUME NEW t \in Task, Get(t) PROVE FreshInv'
  <2>1. UNCHANGED <<addr, cache, dns, old>>
    BY <1>2 DEF Get, valkey, world
  <2>2. CASE End(t, cache[addr[t]].name)
    BY <2>1, <2>2, EndMoves, FreshReleased
  <2>3. CASE StartQuery(t)
    BY <2>1, <2>3, StartQueryMoves, FreshReleased
  <2> QED BY <1>2, <2>2, <2>3 DEF Get
<1>3. ASSUME NEW t \in Task, Answered(t) PROVE FreshInv'
  BY <1>3, FreshAnswered
<1>4. ASSUME NEW t \in Task, Resolved(t) PROVE FreshInv'
  <2>1. CASE has[t]
    BY <1>4, <2>1, FreshStoring
  <2>2. CASE ~has[t]
    <3>1. End(t, got[t]) /\ UNCHANGED <<addr, cache, dns, old>>
      BY <1>4, <2>2 DEF Resolved, valkey, world
    <3> QED BY <3>1, EndMoves, FreshReleased
  <2> QED BY <2>1, <2>2
<1>5. ASSUME NEW t \in Task, Set(t) PROVE FreshInv'
  BY <1>5, FreshSet
<1>6. ASSUME NEW t \in Task, MtrChecked(t) PROVE FreshInv'
  BY <1>6, FreshMtrChecked
<1>7. ASSUME NEW t \in Task, CapChecked(t) PROVE FreshInv'
  <2>1. /\ \E place \in {"firstping", "pong"} : Goto(t, place)
        /\ UNCHANGED <<addr, got, cache, dns, old>>
    BY <1>7 DEF CapChecked, GetValkey, world
  <2> QED BY <2>1, GotoMoves, FreshReleased DEF Place
<1>8. ASSUME NEW t \in Task, HealthFirstPing(t) PROVE FreshInv'
  <2>1. UNCHANGED <<addr, cache, dns, old>>
    BY <1>8 DEF HealthFirstPing, world
  <2>2. CASE Goes(t, "pong")
    BY <2>1, <2>2, GotoMoves, FreshReleased DEF Goes, Place
  <2>3. CASE Verdict(t, failing[t] \union {"valkey"})
    BY <2>1, <2>3, EndMoves, FreshReleased DEF Verdict
  <2> QED BY <1>8, <2>2, <2>3 DEF HealthFirstPing
<1>9. ASSUME NEW t \in Task, Pong(t) PROVE FreshInv'
  BY <1>9, EndMoves, FreshReleased DEF Pong, Verdict, valkey, world
<1>10. ASSUME NEW t \in Task, Reject(t) PROVE FreshInv'
  BY <1>10, EndMoves, FreshReleased DEF Reject, valkey, world
<1>11. ASSUME NEW t \in Task, CheckHealth(t) PROVE FreshInv'
  BY <1>11, GotoMoves, FreshReleased DEF CheckHealth, Place, valkey, world
<1>12. ASSUME NEW t \in Task, NEW a \in Addr, Ask(t, a) PROVE FreshInv'
  <2>1. /\ \E place \in {"ping", "get"} : Goto(t, place)
        /\ UNCHANGED <<got, cache, dns, old>>
        /\ \A u \in Task \ {t} : addr'[u] = addr[u]
    BY <1>12 DEF Ask, GetValkey, TypeOK, world
  <2> QED BY <2>1, GotoMoves, FreshReleased DEF Place
<1>13. ASSUME NEW a \in Addr, NEW n \in Answers, Renumber(a, n) PROVE FreshInv'
  BY <1>13, FreshRenumber
<1>14. CASE Tick
  BY <1>14, FreshTick
<1>15. CASE ValkeyChanges
  <2>1. UNCHANGED <<at, addr, left, got, dns, old>>
    BY <1>15 DEF ValkeyChanges, world
  <2>2. OneBlocker' /\ WithinBudget' /\ RecordTrue'
    BY <2>1 DEF FreshInv, OneBlocker, WithinBudget, RecordTrue
  <2>3. HeldFresh'
    BY <2>1 DEF FreshInv, HeldFresh, Aged, Held
  <2>4. CacheFresh'
    BY <1>15, <2>1 DEF ValkeyChanges, FreshInv, CacheFresh, Absent
  <2> QED BY <2>2, <2>3, <2>4 DEF FreshInv
<1>16. CASE Restart
  <2>1. (\A t \in Task : at'[t] = "idle") /\ UNCHANGED <<cache, dns, old>>
    BY <1>16 DEF Restart, world
  <2> QED BY <2>1 DEF FreshInv, OneBlocker, WithinBudget, HeldFresh, CacheFresh, RecordTrue
<1>17. CASE UNCHANGED vars
  BY <1>17 DEF vars, valkey, world, FreshInv, OneBlocker, WithinBudget, HeldFresh, Aged, Held,
               CacheFresh, RecordTrue
<1> QED
  BY <1>1, <1>2, <1>3, <1>4, <1>5, <1>6, <1>7, <1>8, <1>9, <1>10, <1>11, <1>12, <1>13,
     <1>14, <1>15, <1>16, <1>17 DEF Next, Step

-------------------------------------------------------------------------------
(* The theorems.                                                           *)

\* IInv holds of a process that starts.
LEMMA IInvInit == Init => IInv
<1> SUFFICES ASSUME Init PROVE IInv
  OBVIOUS
<1>1. TypeOK
  <2>1. Absent \in [name : Answers, left : 0..RdnsTtl]
    BY PositiveConstants DEF Absent, Answers
  <2>2. old \in [Addr -> [Answers -> 0..(Freshness + 1)]]
    BY PositiveConstants DEF Init
  <2> QED BY <2>1, <2>2 DEF Init, TypeOK, Place, Reply, Answers
<1>2. OnePublisher
  BY DEF Init, OnePublisher
<1>3. RecordTrue
  BY DEF Init, RecordTrue
<1> QED
  BY <1>1, <1>2, <1>3 DEF Init, IInv, FreshInv, OneBlocker, WithinBudget, HeldFresh, CacheFresh,
                          Absent

\* Every step keeps it.
LEMMA IInvStep == IInv /\ [Next]_vars => IInv'
<1> SUFFICES ASSUME IInv, [Next]_vars PROVE IInv'
  OBVIOUS
<1>1. TypeOK'
  <2>1. CASE UNCHANGED vars
    BY <2>1 DEF vars, valkey, world, IInv, TypeOK
  <2> QED BY <2>1, TypeStepTask, TypeStepWorld DEF Next, IInv
<1> QED BY <1>1, OnePublisherStep, FreshStep DEF IInv

\* The invariant holds of every run of get_valkey, lookup and the health
\* check, whoever is resumed when.
THEOREM Invariance == Spec => []IInv
<1> QED BY IInvInit, IInvStep, PTL DEF Spec

\* TypeOK, whatever the number of requests, addresses and names.
THEOREM TypeCorrect == Spec => []TypeOK
<1>1. IInv => TypeOK
  BY DEF IInv
<1> QED BY <1>1, Invariance, PTL

\* services/valkey.py's get_valkey: at most one request at a time is testing
\* the shared client, and the client it tests is published.
THEOREM PublishedOnce == Spec => []OnePublisher
<1>1. IInv => OnePublisher
  BY DEF IInv
<1> QED BY <1>1, Invariance, PTL

\* The replies there are and what each of them goes back to.
Justified(t) ==
  \/ reply'[t] \in {"none", "rejected", "degraded"}
  \/ reply'[t] = "raised" /\ ~conf
  \/ reply'[t] = "healthy" /\ up
  \/ reply'[t] \in Answers /\ old[addr[t]][reply'[t]] < Freshness

\* Nobody is given a reply for another reason.
LEMMA RepliesJustified ==
  ASSUME IInv, [Next]_vars, NEW v \in Task, reply'[v] # reply[v]
  PROVE  Justified(v)
<1> USE DEF IInv
<1>1. ASSUME NEW t \in Task, Ping(t) PROVE Justified(v)
  <2>1. CASE UNCHANGED reply
    BY <2>1
  <2>2. CASE StartQuery(t)
    BY <2>2, StartQueryMoves DEF Justified
  <2> QED BY <1>1, <2>1, <2>2 DEF Ping, Goes
<1>2. ASSUME NEW t \in Task, Get(t) PROVE Justified(v)
  <2>1. CASE cache[addr[t]].left > 0 /\ End(t, cache[addr[t]].name)
    <3>1. v = t /\ reply'[t] = cache[addr[t]].name /\ cache[addr[t]].name \in Answers
      BY <2>1, EndMoves DEF TypeOK
    <3> QED BY <2>1, <3>1, HeldIsFresh DEF Justified
  <2>2. CASE StartQuery(t)
    BY <2>2, StartQueryMoves DEF Justified
  <2> QED BY <1>2, <2>1, <2>2 DEF Get
<1>3. ASSUME NEW t \in Task, Resolved(t) PROVE Justified(v)
  <2>1. CASE UNCHANGED reply
    BY <2>1
  <2>2. CASE End(t, got[t])
    <3>1. v = t /\ reply'[t] = got[t] /\ got[t] \in Answers
      BY <2>2, EndMoves DEF TypeOK
    <3> QED BY <1>3, <3>1, HeldIsFresh DEF Justified, Resolved, Runs
  <2> QED BY <1>3, <2>1, <2>2 DEF Resolved, Goes
<1>4. ASSUME NEW t \in Task, Set(t) PROVE Justified(v)
  <2>1. v = t /\ reply'[t] = got[t] /\ got[t] \in Answers
    BY <1>4, EndMoves DEF Set, TypeOK
  <2> QED BY <1>4, <2>1, HeldIsFresh DEF Justified, Set, Runs
<1>5. ASSUME NEW t \in Task, HealthFirstPing(t) PROVE Justified(v)
  <2>1. CASE UNCHANGED reply
    BY <2>1
  <2>2. CASE Verdict(t, failing[t] \union {"valkey"})
    BY <2>2, EndMoves DEF Verdict, Justified
  <2> QED BY <1>5, <2>1, <2>2 DEF HealthFirstPing, Goes
<1>6. ASSUME NEW t \in Task, Pong(t) PROVE Justified(v)
  <2>1. CASE up
    BY <1>6, <2>1, EndMoves DEF Pong, Verdict, Justified
  <2>2. CASE ~up
    BY <1>6, <2>2, EndMoves DEF Pong, Verdict, Justified
  <2> QED BY <2>1, <2>2
<1>7. ASSUME NEW t \in Task, Reject(t) PROVE Justified(v)
  BY <1>7, EndMoves DEF Reject, Justified
<1>8. ASSUME NEW t \in Task, CheckHealth(t) PROVE Justified(v)
  BY <1>8 DEF CheckHealth, TypeOK, Justified
<1>9. ASSUME NEW t \in Task, NEW a \in Addr, Ask(t, a) PROVE Justified(v)
  BY <1>9 DEF Ask, TypeOK, Justified
<1>10. CASE Restart
  BY <1>10 DEF Restart, Justified
<1>11. ASSUME \/ \E t \in Task : Answered(t) \/ MtrChecked(t) \/ CapChecked(t)
              \/ \E a \in Addr, n \in Answers : Renumber(a, n)
              \/ Tick \/ ValkeyChanges \/ UNCHANGED vars
       PROVE UNCHANGED reply
  BY <1>11 DEF Answered, MtrChecked, CapChecked, Renumber, Tick, ValkeyChanges, vars
<1> QED
  BY <1>1, <1>2, <1>3, <1>4, <1>5, <1>6, <1>7, <1>8, <1>9, <1>10, <1>11 DEF Next, Step

\* No name is one of the other replies.
LEMMA RepliesDisjoint ==
  Answers \cap {"none", "raised", "rejected", "healthy", "degraded"} = {}
BY RdnsAssumption DEF Answers

\* services/rdns.py's lookup: however lookups overlap, overwrite each
\* other's entries and lose Valkey, a reply was true of its address, or a
\* resolver failed, at most Freshness ago.
THEOREM RepliesAlwaysFresh == Spec => RepliesFresh
<1>1. ASSUME IInv, [Next]_vars, NEW t \in Task, reply'[t] # reply[t], reply'[t] \in Answers
      PROVE  old[addr[t]][reply'[t]] < Freshness
  BY <1>1, RepliesJustified, RepliesDisjoint DEF Justified
<1>2. IInv /\ [Next]_vars
        => [\A t \in Task : reply'[t] # reply[t] /\ reply'[t] \in Answers
              => old[addr[t]][reply'[t]] < Freshness]_vars
  BY <1>1
<1> QED BY <1>2, Invariance, PTL DEF Spec, RepliesFresh

\* services/rdns.py: whatever Valkey does between two commands, only an
\* unreadable resolv.conf makes a lookup raise.
THEOREM FaultsAlwaysSwallowed == Spec => FaultsSwallowed
<1>1. ASSUME IInv, [Next]_vars, NEW t \in Task, reply'[t] = "raised", reply[t] # "raised"
      PROVE  ~conf
  BY <1>1, RepliesJustified, RepliesDisjoint DEF Justified
<1>2. IInv /\ [Next]_vars
        => [\A t \in Task : reply'[t] = "raised" /\ reply[t] # "raised" => ~conf]_vars
  BY <1>1
<1> QED BY <1>2, Invariance, PTL DEF Spec, FaultsSwallowed

\* routes/health.py: "healthy" is said only at a moment at which Valkey answers.
THEOREM HealthAlwaysSeesOutage == Spec => HealthSeesOutage
<1>1. ASSUME IInv, [Next]_vars, NEW t \in Task, reply'[t] = "healthy", reply[t] # "healthy"
      PROVE  up
  BY <1>1, RepliesJustified, RepliesDisjoint DEF Justified
<1>2. IInv /\ [Next]_vars
        => [\A t \in Task : reply'[t] = "healthy" /\ reply[t] # "healthy" => up]_vars
  BY <1>1
<1> QED BY <1>2, Invariance, PTL DEF Spec, HealthSeesOutage
================================================================================
