--------------------------- MODULE TracerouteService ---------------------------
(***************************************************************************)
(* Serving traceroutes: run_mtr_cached (a "blocking" request) and          *)
(* stream_mtr_cached (a "stream") sharing a result cache and a per-key     *)
(* lock in Valkey and the slots of SlotPool.                               *)
(*                                                                         *)
(* One action is one stretch of a coroutine between two awaits; at[t]      *)
(* names the await.  Valkey executes a command in the step that resumes    *)
(* its caller.  Time is a Tick of one unit: left[t] is how long the        *)
(* pending await is to last, and a Tick is possible only while every       *)
(* pending await has time left; awaits of clients and of Valkey, which     *)
(* have no timeout in the code, are exempt unless they are Prompt.         *)
(***************************************************************************)
EXTENDS Integers, FiniteSets

CONSTANTS
  Task,        \* requests
  Key,         \* cache keys: a full IPv4 address or an IPv6 /64
  Cap,         \* slots
  CacheTtl,    \* settings.traceroute_cache_ttl
  LockTtl,     \* _SUBPROCESS_TIMEOUT + 10
  SubTimeout,  \* _SUBPROCESS_TIMEOUT
  Wait,        \* traceroute_concurrency_wait_seconds, not 0 here
  Delay,       \* how long a Valkey command or a finaliser is to take
  Stall,       \* how long a client is to delay the send of one event
  Prompt,      \* no command and no send takes longer than that
  SlowDns,     \* a hop's resolver call may block the event loop for any time
  Modes,       \* which of the two endpoints are called
  Disconnects, \* stream clients may go away
  Recancel,    \* a cancelled stream is cancelled again at its next await
  Faults       \* Valkey may stop, the app may restart

ASSUME ServiceAssumption ==
  /\ {Cap, CacheTtl, LockTtl, SubTimeout, Wait} \subseteq Nat \ {0}
  /\ {Delay, Stall} \subseteq Nat
  /\ Modes \subseteq {"blocking", "stream"}
  /\ {Prompt, SlowDns, Disconnects, Recancel, Faults} \subseteq BOOLEAN

VARIABLES
  mode, at, key, left, reply,  \* per request
  has,      \* the request got a client from get_valkey
  pool,     \* valkey._pool is set
  up,       \* Valkey answers
  cache,    \* remaining life of the cached result of a key, 0 when absent
  lock,     \* remaining life of the lock of a key, 0 when absent
  holders, lost, \* SlotPool
  late,     \* how long a run has been overdue, up to Margin (history)
  slipped,  \* an overlapping run of a key has lost its lock (history)
  struck    \* the runs during which Valkey has stopped (history)

history == <<late, slipped, struck>>
reqVars == <<mode, key, has, history>>
poolVars == <<holders, lost>>
vars == <<mode, at, key, left, reply, has, pool, up, cache, lock, holders, lost, history>>

Slots == INSTANCE SlotPool

LookingUp == {"ping", "get", "ttl", "exists", "setlock"}
Resolving == {"resolving", "enriching"}
Place == LookingUp \union Resolving \union
         {"idle", "starting", "waiting", "tracing", "store", "telling", "unlock",
          "closing", "finalising"}
\* Awaits of a client or of Valkey.
External == LookingUp \union {"starting", "telling", "store", "unlock"}
Reply == {"none", "cached", "live", "limited", "busy", "failed", "crash", "gone"}

TypeOK ==
  /\ mode \in [Task -> {"blocking", "stream"}]
  /\ at \in [Task -> Place]
  /\ key \in [Task -> Key]
  /\ left \in [Task -> Nat]
  /\ reply \in [Task -> Reply]
  /\ has \in [Task -> BOOLEAN]
  /\ pool \in BOOLEAN /\ up \in BOOLEAN
  /\ cache \in [Key -> 0..CacheTtl]
  /\ lock \in [Key -> 0..LockTtl]
  /\ Slots!PoolTypeOK
  /\ late \in [Task -> Nat]
  /\ slipped \in [Key -> BOOLEAN]
  /\ struck \in SUBSET Task

-------------------------------------------------------------------------------
(* Helpers.                                                                *)

\* How long the await at a place is to last.
Budget(place) ==
  IF place = "waiting" THEN Wait
  ELSE IF place = "tracing" THEN SubTimeout
  ELSE IF place \in {"starting", "telling"} THEN Stall
  ELSE IF place \in {"idle", "enriching"} THEN 0
  ELSE Delay

Goto(t, place) == /\ at' = [at EXCEPT ![t] = place]
                  /\ left' = [left EXCEPT ![t] = Budget(place)]

Answer(t, r) == reply' = [reply EXCEPT ![t] = r]

End(t, r) == Goto(t, "idle") /\ Answer(t, r)

Unlocked(k) == [lock EXCEPT ![k] = 0]

\* A resolver call inside a coroutine lets nothing else run.
LoopFree == \A u \in Task : at[u] \notin Resolving

Runs(t, place) == LoopFree /\ at[t] = place

\* Requests between their SET of the lock and their DEL.
InRun(t) == has[t] /\ at[t] \in {"starting", "waiting", "tracing", "resolving",
                                 "enriching", "store", "telling", "unlock", "closing"}
Running(k) == \E t \in Task : InRun(t) /\ key[t] = k

\* The longest run that is never overdue, and what a lock lives beyond it.
Longest == 2 * Stall + Wait + SubTimeout + 2 * Delay
Margin == LockTtl - Longest

\* Mutant of AfterTrace: run_mtr_cached has no except clause.
AfterTraceNoDelete(t, r) ==
  /\ Answer(t, r)
  /\ Goto(t, IF mode[t] = "stream" THEN "telling" ELSE "idle")

\* The trace is over with result r: the lock is released if there is one.
\* A stream first tells its client.
AfterTrace(t, r) ==
  /\ Answer(t, r)
  /\ IF mode[t] = "stream" THEN Goto(t, "telling")
     ELSE Goto(t, IF has[t] THEN "unlock" ELSE "idle")

\* Without a client, and once the lock is taken, the trace begins; a stream
\* first sends its "started" event.
BeginTrace(t) == Goto(t, IF mode[t] = "stream" THEN "starting" ELSE "waiting")

-------------------------------------------------------------------------------
(* Looking a key up.                                                       *)

\* get_valkey: the shared client is published before its first ping, and once
\* published it is never checked again.
Arrive(t, m, k) ==
  /\ LoopFree /\ at[t] = "idle"
  /\ mode' = [mode EXCEPT ![t] = m]
  /\ key' = [key EXCEPT ![t] = k]
  /\ has' = [has EXCEPT ![t] = pool]
  /\ pool' = TRUE
  /\ Goto(t, IF pool THEN "get" ELSE "ping")
  /\ Answer(t, "none")
  /\ UNCHANGED <<up, cache, lock, poolVars, history>>

Ping(t) ==
  /\ Runs(t, "ping")
  /\ \/ /\ up
        /\ has' = [has EXCEPT ![t] = TRUE]
        /\ Goto(t, "get")
        /\ UNCHANGED pool
     \/ /\ ~up
        /\ pool' = FALSE
        /\ BeginTrace(t)
        /\ UNCHANGED has
  /\ UNCHANGED <<mode, key, reply, up, cache, lock, poolVars, history>>

Get(t) ==
  /\ Runs(t, "get") /\ up
  /\ Goto(t, IF cache[key[t]] > 0 THEN "ttl" ELSE "exists")
  /\ UNCHANGED <<reqVars, reply, pool, up, cache, lock, poolVars>>

\* A hit is served from the value already read, whatever ttl answers.
Ttl(t) ==
  /\ Runs(t, "ttl") /\ up
  /\ End(t, "cached")
  /\ UNCHANGED <<reqVars, pool, up, cache, lock, poolVars>>

\* Mutant of Exists: the try whose finally deletes the lock begins before it.
ExistsDeletes(t) ==
  /\ Runs(t, "exists") /\ up
  /\ \/ /\ lock[key[t]] > 0
        /\ lock' = Unlocked(key[t])
        /\ End(t, "limited")
     \/ /\ lock[key[t]] = 0
        /\ Goto(t, "setlock")
        /\ UNCHANGED <<reply, lock>>
  /\ UNCHANGED <<reqVars, pool, up, cache, poolVars>>

Exists(t) ==
  /\ Runs(t, "exists") /\ up
  /\ \/ /\ lock[key[t]] > 0
        /\ End(t, "limited")
     \/ /\ lock[key[t]] = 0
        /\ Goto(t, "setlock")
        /\ UNCHANGED reply
  /\ UNCHANGED <<reqVars, pool, up, cache, lock, poolVars>>

\* A run begins: on time, and beside another only over a lock that is still there.
Begins(t) ==
  /\ late' = [late EXCEPT ![t] = 0]
  /\ struck' = struck \ {t}
  /\ slipped' = [slipped EXCEPT ![key[t]] = Running(key[t]) /\ (@ \/ lock[key[t]] > 0)]

\* Mutant of SetLock: the lock lives no longer than mtr may.
SetLockShort(t) ==
  /\ Runs(t, "setlock") /\ up
  /\ lock' = [lock EXCEPT ![key[t]] = SubTimeout]
  /\ BeginTrace(t)
  /\ Begins(t)
  /\ UNCHANGED <<mode, key, has, reply, pool, up, cache, poolVars>>

\* Mutant of SetLock: a lock that is there already is extended.
SetLockExtends(t) ==
  /\ Runs(t, "setlock") /\ up
  /\ lock' = [lock EXCEPT ![key[t]] = @ + LockTtl]
  /\ BeginTrace(t)
  /\ Begins(t)
  /\ UNCHANGED <<mode, key, has, reply, pool, up, cache, poolVars>>

\* SET with an expiry and without NX: it overwrites a lock set in between.
SetLock(t) ==
  /\ Runs(t, "setlock") /\ up
  /\ lock' = [lock EXCEPT ![key[t]] = LockTtl]
  /\ BeginTrace(t)
  /\ Begins(t)
  /\ UNCHANGED <<mode, key, has, reply, pool, up, cache, poolVars>>

-------------------------------------------------------------------------------
(* Tracing.                                                                *)

StartedSent(t) ==
  /\ Runs(t, "starting")
  /\ Goto(t, "waiting")
  /\ UNCHANGED <<reqVars, reply, pool, up, cache, lock, poolVars>>

Acquire(t) ==
  /\ Runs(t, "waiting")
  /\ Slots!Grant(t)
  /\ Goto(t, "tracing")
  /\ UNCHANGED <<reqVars, reply, pool, up, cache, lock>>

\* Mutant of Busy: only the blocking path bounds its wait.
BusyBlockingOnly(t) ==
  /\ Runs(t, "waiting") /\ left[t] = 0 /\ mode[t] = "blocking"
  /\ AfterTrace(t, "busy")
  /\ UNCHANGED <<reqVars, pool, up, cache, lock, poolVars>>

Busy(t) ==
  /\ Runs(t, "waiting") /\ left[t] = 0
  /\ AfterTrace(t, "busy")
  /\ UNCHANGED <<reqVars, pool, up, cache, lock, poolVars>>

\* A stream resolves the name of a hop as soon as it knows its address, within
\* its timeout; the time a quick resolver takes is not counted.
Resolve(t) ==
  /\ SlowDns /\ mode[t] = "stream"
  /\ Runs(t, "tracing") /\ left[t] > 0
  /\ at' = [at EXCEPT ![t] = "resolving"]
  /\ UNCHANGED <<reqVars, left, reply, pool, up, cache, lock, poolVars>>

Resolved(t) ==
  /\ at[t] = "resolving"
  /\ at' = [at EXCEPT ![t] = "tracing"]
  /\ UNCHANGED <<reqVars, left, reply, pool, up, cache, lock, poolVars>>

\* mtr ended well.  run_mtr resolves the hops while it holds its slot.
Traced(t) ==
  /\ Runs(t, "tracing")
  /\ \/ /\ mode[t] = "blocking"
        /\ Goto(t, "enriching")
        /\ UNCHANGED <<reply, poolVars>>
     \/ /\ mode[t] = "stream"
        /\ Slots!Return(t)
        /\ Answer(t, "live")
        /\ Goto(t, IF has[t] THEN "store" ELSE "telling")
  /\ UNCHANGED <<reqVars, pool, up, cache, lock>>

\* Mutant of Enriched: the lock is deleted before the result is stored.
EnrichedUnlockFirst(t) ==
  /\ at[t] = "enriching"
  /\ Slots!Return(t)
  /\ Answer(t, "live")
  /\ Goto(t, IF has[t] THEN "unlock" ELSE "idle")
  /\ UNCHANGED <<reqVars, pool, up, cache, lock>>

Enriched(t) ==
  /\ at[t] = "enriching"
  /\ Slots!Return(t)
  /\ Answer(t, "live")
  /\ Goto(t, IF has[t] THEN "store" ELSE "idle")
  /\ UNCHANGED <<reqVars, pool, up, cache, lock>>

\* Mutant of TraceFails: the slot is given back on success only.
TraceFailsKeepsSlot(t) ==
  /\ Runs(t, "tracing")
  /\ AfterTrace(t, "failed")
  /\ UNCHANGED <<reqVars, pool, up, cache, lock, poolVars>>

\* mtr cannot be started or ends with an error.
TraceFails(t) ==
  /\ Runs(t, "tracing")
  /\ Slots!Return(t)
  /\ AfterTrace(t, "failed")
  /\ UNCHANGED <<reqVars, pool, up, cache, lock>>

\* The timeout: an error, unless it cancels a stream's task inside a send.
TraceTimesOut(t) ==
  /\ Runs(t, "tracing") /\ left[t] = 0
  /\ \/ Slots!Return(t) /\ AfterTrace(t, "failed")
     \/ /\ mode[t] = "stream"
        /\ Goto(t, "closing")
        /\ Answer(t, "gone")
        /\ UNCHANGED poolVars
  /\ UNCHANGED <<reqVars, pool, up, cache, lock>>

-------------------------------------------------------------------------------
(* Storing the result and releasing the lock.                              *)

Store(t) ==
  /\ Runs(t, "store") /\ up
  /\ cache' = [cache EXCEPT ![key[t]] = CacheTtl]
  /\ Goto(t, IF mode[t] = "stream" THEN "telling" ELSE "unlock")
  /\ UNCHANGED <<reqVars, reply, pool, up, lock, poolVars>>

\* The last event of a stream, "done" or "error", is sent.
Told(t) ==
  /\ Runs(t, "telling")
  /\ Goto(t, IF has[t] THEN "unlock" ELSE "idle")
  /\ UNCHANGED <<reqVars, reply, pool, up, cache, lock, poolVars>>

\* DEL, whoever set the lock.
Unlock(t) ==
  /\ Runs(t, "unlock") /\ up
  /\ lock' = Unlocked(key[t])
  /\ End(t, reply[t])
  /\ UNCHANGED <<reqVars, pool, up, cache, poolVars>>

\* A command raises.  Only the stream's SET of the result and its DEL are
\* inside a try; the rest end the request with an unhandled exception.
CommandFails(t) ==
  /\ LoopFree /\ ~up
  /\ \/ /\ at[t] \in {"get", "ttl", "exists", "setlock"}
        /\ End(t, "crash")
     \/ /\ at[t] = "store"
        /\ IF mode[t] = "stream" THEN Goto(t, "telling") /\ UNCHANGED reply
                                 ELSE End(t, "crash")
     \/ /\ at[t] = "unlock"
        /\ End(t, IF mode[t] = "stream" THEN reply[t] ELSE "crash")
  /\ UNCHANGED <<reqVars, pool, up, cache, lock, poolVars>>

\* The finaliser of an abandoned stream unwinds the outer generator (the lock)
\* and the inner one (mtr and its slot) as separate coroutines.
CloseOuter(t) ==
  /\ Runs(t, "closing")
  /\ lock' = IF has[t] /\ up THEN Unlocked(key[t]) ELSE lock
  /\ Goto(t, "finalising")
  /\ UNCHANGED <<reqVars, reply, pool, up, cache, poolVars>>

CloseInner(t) ==
  /\ \/ Runs(t, "closing") /\ Goto(t, IF has[t] THEN "unlock" ELSE "idle")
     \/ Runs(t, "finalising") /\ Goto(t, "idle")
  /\ Slots!Return(t)
  /\ UNCHANGED <<reqVars, reply, pool, up, cache, lock>>

-------------------------------------------------------------------------------
(* The client of a stream goes away: its task is cancelled where it waits.  *)

\* A command cancelled in flight may have reached Valkey or not.
MaybeSet(k) == lock' \in {lock, [lock EXCEPT ![k] = IF up THEN LockTtl ELSE @]}
MaybeDel(k) == lock' \in {lock, IF up THEN Unlocked(k) ELSE lock}

\* The finally that deletes the lock runs to its await, which a second
\* cancellation may interrupt.
Unwind(t) ==
  \/ ~has[t] /\ End(t, "gone") /\ UNCHANGED lock
  \/ has[t] /\ ~Recancel /\ Goto(t, "unlock") /\ Answer(t, "gone") /\ UNCHANGED lock
  \/ has[t] /\ Recancel /\ End(t, "gone") /\ MaybeDel(key[t])

\* Before the try: nothing is cleaned up.
DisconnectEarly(t) ==
  /\ \/ at[t] \in {"ping", "get", "ttl", "exists", "starting"} /\ UNCHANGED lock
     \/ at[t] = "setlock" /\ MaybeSet(key[t])
  /\ End(t, "gone")
  /\ UNCHANGED <<cache, poolVars>>

\* The inner generator kills mtr and gives its slot back, unless its own await
\* is cancelled as well (MtrSlots); cancelled in a send, it is left to the
\* finaliser.
DisconnectTracing(t) ==
  /\ at[t] = "tracing"
  /\ \/ Slots!Return(t) /\ Unwind(t)
     \/ Recancel /\ Slots!Lose(t) /\ Unwind(t)
     \/ Goto(t, "closing") /\ Answer(t, "gone") /\ UNCHANGED <<lock, poolVars>>
  /\ UNCHANGED cache

DisconnectLate(t) ==
  /\ \/ at[t] = "waiting" /\ Unwind(t) /\ UNCHANGED cache
     \/ /\ at[t] = "store" /\ Unwind(t)
        /\ cache' \in {cache, [cache EXCEPT ![key[t]] = IF up THEN CacheTtl ELSE @]}
     \/ /\ at[t] = "telling"
        /\ Goto(t, IF has[t] THEN "unlock" ELSE "idle")
        /\ Answer(t, "gone")
        /\ UNCHANGED <<lock, cache>>
     \/ at[t] = "unlock" /\ End(t, "gone") /\ MaybeDel(key[t]) /\ UNCHANGED cache
  /\ UNCHANGED poolVars

Disconnect(t) ==
  /\ Disconnects /\ LoopFree
  /\ mode[t] = "stream" /\ reply[t] # "gone"
  /\ DisconnectEarly(t) \/ DisconnectTracing(t) \/ DisconnectLate(t)
  /\ UNCHANGED <<reqVars, pool, up>>

-------------------------------------------------------------------------------
(* Valkey, the process, the clock.                                         *)

\* Valkey keeps its keys or loses them when it stops.
ValkeyStops ==
  /\ Faults /\ up
  /\ up' = FALSE
  /\ struck' = {t \in Task : InRun(t)}
  /\ \/ UNCHANGED <<cache, lock, slipped>>
     \/ /\ cache' = [k \in Key |-> 0]
        /\ lock' = [k \in Key |-> 0]
        /\ slipped' = [k \in Key |-> Running(k)]
  /\ UNCHANGED <<mode, key, has, late, at, left, reply, pool, poolVars>>

ValkeyStarts ==
  /\ ~up
  /\ up' = TRUE
  /\ UNCHANGED <<reqVars, at, left, reply, pool, cache, lock, poolVars>>

\* The app restarts; what it had set in Valkey stays.
Restart ==
  /\ Faults
  /\ at' = [t \in Task |-> "idle"]
  /\ left' = [t \in Task |-> 0]
  /\ reply' = [t \in Task |-> IF at[t] = "idle" THEN reply[t] ELSE "gone"]
  /\ pool' = FALSE
  /\ Slots!Renew
  /\ UNCHANGED <<reqVars, up, cache, lock>>

\* While a resolver call blocks the loop, the timers of the others are late.
Blocked == SlowDns /\ ~LoopFree

\* An await that has lasted its time has ended, unless nothing ends it.
Overdue(t) == at[t] # "idle" /\ left[t] = 0
MayPass == Blocked \/ \A t \in Task : Overdue(t) => ~Prompt /\ at[t] \in External

\* A run is overdue for one more unit; a lock expires under its run.
Lapse ==
  /\ late' = [t \in Task |-> IF ~InRun(t) THEN 0
                             ELSE IF Overdue(t) /\ late[t] < Margin THEN late[t] + 1
                             ELSE late[t]]
  /\ slipped' = [k \in Key |-> Running(k) /\ (slipped[k] \/ lock[k] = 1)]
  /\ struck' = {t \in struck : InRun(t)}

\* Mutant of Tick: the lock was set without ex=, so it never expires.
TickLocksStay ==
  /\ MayPass
  /\ left' = [t \in Task |-> IF left[t] > 0 THEN left[t] - 1 ELSE 0]
  /\ cache' = [k \in Key |-> IF cache[k] > 0 THEN cache[k] - 1 ELSE 0]
  /\ Lapse
  /\ UNCHANGED <<mode, key, has, at, reply, pool, up, lock, poolVars>>

Tick ==
  /\ MayPass
  /\ left' = [t \in Task |-> IF left[t] > 0 THEN left[t] - 1 ELSE 0]
  /\ cache' = [k \in Key |-> IF cache[k] > 0 THEN cache[k] - 1 ELSE 0]
  /\ lock' = [k \in Key |-> IF lock[k] > 0 THEN lock[k] - 1 ELSE 0]
  /\ Lapse
  /\ UNCHANGED <<mode, key, has, at, reply, pool, up, poolVars>>

Init ==
  /\ mode = [t \in Task |-> "blocking"]
  /\ at = [t \in Task |-> "idle"]
  /\ key \in [Task -> Key]
  /\ left = [t \in Task |-> 0]
  /\ reply = [t \in Task |-> "none"]
  /\ has = [t \in Task |-> FALSE]
  /\ pool = FALSE /\ up = TRUE
  /\ cache = [k \in Key |-> 0]
  /\ lock = [k \in Key |-> 0]
  /\ Slots!PoolInit
  /\ late = [t \in Task |-> 0]
  /\ slipped = [k \in Key |-> FALSE]
  /\ struck = {}

\* What waits for a client or for Valkey.
Served(t) ==
  \/ Ping(t) \/ Get(t) \/ Ttl(t) \/ Exists(t) \/ SetLock(t)
  \/ StartedSent(t) \/ Store(t) \/ Told(t) \/ Unlock(t) \/ CommandFails(t)
  \/ CloseOuter(t)

\* What the process, its timers, mtr and the resolver do by themselves.
Proceeds(t) ==
  \/ Acquire(t) \/ Busy(t)
  \/ Resolve(t) \/ Resolved(t)
  \/ Traced(t) \/ Enriched(t) \/ TraceFails(t) \/ TraceTimesOut(t)
  \/ CloseInner(t)

Step(t) == Served(t) \/ Proceeds(t)

Next == \/ \E t \in Task : \/ \E m \in Modes, k \in Key : Arrive(t, m, k)
                           \/ Step(t)
                           \/ Disconnect(t)
        \/ ValkeyStops \/ ValkeyStarts \/ Restart
        \/ Tick

Spec == Init /\ [][Next]_vars

\* Time passes, resolver calls return, abandoned generators are finalised, and
\* the event loop's ready queue is first in, first out: a coroutine that can run
\* again and again, between the stretches in which another one blocks the loop,
\* does run.  Nothing is assumed of clients and of Valkey, whose awaits
\* (valkey.py:33 and the yields of stream_mtr_cached) have no timeout.
FairSpec == Spec /\ SF_vars(Tick) /\ \A t \in Task : SF_vars(Proceeds(t))

-------------------------------------------------------------------------------
(* Properties.                                                             *)

\* A run loses its lock to the clock only when it has been overdue for Margin in
\* all (8 s with the settings): while resolver calls block the loop, or while
\* its client or Valkey takes longer than Stall or Delay.  So the lock's life
\* covers the wait for a slot, mtr's timeout and both sends of a stream, for
\* every order of delays and whatever other requests do.  (It does not cover the
\* resolver, which blocks hop by hop with no timeout: with the settings, 8 s of
\* look-ups end the lock of a run that goes on.)
LockExpires(k) == lock[k] > 0 /\ lock'[k] = 0
ExpiryNeedsDelay ==
  [][Tick => \A t \in Task : InRun(t) /\ LockExpires(key[t]) => late'[t] >= Margin]_vars

\* At most one run per key: PLAN.md:198, "In-progress request from same key ->
\* rejected".  False: EXISTS and then SET do not give it.
OneRunPerKey ==
  \A t, u \in Task : InRun(t) /\ InRun(u) /\ key[t] = key[u] => t = u

\* Runs of a key overlap only after a run under way has lost its lock: to a
\* SET between another request's EXISTS and SET, to an overlong delay, or with
\* Valkey's keys.  No DEL does it: until then every DEL, of runs that end, fail,
\* time out or are abandoned, hits the deleter's own lock, although it does
\* not look, and a request that is refused deletes nothing.
OneRunUntilSlip ==
  \A t, u \in Task : InRun(t) /\ InRun(u) /\ key[t] = key[u] => t = u \/ slipped[key[t]]

\* A run that ends with an answer, good or bad, leaves its key free: every such
\* ending of run_mtr_cached and stream_mtr_cached, under every fault, reaches
\* its DEL, unless Valkey is down by then.  Clients that go away are not
\* covered: services/traceroute.py:697 promises them a best effort only.
RunsUnlock ==
  [][\A t \in Task : InRun(t) /\ ~InRun(t)' /\ reply'[t] # "gone" /\ up
       => lock'[key[t]] = 0]_vars

\* When a successful run is about to free the key, its result can be read, of
\* any order of runs of the key, unless Valkey has stopped during the run or it
\* was overdue: a request that looks the key up from then on is a hit.  (One
\* whose miss is older than the result still runs again: GET and EXISTS are two
\* commands.)  A result has to live longer than a send and a command.
StoredBeforeUnlocked ==
  \A t \in Task :
    at[t] = "unlock" /\ reply[t] = "live" /\ t \notin struck /\ late[t] = 0
      => cache[key[t]] > 0

\* From the grant of a slot to its return, abandoned streams included.
Tracing == Resolving \union {"tracing", "closing", "finalising"}

\* Every way out of a trace (its end, an error, the timeout, a client that goes
\* away before or while the lock is deleted, a finaliser that runs late, a
\* restart) gives back the slot, once: the slots out are the traces under way.
SlotsHeldByTraces == holders = {t \in Task : at[t] \in Tracing}

\* A request ends unless its own client stops reading or Valkey stops answering
\* it: no mtr, resolver or timer, no lost slot and no other request, stuck or
\* not, keeps it.  With a positive wait for a slot; MtrSlots has the other case.
EveryRequestEnds ==
  \A t \in Task : []<>(at[t] = "idle") \/ <>[](at[t] \in External)

\* A key is never locked out for good, whatever happened to the run that locked
\* it.
LocksClear == \A k \in Key : lock[k] > 0 ~> lock[k] = 0

\* services/traceroute.py:311-312: "Falls back to a direct run_mtr call when
\* Redis is unavailable": no request ends in an unhandled error.
FallsBack == \A t \in Task : reply[t] # "crash"
===============================================================================
