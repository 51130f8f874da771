------------------------------- MODULE MtrSlots -------------------------------
(***************************************************************************)
(* The process-wide cap on mtr subprocesses: the semaphore behind          *)
(* _get_semaphore and the two coroutines that hold one of its slots while  *)
(* they drive an mtr process, run_mtr ("blocking" tasks) and               *)
(* _stream_mtr_raw_lines ("stream" tasks).                                 *)
(*                                                                         *)
(* One action is one uninterrupted stretch of a coroutine, from the await  *)
(* at which it was suspended to the next one.  at[t] names the await.      *)
(* Timers are untimed here: a timeout may fire whenever its await is       *)
(* pending (TracerouteService keeps the clock).                            *)
(***************************************************************************)
EXTENDS Naturals, FiniteSets, Sequences, SequencesExt

CONSTANTS
  Task,      \* coroutines that may run a trace
  Cap,       \* settings.traceroute_max_concurrency
  Bounded,   \* traceroute_concurrency_wait_seconds > 0
  Recancel   \* the cancel scope of a stream cancels again at the next await

ASSUME MtrSlotsAssumption ==
  /\ Cap \in Nat \ {0}
  /\ IsFiniteSet(Task)
  /\ Bounded \in BOOLEAN
  /\ Recancel \in BOOLEAN

VARIABLES
  mode,     \* which coroutine the task runs
  at,       \* the await at which it is suspended
  outcome,  \* what its last trace came to
  mtr,      \* its subprocess, as the event loop sees it
  value,    \* asyncio.Semaphore._value
  queue,    \* waiters whose future is pending, oldest first
  woken,    \* waiters whose future is done but whose task has not run yet
  lost      \* slots that were acquired and will never be released (history)

vars == <<mode, at, outcome, mtr, value, queue, woken, lost>>

Mode == {"blocking", "stream"}

\* "communicating" is run_mtr's; the rest after "spawning" are the stream's.
\* "reaping", "unwinding" and "finalising" are one await, the proc.wait() in
\* the stream's finally: reached after the timeout, while a CancelledError
\* unwinds, and from the finaliser that closes an abandoned generator.
Holding == {"spawning", "communicating", "reading", "sending", "closing",
            "exiting", "stderr", "reaping", "unwinding", "finalising"}
Place   == {"idle", "waiting"} \union Holding

Outcome == {"none", "ok", "busy", "failed", "unreachable", "cancelled", "abandoned"}
Proc    == {"none", "running", "exited", "killed"}

TypeOK == /\ mode \in [Task -> Mode]
          /\ at \in [Task -> Place]
          /\ outcome \in [Task -> Outcome]
          /\ mtr \in [Task -> Proc]
          /\ value \in 0..Cap
          /\ queue \in Seq(Task)
          /\ woken \subseteq Task
          /\ lost \in 0..Cap

\* Tasks to which the semaphore has given a slot.
Owners == {t \in Task : at[t] \in Holding} \union woken

\* mtr processes the host is running.
Processes == {t \in Task : mtr[t] = "running"}

-------------------------------------------------------------------------------
(* The semaphore.                                                          *)

Locked == value = 0 \/ queue # <<>> \/ woken # {}

\* release(): the first pending waiter gets the slot, or the counter goes up.
ReleaseTo(w) ==
  \/ /\ queue = <<>>
     /\ value' = value + 1
     /\ woken' = w
     /\ UNCHANGED queue
  \/ /\ queue # <<>>
     /\ woken' = w \union {Head(queue)}
     /\ queue' = Tail(queue)
     /\ UNCHANGED value

Release == ReleaseTo(woken)

Leave(t, result) == /\ at' = [at EXCEPT ![t] = "idle"]
                    /\ outcome' = [outcome EXCEPT ![t] = result]

\* Mutant of Finish: an except clause releases and the finally does it again.
FinishTwice(t, result) ==
  /\ Leave(t, result)
  /\ \/ queue = <<>> /\ value' = value + 2 /\ UNCHANGED <<queue, woken>>
     \/ queue # <<>> /\ value' = value + 1 /\ queue' = Tail(queue)
        /\ woken' = woken \union {Head(queue)}

\* The end of both try/finally blocks: the trace is over and its slot is free.
Finish(t, result) == Leave(t, result) /\ Release

-------------------------------------------------------------------------------
(* Both coroutines: acquire a slot, spawn mtr.                             *)

Begin(t, m) ==
  /\ at[t] = "idle" /\ mtr[t] = "none"
  /\ mode' = [mode EXCEPT ![t] = m]
  /\ outcome' = [outcome EXCEPT ![t] = "none"]
  /\ \/ /\ ~Locked
        /\ value' = value - 1
        /\ at' = [at EXCEPT ![t] = "spawning"]
        /\ UNCHANGED queue
     \/ /\ Locked
        /\ queue' = Append(queue, t)
        /\ at' = [at EXCEPT ![t] = "waiting"]
        /\ UNCHANGED value
  /\ UNCHANGED <<mtr, woken, lost>>

\* The woken waiter runs.  Newcomers queue behind it even when a slot is
\* free, so it passes the next free slot on.
Resume(t) ==
  /\ t \in woken
  /\ at' = [at EXCEPT ![t] = "spawning"]
  /\ \/ /\ value > 0 /\ queue # <<>>
        /\ value' = value - 1
        /\ woken' = (woken \ {t}) \union {Head(queue)}
        /\ queue' = Tail(queue)
     \/ /\ value = 0 \/ queue = <<>>
        /\ woken' = woken \ {t}
        /\ UNCHANGED <<value, queue>>
  /\ UNCHANGED <<mode, outcome, mtr, lost>>

\* acquire() is cancelled, by wait_for's timeout or with the whole task.  A
\* waiter that had already been given the slot hands it on.
CancelAcquire(t, result) ==
  /\ at[t] = "waiting"
  /\ Leave(t, result)
  /\ \/ /\ t \in woken
        /\ ReleaseTo(woken \ {t})
     \/ /\ t \notin woken
        /\ \E i \in DOMAIN queue : queue[i] = t /\ queue' = RemoveAt(queue, i)
        /\ UNCHANGED <<value, woken>>
  /\ UNCHANGED <<mode, mtr, lost>>

\* Mutant of GiveUp: acquire stands inside the try, and the finally releases a
\* slot the waiter never had.
GiveUpReleasing(t) ==
  /\ Bounded /\ at[t] = "waiting"
  /\ Leave(t, "busy")
  /\ queue' = SelectSeq(queue, LAMBDA u : u # t)
  /\ value' = value + 1
  /\ woken' = woken \ {t}
  /\ UNCHANGED <<mode, mtr, lost>>

\* Mutant of GiveUp: the wait ends although its slot has come, and forgets it.
GiveUpSwallows(t) ==
  /\ Bounded /\ at[t] = "waiting"
  /\ Leave(t, "busy")
  /\ queue' = SelectSeq(queue, LAMBDA u : u # t)
  /\ woken' = woken \ {t}
  /\ UNCHANGED <<mode, mtr, value, lost>>

\* Mutant of GiveUp: the streaming path awaits acquire() without wait_for.
GiveUpBlockingOnly(t) == Bounded /\ mode[t] = "blocking" /\ CancelAcquire(t, "busy")

\* TracerouteBusyError: only with a finite wait_for timeout.
GiveUp(t) == Bounded /\ CancelAcquire(t, "busy")

Spawned(t) ==
  /\ at[t] = "spawning"
  /\ mtr' = [mtr EXCEPT ![t] = "running"]
  /\ at' = [at EXCEPT ![t] = IF mode[t] = "blocking" THEN "communicating" ELSE "reading"]
  /\ UNCHANGED <<mode, outcome, value, queue, woken, lost>>

\* Mutant of SpawnFails: the spawn stands before the try, nothing is released.
SpawnFailsOutsideTry(t) ==
  /\ at[t] = "spawning"
  /\ Leave(t, "failed")
  /\ UNCHANGED <<mode, mtr, value, queue, woken, lost>>

\* FileNotFoundError or another OSError.
SpawnFails(t) ==
  /\ at[t] = "spawning"
  /\ Finish(t, "failed")
  /\ UNCHANGED <<mode, mtr, lost>>

\* mtr ends by itself and the loop learns its return code.
MtrExits(t) ==
  /\ mtr[t] = "running" /\ at[t] \in Holding
  /\ mtr' = [mtr EXCEPT ![t] = "exited"]
  /\ UNCHANGED <<mode, at, outcome, value, queue, woken, lost>>

-------------------------------------------------------------------------------
(* run_mtr: one await for the whole output.                                *)

\* Exit status and JSON decide; hop enrichment runs without an await.
Communicated(t) ==
  /\ at[t] = "communicating" /\ mtr[t] = "exited"
  /\ mtr' = [mtr EXCEPT ![t] = "none"]
  /\ \E result \in {"ok", "failed", "unreachable"} : Finish(t, result)
  /\ UNCHANGED <<mode, lost>>

\* wait_for gives up on communicate(); nothing kills the process.
CommunicateTimesOut(t) ==
  /\ at[t] = "communicating"
  /\ mtr' = [mtr EXCEPT ![t] = IF @ = "exited" THEN "none" ELSE @]
  /\ Finish(t, "failed")
  /\ UNCHANGED <<mode, lost>>

-------------------------------------------------------------------------------
(* _stream_mtr_raw_lines: lines are handed to the client as they arrive.   *)

\* A line that produces an event suspends the generator at its yield while
\* the response body is sent.
Line(t) ==
  /\ at[t] = "reading"
  /\ at' = [at EXCEPT ![t] = "sending"]
  /\ UNCHANGED <<mode, outcome, mtr, value, queue, woken, lost>>

Sent(t) ==
  /\ at[t] = "sending"
  /\ at' = [at EXCEPT ![t] = "reading"]
  /\ UNCHANGED <<mode, outcome, mtr, value, queue, woken, lost>>

Eof(t) ==
  /\ at[t] = "reading"
  /\ at' = [at EXCEPT ![t] = "exiting"]
  /\ UNCHANGED <<mode, outcome, mtr, value, queue, woken, lost>>

\* proc.wait() after end of file: return code 0 ends the trace, another one
\* is explained by stderr.
Exited(t) ==
  /\ at[t] = "exiting" /\ mtr[t] = "exited"
  /\ \/ /\ Finish(t, "ok")
        /\ mtr' = [mtr EXCEPT ![t] = "none"]
     \/ /\ at' = [at EXCEPT ![t] = "stderr"]
        /\ UNCHANGED <<outcome, mtr, value, queue, woken>>
  /\ UNCHANGED <<mode, lost>>

StderrRead(t) ==
  /\ at[t] = "stderr"
  /\ mtr' = [mtr EXCEPT ![t] = "none"]
  /\ \E result \in {"failed", "unreachable"} : Finish(t, result)
  /\ UNCHANGED <<mode, lost>>

\* Mutant of EnterFinally: the slot goes back and the process is left alone.
EnterFinallyNoKill(t, place, result) == Finish(t, result) /\ UNCHANGED mtr

\* The finally block: a live process is killed and awaited before the slot
\* goes back, a finished one needs no await.
EnterFinally(t, place, result) ==
  \/ /\ mtr[t] = "running"
     /\ mtr' = [mtr EXCEPT ![t] = "killed"]
     /\ at' = [at EXCEPT ![t] = place]
     /\ outcome' = [outcome EXCEPT ![t] = result]
     /\ UNCHANGED <<value, queue, woken>>
  \/ /\ mtr[t] = "exited"
     /\ mtr' = [mtr EXCEPT ![t] = "none"]
     /\ Finish(t, result)

Reaped(t) ==
  /\ at[t] \in {"reaping", "unwinding", "finalising"} /\ mtr[t] = "killed"
  /\ mtr' = [mtr EXCEPT ![t] = "none"]
  /\ Finish(t, outcome[t])
  /\ UNCHANGED <<mode, lost>>

\* Mutant of ReadTimesOut: the timeout covers readline() only.
ReadTimesOutInside(t) ==
  /\ at[t] = "reading"
  /\ EnterFinally(t, "reaping", "failed")
  /\ UNCHANGED <<mode, lost>>

\* asyncio.timeout cancels the consuming task wherever it is: inside the
\* generator it becomes a TracerouteError, in the consumer's send it ends the
\* response and leaves the generator suspended.
ReadTimesOut(t) ==
  /\ \/ at[t] = "reading" /\ EnterFinally(t, "reaping", "failed")
     \/ /\ at[t] = "sending"
        /\ at' = [at EXCEPT ![t] = "closing"]
        /\ outcome' = [outcome EXCEPT ![t] = "abandoned"]
        /\ UNCHANGED <<mtr, value, queue, woken>>
  /\ UNCHANGED <<mode, lost>>

\* The event loop's finaliser closes the abandoned generator.
Close(t) ==
  /\ at[t] = "closing"
  /\ EnterFinally(t, "finalising", outcome[t])
  /\ UNCHANGED <<mode, lost>>

\* The cancellation lands in the finally's own await: release() is skipped.
SlotLeaks(t) ==
  /\ Leave(t, "cancelled")
  /\ lost' = lost + 1
  /\ UNCHANGED <<mode, mtr, value, queue, woken>>

\* The client goes away: the response task is cancelled where it waits.
Disconnect(t) ==
  /\ mode[t] = "stream"
  /\ \/ CancelAcquire(t, "cancelled")
     \/ /\ at[t] = "spawning"
        /\ Finish(t, "cancelled")
        /\ UNCHANGED <<mode, mtr, lost>>
     \/ /\ at[t] \in {"reading", "exiting", "stderr"}
        /\ EnterFinally(t, "unwinding", "cancelled")
        /\ UNCHANGED <<mode, lost>>
     \/ /\ at[t] = "sending"
        /\ at' = [at EXCEPT ![t] = "closing"]
        /\ outcome' = [outcome EXCEPT ![t] = "cancelled"]
        /\ UNCHANGED <<mode, mtr, value, queue, woken, lost>>
     \/ at[t] = "reaping" /\ SlotLeaks(t)

\* The cancel scope delivers the cancellation again at the next await.
CancelledAgain(t) == Recancel /\ at[t] = "unwinding" /\ SlotLeaks(t)

-------------------------------------------------------------------------------
\* A process nobody waits for any more ends.
OrphanExits(t) ==
  /\ at[t] = "idle" /\ mtr[t] # "none"
  /\ mtr' = [mtr EXCEPT ![t] = "none"]
  /\ UNCHANGED <<mode, at, outcome, value, queue, woken, lost>>

Init ==
  /\ mode = [t \in Task |-> "blocking"]
  /\ at = [t \in Task |-> "idle"]
  /\ outcome = [t \in Task |-> "none"]
  /\ mtr = [t \in Task |-> "none"]
  /\ value = Cap
  /\ queue = <<>>
  /\ woken = {}
  /\ lost = 0

\* The container stops and starts: coroutines, children and semaphore go.
Restart ==
  /\ mode' = [t \in Task |-> "blocking"]
  /\ at' = [t \in Task |-> "idle"]
  /\ outcome' = [t \in Task |-> "none"]
  /\ mtr' = [t \in Task |-> "none"]
  /\ value' = Cap
  /\ queue' = <<>>
  /\ woken' = {}
  /\ lost' = 0

Next == \/ \E t \in Task :
             \/ \E m \in Mode : Begin(t, m)
             \/ Resume(t) \/ GiveUp(t)
             \/ Spawned(t) \/ SpawnFails(t) \/ MtrExits(t)
             \/ Communicated(t) \/ CommunicateTimesOut(t)
             \/ Line(t) \/ Sent(t) \/ Eof(t) \/ Exited(t) \/ StderrRead(t)
             \/ ReadTimesOut(t) \/ Close(t) \/ Reaped(t)
             \/ Disconnect(t) \/ CancelledAgain(t)
             \/ OrphanExits(t)
        \/ Restart

Spec == Init /\ [][Next]_vars

\* The loop runs ready tasks, its timers fire, mtr exits (-c bounds its
\* probes) and a killed process dies.  Requests, clients and restarts are
\* under no obligation.
Fairness ==
  \A t \in Task :
    /\ WF_vars(Resume(t))
    /\ WF_vars(GiveUp(t))
    /\ WF_vars(Spawned(t) \/ SpawnFails(t))
    /\ WF_vars(MtrExits(t))
    /\ WF_vars(Communicated(t) \/ CommunicateTimesOut(t))
    /\ WF_vars(ReadTimesOut(t))
    /\ WF_vars(Exited(t))
    /\ WF_vars(StderrRead(t))
    /\ WF_vars(Close(t))
    /\ WF_vars(Reaped(t))
    /\ WF_vars(OrphanExits(t))

FairSpec == Spec /\ Fairness

-------------------------------------------------------------------------------
(* Properties.                                                             *)

\* Every slot is in exactly one place: free in the counter, owned by one task
\* (running or just woken), or leaked.  A release on two paths, a missing one,
\* or a wake-up that also counts up would break the sum.
SlotAccounting == value + Cardinality(Owners) + lost = Cap

\* A free slot is never left beside a sleeping waiter unless a woken waiter
\* is about to run and pass it on: wait_for's cancellation of a waiter that
\* had just been granted the slot must not swallow the wake-up.
NoLostWakeup == value > 0 /\ queue # <<>> => woken # {}

\* A stream never gives its slot up while its mtr still runs: every way out
\* of _stream_mtr_raw_lines kills the process before release().
StreamProcessHeld ==
  \A t \in Task : mode[t] = "stream" /\ mtr[t] = "running" => at[t] \in Holding

\* The semaphore and its two users implement the abstract pool of Cap slots.
Pool == INSTANCE SlotPool WITH holders <- Owners
ImplementsSlotPool == Pool!PoolSpec

\* Everyone who asks for a slot is let in or turned away, however the holders
\* and their clients behave and however many slots have been lost.  True of a
\* positive wait (Bounded).  config.py:88-89 says of the setting: "Shorter
\* values fail-fast under heavy load"; the shortest it allows, 0, is passed on
\* as no timeout, and a waiter for a lost slot then waits for ever.
WaitersAnswered == \A t \in Task : at[t] = "waiting" ~> at[t] # "waiting"

\* Nobody keeps a slot for ever: a client that stops reading, a silent mtr and
\* an abandoned generator all end.
HoldersMoveOn == \A t \in Task : at[t] \in Holding ~> at[t] \notin Holding

\* services/traceroute.py:392-393: a stream's slot is released "when the
\* subprocess exits or the consumer stops iterating".
NoSlotLeaks == lost = 0

\* config.py:79: "Process-wide cap on concurrent mtr subprocesses".
MtrProcessesWithinCap == Cardinality(Processes) <= Cap
===============================================================================
