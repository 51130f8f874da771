------------------------------- MODULE SlotPool -------------------------------
(***************************************************************************)
(* What cptv promises about mtr: a fixed number of slots, each held by at  *)
(* most one trace at a time.  Queues, wake-ups, subprocesses and           *)
(* cancellation are left to MtrSlots, which implements this module.        *)
(*                                                                         *)
(* A slot can also be lost: its trace ended and nobody gave the slot back. *)
(***************************************************************************)
EXTENDS Naturals, FiniteSets

CONSTANTS Task,   \* traces that may ask for a slot
          Cap     \* settings.traceroute_max_concurrency

VARIABLES holders,  \* the tasks that own a slot
          lost      \* slots whose owner ended without releasing them

poolVars == <<holders, lost>>

PoolTypeOK == /\ holders \subseteq Task
              /\ lost \in Nat

PoolInit == holders = {} /\ lost = 0

\* A free slot goes to t.
Grant(t) == /\ t \notin holders
            /\ Cardinality(holders) + lost < Cap
            /\ holders' = holders \union {t}
            /\ UNCHANGED lost

\* t gives its slot back.
Return(t) == /\ t \in holders
             /\ holders' = holders \ {t}
             /\ UNCHANGED lost

\* t gives its slot back and the first waiter owns it in the same step.
HandOver(t, u) == /\ t \in holders
                  /\ u \notin holders
                  /\ holders' = (holders \ {t}) \union {u}
                  /\ UNCHANGED lost

\* t ends and its slot is never released.
Lose(t) == /\ t \in holders
           /\ holders' = holders \ {t}
           /\ lost' = lost + 1

\* The process restarts with a new semaphore.
Renew == holders' = {} /\ lost' = 0

PoolNext == \/ \E t \in Task : Grant(t) \/ Return(t) \/ Lose(t)
            \/ \E t, u \in Task : HandOver(t, u)
            \/ Renew

PoolSpec == PoolInit /\ [][PoolNext]_poolVars

\* The cap: never more than Cap slots are out, held or lost.
WithinCap == Cardinality(holders) + lost <= Cap
===============================================================================
