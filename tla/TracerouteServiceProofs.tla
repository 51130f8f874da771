------------------------ MODULE TracerouteServiceProofs ------------------------
(***************************************************************************)
(* Proofs about TracerouteService, for any requests, keys, slots and       *)
(* settings.                                                               *)
(***************************************************************************)
EXTENDS TracerouteService, FiniteSetTheorems, TLAPS

-------------------------------------------------------------------------------
(* What a step of one request is to its run.                               *)

Locked(k) == [lock EXCEPT ![k] = LockTtl]

\* The longest way from a send of the result to the DEL of the lock.
Ending == Delay + Stall + Delay

\* How long a run may last after the await it is in.
After(place) ==
  IF place = "starting" THEN Wait + SubTimeout + Ending
  ELSE IF place = "waiting" THEN SubTimeout + Ending
  ELSE IF place \in {"tracing", "resolving", "enriching"} THEN Ending
  ELSE IF place = "store" THEN Stall + Delay
  ELSE IF place \in {"telling", "closing"} THEN Delay
  ELSE 0

\* The other requests are where they were.
Others(t) ==
  \A u \in Task : u # t => /\ at'[u] = at[u] /\ left'[u] = left[u]
                           /\ reply'[u] = reply[u] /\ has'[u] = has[u]
                           /\ key'[u] = key[u] /\ late'[u] = late[u]
                           /\ (u \in struck' <=> u \in struck)

\* t looks a key up, or runs without Valkey.
Outside(t) ==
  /\ ~InRun(t) /\ ~InRun(t)'
  /\ at'[t] = "setlock" => at[t] = "exists" /\ lock[key[t]] = 0
  /\ at'[t] \in LookingUp => at[t] \in LookingUp
  /\ lock' = lock \/ (at[t] = "setlock" /\ lock' = Locked(key[t]))
  /\ UNCHANGED history

\* t takes the lock.
Starts(t) ==
  /\ up /\ at[t] = "setlock" /\ at'[t] \in {"starting", "waiting"}
  /\ lock' = Locked(key[t])
  /\ left'[t] + After(at'[t]) <= Longest
  /\ Begins(t)

\* t goes on with its run, and no timer of it is reset beyond what is planned.
GoesOn(t) ==
  /\ InRun(t) /\ InRun(t)' /\ at'[t] # "setlock" /\ at'[t] \notin LookingUp
  /\ lock' = lock
  /\ left'[t] + After(at'[t]) <= left[t] + After(at[t])
  /\ UNCHANGED history

\* t ends its run.
Ends(t) ==
  /\ InRun(t) /\ at'[t] \in {"idle", "finalising"}
  /\ \/ lock' = lock /\ (~up \/ reply'[t] = "gone")
     \/ lock' = Unlocked(key[t])
  /\ UNCHANGED history

\* The result of t can be read before its client is told or its lock is freed.
Results(t) ==
  /\ at'[t] = "closing" => reply'[t] = "gone"
  /\ cache' = cache \/ cache' = [cache EXCEPT ![key[t]] = CacheTtl]
  /\ at'[t] \in {"telling", "unlock"} => left'[t] = Budget(at'[t])
  /\ has'[t] /\ reply'[t] = "live" /\ at'[t] \in {"telling", "unlock"} =>
       \/ at[t] = "store" /\ (~up \/ cache'[key[t]] = CacheTtl)
       \/ /\ at[t] = "telling" /\ at'[t] = "unlock"
          /\ has[t] /\ reply[t] = "live"

\* Where a client is needed and where it is missing.
ClientOK(t) ==
  /\ at[t] = "ping" => ~has[t]
  /\ at[t] \in {"get", "ttl", "exists", "setlock", "store", "unlock"} => has[t]
  /\ at[t] = "resolving" => SlowDns
  /\ at[t] = "closing" => reply[t] = "gone"

Move(t) ==
  /\ Others(t) /\ key'[t] = key[t]
  /\ Outside(t) \/ Starts(t) \/ GoesOn(t) \/ Ends(t)
  /\ Results(t)
  /\ ClientOK(t)'

-------------------------------------------------------------------------------
(* Types.                                                                  *)

\* Everything that is counted is a number.
LEMMA Numbers ==
  /\ CacheTtl \in Nat /\ CacheTtl > 0 /\ LockTtl \in Nat /\ LockTtl > 0
  /\ SubTimeout \in Nat /\ Wait \in Nat /\ Delay \in Nat /\ Stall \in Nat
  /\ \A place \in Place : Budget(place) \in Nat /\ After(place) \in Nat
BY ServiceAssumption DEF Budget, After, Ending

\* Going to the next await of a coroutine.
LEMMA GotoEffect ==
  ASSUME TypeOK, NEW t \in Task, NEW place \in Place, Goto(t, place)
  PROVE  /\ at' \in [Task -> Place] /\ left' \in [Task -> Nat]
         /\ at'[t] = place /\ left'[t] = Budget(place)
         /\ \A u \in Task : u # t => at'[u] = at[u] /\ left'[u] = left[u]
<1>1. Budget(place) \in Nat
  BY Numbers
<1> QED BY <1>1 DEF TypeOK, Goto

\* Answering one request.
LEMMA AnswerEffect ==
  ASSUME TypeOK, NEW t \in Task, NEW r \in Reply, Answer(t, r)
  PROVE  /\ reply' \in [Task -> Reply] /\ reply'[t] = r
         /\ \A u \in Task : u # t => reply'[u] = reply[u]
BY DEF TypeOK, Answer

\* Setting and deleting a lock.
LEMMA LockEffect ==
  ASSUME TypeOK, NEW k \in Key
  PROVE  /\ Locked(k) \in [Key -> 0..LockTtl] /\ Unlocked(k) \in [Key -> 0..LockTtl]
         /\ Locked(k)[k] = LockTtl /\ Unlocked(k)[k] = 0
         /\ \A j \in Key : j # k => Locked(k)[j] = lock[j] /\ Unlocked(k)[j] = lock[j]
         /\ [cache EXCEPT ![k] = CacheTtl] \in [Key -> 0..CacheTtl]
         /\ [cache EXCEPT ![k] = CacheTtl][k] = CacheTtl
         /\ \A j \in Key : j # k => [cache EXCEPT ![k] = CacheTtl][j] = cache[j]
BY Numbers DEF TypeOK, Locked, Unlocked

\* A step on the pool of slots leaves it a pool.
LEMMA PoolType ==
  ASSUME Slots!PoolTypeOK, NEW t \in Task,
         \/ Slots!Grant(t) \/ Slots!Return(t) \/ Slots!Lose(t)
         \/ Slots!Renew \/ UNCHANGED poolVars
  PROVE  Slots!PoolTypeOK'
BY DEF Slots!PoolTypeOK, Slots!Grant, Slots!Return, Slots!Lose, Slots!Renew, poolVars

-------------------------------------------------------------------------------
(* One step of one request.                                                *)

\* Looking a key up, and taking its lock.
LEMMA LookUpMoves ==
  ASSUME TypeOK, NEW t \in Task, ClientOK(t),
         \/ Ping(t) \/ Get(t) \/ Ttl(t) \/ Exists(t) \/ SetLock(t)
  PROVE  TypeOK' /\ Move(t)
<1> USE DEF Place, LookingUp, Resolving, Reply, Runs, End, BeginTrace
<1>1. CASE Ping(t)
  <2>1. TypeOK'
    <3>1. \E place \in Place : Goto(t, place)
      BY <1>1 DEF Ping
    <3>2. at' \in [Task -> Place] /\ left' \in [Task -> Nat]
      BY <3>1, GotoEffect
    <3>3. has' \in [Task -> BOOLEAN] /\ pool' \in BOOLEAN
      BY <1>1 DEF Ping, TypeOK
    <3>4. UNCHANGED <<mode, key, reply, up, cache, lock, poolVars, history>>
      BY <1>1 DEF Ping
    <3> QED BY <3>2, <3>3, <3>4, PoolType DEF TypeOK, history
  <2>2. Move(t)
    BY <1>1, GotoEffect, AnswerEffect, LockEffect, Numbers
    DEF Ping, TypeOK, Move, Others, Outside, Starts, GoesOn, Ends, Results, ClientOK,
        InRun, Budget, After, Ending, Locked, reqVars, history
  <2> QED BY <2>1, <2>2
<1>2. CASE Get(t)
  <2>1. TypeOK'
    BY <1>2, GotoEffect, AnswerEffect, LockEffect, PoolType
    DEF Get, TypeOK, reqVars, history, poolVars, Locked
  <2>2. Move(t)
    BY <1>2, GotoEffect, AnswerEffect, LockEffect, Numbers
    DEF Get, TypeOK, Move, Others, Outside, Starts, GoesOn, Ends, Results, ClientOK,
        InRun, Budget, After, Ending, Locked, reqVars, history
  <2> QED BY <2>1, <2>2
<1>3. CASE Ttl(t)
  <2>1. TypeOK'
    BY <1>3, GotoEffect, AnswerEffect, LockEffect, PoolType
    DEF Ttl, TypeOK, reqVars, history, poolVars, Locked
  <2>2. Move(t)
    BY <1>3, GotoEffect, AnswerEffect, LockEffect, Numbers
    DEF Ttl, TypeOK, Move, Others, Outside, Starts, GoesOn, Ends, Results, ClientOK,
        InRun, Budget, After, Ending, Locked, reqVars, history
  <2> QED BY <2>1, <2>2
<1>4. CASE Exists(t)
  <2>1. TypeOK'
    BY <1>4, GotoEffect, AnswerEffect, LockEffect, PoolType
    DEF Exists, TypeOK, reqVars, history, poolVars, Locked
  <2>2. Move(t)
    BY <1>4, GotoEffect, AnswerEffect, LockEffect, Numbers
    DEF Exists, TypeOK, Move, Others, Outside, Starts, GoesOn, Ends, Results, ClientOK,
        InRun, Budget, After, Ending, Locked, reqVars, history
  <2> QED BY <2>1, <2>2
<1>5. CASE SetLock(t)
  <2>1. /\ up /\ at[t] = "setlock" /\ has[t]
        /\ UNCHANGED <<mode, key, has, reply, pool, up, cache, poolVars>>
        /\ Begins(t) /\ lock' = Locked(key[t]) /\ key[t] \in Key
    BY <1>5 DEF SetLock, ClientOK, Locked, TypeOK
  <2>2. PICK p \in {"starting", "waiting"} : Goto(t, p)
    BY <1>5 DEF SetLock
  <2>3. /\ late' \in [Task -> Nat] /\ slipped' \in [Key -> BOOLEAN]
        /\ struck' \in SUBSET Task
        /\ \A u \in Task : u # t => late'[u] = late[u] /\ (u \in struck' <=> u \in struck)
    BY <2>1 DEF Begins, TypeOK, Running
  <2>4. TypeOK'
    BY <2>1, <2>2, <2>3, GotoEffect, LockEffect, PoolType DEF TypeOK
  <2>5. Others(t) /\ Results(t) /\ ClientOK(t)'
    BY <2>1, <2>2, <2>3, GotoEffect DEF Others, Results, ClientOK
  <2>6. Budget(p) + After(p) <= Longest
    BY Numbers DEF Budget, After, Ending, Longest
  <2> QED BY <2>1, <2>2, <2>4, <2>5, <2>6, GotoEffect DEF Move, Starts
<1> QED BY <1>1, <1>2, <1>3, <1>4, <1>5

\* Waiting for a slot and tracing.
LEMMA TraceMoves ==
  ASSUME TypeOK, NEW t \in Task, ClientOK(t),
         \/ StartedSent(t) \/ Acquire(t) \/ Busy(t) \/ Resolve(t) \/ Resolved(t)
         \/ Traced(t) \/ Enriched(t) \/ TraceFails(t) \/ TraceTimesOut(t)
  PROVE  TypeOK' /\ Move(t)
<1> USE DEF Place, LookingUp, Resolving, Reply, Runs, End, AfterTrace
<1>1. CASE StartedSent(t)
  <2>1. TypeOK'
    BY <1>1, GotoEffect, AnswerEffect, LockEffect, PoolType
    DEF StartedSent, TypeOK, reqVars, history, poolVars, Locked
  <2>2. Move(t)
    BY <1>1, GotoEffect, AnswerEffect, LockEffect, Numbers
    DEF StartedSent, TypeOK, Move, Others, Outside, Starts, GoesOn, Ends, Results,
        ClientOK, InRun, Budget, After, Ending, Locked, reqVars, history
  <2> QED BY <2>1, <2>2
<1>2. CASE Acquire(t)
  <2>1. TypeOK'
    BY <1>2, GotoEffect, AnswerEffect, LockEffect, PoolType
    DEF Acquire, TypeOK, reqVars, history, poolVars, Locked
  <2>2. Move(t)
    BY <1>2, GotoEffect, AnswerEffect, LockEffect, Numbers
    DEF Acquire, TypeOK, Move, Others, Outside, Starts, GoesOn, Ends, Results, ClientOK,
        InRun, Budget, After, Ending, Locked, reqVars, history
  <2> QED BY <2>1, <2>2
<1>3. CASE Busy(t)
  <2>1. TypeOK'
    BY <1>3, GotoEffect, AnswerEffect, LockEffect, PoolType
    DEF Busy, TypeOK, reqVars, history, poolVars, Locked
  <2>2. Move(t)
    BY <1>3, GotoEffect, AnswerEffect, LockEffect, Numbers
    DEF Busy, TypeOK, Move, Others, Outside, Starts, GoesOn, Ends, Results, ClientOK,
        InRun, Budget, After, Ending, Locked, reqVars, history
  <2> QED BY <2>1, <2>2
<1>4. CASE Resolve(t)
  <2>1. TypeOK'
    BY <1>4, GotoEffect, AnswerEffect, LockEffect, PoolType
    DEF Resolve, TypeOK, reqVars, history, poolVars, Locked
  <2>2. Move(t)
    BY <1>4, GotoEffect, AnswerEffect, LockEffect, Numbers
    DEF Resolve, TypeOK, Move, Others, Outside, Starts, GoesOn, Ends, Results, ClientOK,
        InRun, Budget, After, Ending, Locked, reqVars, history
  <2> QED BY <2>1, <2>2
<1>5. CASE Resolved(t)
  <2>1. TypeOK'
    BY <1>5, GotoEffect, AnswerEffect, LockEffect, PoolType
    DEF Resolved, TypeOK, reqVars, history, poolVars, Locked
  <2>2. Move(t)
    BY <1>5, GotoEffect, AnswerEffect, LockEffect, Numbers
    DEF Resolved, TypeOK, Move, Others, Outside, Starts, GoesOn, Ends, Results, ClientOK,
        InRun, Budget, After, Ending, Locked, reqVars, history
  <2> QED BY <2>1, <2>2
<1>6. CASE Traced(t)
  <2>1. TypeOK'
    BY <1>6, GotoEffect, AnswerEffect, LockEffect, PoolType
    DEF Traced, TypeOK, reqVars, history, poolVars, Locked
  <2>2. Move(t)
    BY <1>6, GotoEffect, AnswerEffect, LockEffect, Numbers
    DEF Traced, TypeOK, Move, Others, Outside, Starts, GoesOn, Ends, Results, ClientOK,
        InRun, Budget, After, Ending, Locked, reqVars, history
  <2> QED BY <2>1, <2>2
<1>7. CASE Enriched(t)
  <2>1. TypeOK'
    BY <1>7, GotoEffect, AnswerEffect, LockEffect, PoolType
    DEF Enriched, TypeOK, reqVars, history, poolVars, Locked
  <2>2. Move(t)
    BY <1>7, GotoEffect, AnswerEffect, LockEffect, Numbers
    DEF Enriched, TypeOK, Move, Others, Outside, Starts, GoesOn, Ends, Results, ClientOK,
        InRun, Budget, After, Ending, Locked, reqVars, history
  <2> QED BY <2>1, <2>2
<1>8. CASE TraceFails(t)
  <2>1. TypeOK'
    BY <1>8, GotoEffect, AnswerEffect, LockEffect, PoolType
    DEF TraceFails, TypeOK, reqVars, history, poolVars, Locked
  <2>2. Move(t)
    BY <1>8, GotoEffect, AnswerEffect, LockEffect, Numbers
    DEF TraceFails, TypeOK, Move, Others, Outside, Starts, GoesOn, Ends, Results,
        ClientOK, InRun, Budget, After, Ending, Locked, reqVars, history
  <2> QED BY <2>1, <2>2
<1>9. CASE TraceTimesOut(t)
  <2>1. TypeOK'
    BY <1>9, GotoEffect, AnswerEffect, LockEffect, PoolType
    DEF TraceTimesOut, TypeOK, reqVars, history, poolVars, Locked
  <2>2. Move(t)
    BY <1>9, GotoEffect, AnswerEffect, LockEffect, Numbers
    DEF TraceTimesOut, TypeOK, Move, Others, Outside, Starts, GoesOn, Ends, Results,
        ClientOK, InRun, Budget, After, Ending, Locked, reqVars, history
  <2> QED BY <2>1, <2>2
<1> QED BY <1>1, <1>2, <1>3, <1>4, <1>5, <1>6, <1>7, <1>8, <1>9

\* Storing the result, telling the client, freeing the key.
LEMMA EndMoves ==
  ASSUME TypeOK, NEW t \in Task, ClientOK(t),
         \/ Store(t) \/ Told(t) \/ Unlock(t) \/ CommandFails(t) \/ CloseOuter(t)
         \/ CloseInner(t)
  PROVE  TypeOK' /\ Move(t)
<1> USE DEF Place, LookingUp, Resolving, Reply, Runs, End
<1>1. CASE Store(t)
  <2>1. /\ key[t] \in Key /\ at[t] = "store" /\ has'[t] = has[t] /\ reply' = reply
        /\ left[t] \in Nat
    BY <1>1 DEF Store, TypeOK, reqVars, history
  <2>2. PICK p \in {"telling", "unlock"} : Goto(t, p) /\ (p = "unlock" => mode[t] # "stream")
    BY <1>1 DEF Store
  <2>3. at'[t] = p /\ left'[t] = Budget(p) /\ \A u \in Task : u # t => at'[u] = at[u] /\ left'[u] = left[u]
    BY <2>2, GotoEffect
  <2>4. cache' = [cache EXCEPT ![key[t]] = CacheTtl] /\ cache'[key[t]] = CacheTtl
    BY <1>1, <2>1, LockEffect DEF Store
  <2>5. TypeOK'
    BY <1>1, <2>1, <2>2, <2>4, GotoEffect, LockEffect, PoolType
    DEF Store, TypeOK, reqVars, history, poolVars
  <2>6. Results(t)
    BY <2>1, <2>3, <2>4 DEF Results
  <2>7. Others(t) /\ key'[t] = key[t] /\ lock' = lock
    BY <1>1, <2>1, <2>3 DEF Store, Others, reqVars, history
  <2>8. ClientOK(t)'
    BY <1>1, <2>1, <2>2, <2>3 DEF ClientOK
  <2> QED
    BY <1>1, <2>1, <2>3, <2>5, <2>6, <2>7, <2>8, Numbers
    DEF Store, Move, Outside, GoesOn, ClientOK, InRun, Budget, After, reqVars, history
<1>2. CASE Told(t)
  <2>1. TypeOK'
    BY <1>2, GotoEffect, AnswerEffect, LockEffect, PoolType
    DEF Told, TypeOK, reqVars, history, poolVars, Locked
  <2>2. Move(t)
    BY <1>2, GotoEffect, AnswerEffect, LockEffect, Numbers
    DEF Told, TypeOK, Move, Others, Outside, Starts, GoesOn, Ends, Results, ClientOK,
        InRun, Budget, After, Ending, Locked, reqVars, history
  <2> QED BY <2>1, <2>2
<1>3. CASE Unlock(t)
  <2>1. key[t] \in Key /\ reply[t] \in Reply /\ at[t] = "unlock" /\ has'[t] = has[t]
    BY <1>3 DEF Unlock, TypeOK, reqVars, history
  <2>2. Goto(t, "idle") /\ Answer(t, reply[t])
    BY <1>3 DEF Unlock
  <2>3. /\ at' \in [Task -> Place] /\ left' \in [Task -> Nat]
        /\ at'[t] = "idle" /\ left'[t] = Budget("idle")
        /\ \A u \in Task : u # t => at'[u] = at[u] /\ left'[u] = left[u]
    BY <2>2, GotoEffect
  <2>4. /\ reply' \in [Task -> Reply] /\ reply'[t] = reply[t]
        /\ \A u \in Task : u # t => reply'[u] = reply[u]
    BY <2>1, <2>2, AnswerEffect
  <2>5. TypeOK'
    BY <1>3, <2>1, <2>3, <2>4, LockEffect, PoolType DEF Unlock, TypeOK, reqVars, history, poolVars
  <2> QED
    BY <1>3, <2>1, <2>3, <2>4, <2>5
    DEF Unlock, Move, Others, Ends, Results, ClientOK, InRun, reqVars, history
<1>4. CASE CommandFails(t)
  <2>1. reply[t] \in Reply /\ left[t] \in Nat
    BY DEF TypeOK
  <2>2. CASE at[t] \in {"get", "ttl", "exists", "setlock"}
    BY <1>4, <2>2, GotoEffect, AnswerEffect, PoolType
    DEF CommandFails, Move, Others, Outside, Results, ClientOK, InRun, TypeOK, reqVars, history,
        poolVars
  <2>3. CASE at[t] = "store"
    <3>1. \/ Goto(t, "telling") /\ UNCHANGED reply
          \/ Goto(t, "idle") /\ Answer(t, "crash")
      BY <1>4, <2>3 DEF CommandFails
    <3>2. TypeOK'
      BY <1>4, <3>1, GotoEffect, AnswerEffect, PoolType DEF CommandFails, TypeOK, reqVars, history, poolVars
    <3> QED
      BY <1>4, <2>1, <2>3, <3>1, <3>2, GotoEffect, AnswerEffect, Numbers
      DEF CommandFails, Move, Others, Outside, GoesOn, Ends, Results, ClientOK, InRun,
          Budget, After, reqVars, history
  <2>4. CASE at[t] = "unlock"
    <3>1. PICK r \in Reply : Goto(t, "idle") /\ Answer(t, r)
      BY <1>4, <2>1, <2>4 DEF CommandFails
    <3>2. TypeOK'
      BY <1>4, <3>1, GotoEffect, AnswerEffect, PoolType DEF CommandFails, TypeOK, reqVars, history, poolVars
    <3> QED
      BY <1>4, <2>4, <3>1, <3>2, GotoEffect, AnswerEffect
      DEF CommandFails, Move, Others, Ends, Results, ClientOK, InRun, reqVars, history
  <2> QED BY <1>4, <2>2, <2>3, <2>4 DEF CommandFails
<1>5. CASE CloseOuter(t)
  <2>1. TypeOK'
    BY <1>5, GotoEffect, AnswerEffect, LockEffect, PoolType
    DEF CloseOuter, TypeOK, reqVars, history, poolVars, Locked
  <2>2. Move(t)
    BY <1>5, GotoEffect, AnswerEffect, LockEffect, Numbers
    DEF CloseOuter, TypeOK, Move, Others, Outside, Starts, GoesOn, Ends, Results,
        ClientOK, InRun, Budget, After, Ending, Locked, reqVars, history
  <2> QED BY <2>1, <2>2
<1>6. CASE CloseInner(t)
  <2>1. TypeOK'
    BY <1>6, GotoEffect, AnswerEffect, LockEffect, PoolType
    DEF CloseInner, TypeOK, reqVars, history, poolVars, Locked
  <2>2. Move(t)
    BY <1>6, GotoEffect, AnswerEffect, LockEffect, Numbers
    DEF CloseInner, TypeOK, Move, Others, Outside, Starts, GoesOn, Ends, Results,
        ClientOK, InRun, Budget, After, Ending, Locked, reqVars, history
  <2> QED BY <2>1, <2>2
<1> QED BY <1>1, <1>2, <1>3, <1>4, <1>5, <1>6


\* A client goes away while its key is looked up or before its trace begins.
LEMMA DisconnectEarlyMoves ==
  ASSUME TypeOK, NEW t \in Task, ClientOK(t), UNCHANGED <<reqVars, pool, up>>,
         DisconnectEarly(t)
  PROVE  TypeOK' /\ Move(t)
<1> USE DEF Place, LookingUp, Reply, End
<1>1. /\ Goto(t, "idle") /\ Answer(t, "gone") /\ UNCHANGED <<cache, poolVars>>
      /\ at[t] \in LookingUp \union {"starting"}
      /\ key[t] \in Key
  BY DEF DisconnectEarly, TypeOK
<1>2. lock' = lock \/ (at[t] = "setlock" /\ lock' = Locked(key[t]))
  BY <1>1 DEF DisconnectEarly, MaybeSet, Locked, TypeOK
<1>3. TypeOK'
  BY <1>1, <1>2, GotoEffect, AnswerEffect, LockEffect, PoolType DEF TypeOK, reqVars, history, poolVars
<1> QED
  BY <1>1, <1>2, <1>3, GotoEffect, AnswerEffect
  DEF Move, Others, Outside, Ends, Results, ClientOK, InRun, reqVars, history

\* The cleanup of a cancelled stream.
LEMMA UnwindEffect ==
  ASSUME TypeOK, NEW t \in Task, Unwind(t)
  PROVE  /\ Answer(t, "gone") /\ lock' \in [Key -> 0..LockTtl]
         /\ \/ Goto(t, "idle") /\ (lock' = lock \/ (has[t] /\ lock' = Unlocked(key[t])))
            \/ has[t] /\ Goto(t, "unlock") /\ lock' = lock
<1>1. key[t] \in Key /\ lock \in [Key -> 0..LockTtl]
  BY DEF TypeOK
<1>2. Unlocked(key[t]) \in [Key -> 0..LockTtl]
  BY <1>1, LockEffect
<1>3. CASE ~has[t] /\ End(t, "gone") /\ UNCHANGED lock
  BY <1>1, <1>3 DEF End
<1>4. CASE has[t] /\ Goto(t, "unlock") /\ Answer(t, "gone") /\ UNCHANGED lock
  BY <1>1, <1>4
<1>5. CASE has[t] /\ End(t, "gone") /\ MaybeDel(key[t])
  BY <1>1, <1>2, <1>5 DEF End, MaybeDel
<1> QED BY <1>3, <1>4, <1>5 DEF Unwind

\* A client goes away while its trace waits or runs, or after it.
LEMMA DisconnectLateMoves ==
  ASSUME TypeOK, NEW t \in Task, ClientOK(t), UNCHANGED <<reqVars, pool, up>>,
         DisconnectTracing(t) \/ DisconnectLate(t)
  PROVE  TypeOK' /\ Move(t)
<1> USE DEF Place, LookingUp, Resolving, Reply, End
<1>1. key[t] \in Key /\ lock \in [Key -> 0..LockTtl]
  BY DEF TypeOK
<1>2. at[t] \in {"waiting", "tracing", "store", "telling", "unlock"}
  BY DEF DisconnectTracing, DisconnectLate
<1>3. Answer(t, "gone") /\ lock' \in [Key -> 0..LockTtl]
  BY <1>1, UnwindEffect, LockEffect DEF DisconnectTracing, DisconnectLate, MaybeDel
<1>4. \/ Goto(t, "idle") /\ (lock' = lock \/ (has[t] /\ lock' = Unlocked(key[t])))
      \/ has[t] /\ at[t] # "unlock" /\ Goto(t, "unlock") /\ lock' = lock
      \/ at[t] = "tracing" /\ Goto(t, "closing") /\ lock' = lock
  <2>1. CASE Unwind(t) /\ at[t] # "unlock"
    BY <2>1, UnwindEffect
  <2>2. CASE DisconnectTracing(t)
    BY <2>1, <2>2 DEF DisconnectTracing
  <2>3. CASE at[t] = "telling" /\ Goto(t, IF has[t] THEN "unlock" ELSE "idle") /\ UNCHANGED lock
    BY <2>3
  <2>4. CASE at[t] = "unlock" /\ End(t, "gone") /\ MaybeDel(key[t])
    BY <2>4 DEF MaybeDel, ClientOK
  <2> QED BY <2>1, <2>2, <2>3, <2>4 DEF DisconnectLate
<1>5. cache' = cache \/ cache' = [cache EXCEPT ![key[t]] = CacheTtl]
  <2>1. cache = [cache EXCEPT ![key[t]] = cache[key[t]]]
    BY <1>1 DEF TypeOK
  <2> QED BY <2>1 DEF DisconnectTracing, DisconnectLate
<1>6. Slots!PoolTypeOK'
  BY PoolType DEF DisconnectTracing, DisconnectLate, TypeOK
<1>7. TypeOK'
  BY <1>1, <1>3, <1>4, <1>5, <1>6, GotoEffect, AnswerEffect, LockEffect DEF TypeOK, reqVars, history
<1>8. /\ Results(t) /\ Others(t) /\ key'[t] = key[t] /\ has'[t] = has[t] /\ reply'[t] = "gone"
      /\ UNCHANGED history /\ left[t] \in Nat
  BY <1>3, <1>4, <1>5, GotoEffect, AnswerEffect DEF Results, Others, TypeOK, reqVars, history
<1>9. CASE Goto(t, "idle") /\ (lock' = lock \/ (has[t] /\ lock' = Unlocked(key[t])))
  BY <1>2, <1>7, <1>8, <1>9, GotoEffect DEF Move, Outside, Ends, ClientOK, InRun
<1>10. CASE has[t] /\ at[t] # "unlock" /\ Goto(t, "unlock") /\ lock' = lock
  BY <1>2, <1>7, <1>8, <1>10, GotoEffect, Numbers
  DEF Move, GoesOn, ClientOK, InRun, Budget, After, Ending
<1>11. CASE at[t] = "tracing" /\ Goto(t, "closing") /\ lock' = lock
  BY <1>7, <1>8, <1>11, GotoEffect, Numbers
  DEF Move, Outside, GoesOn, ClientOK, InRun, Budget, After, Ending
<1> QED BY <1>4, <1>9, <1>10, <1>11

\* Every step of a request is a move of it.
LEMMA StepMoves ==
  ASSUME TypeOK, NEW t \in Task, ClientOK(t), Step(t) \/ Disconnect(t)
  PROVE  TypeOK' /\ Move(t)
<1>1. CASE Step(t)
  BY <1>1, LookUpMoves, TraceMoves, EndMoves DEF Step, Served, Proceeds
<1>2. CASE Disconnect(t)
  BY <1>2, DisconnectEarlyMoves, DisconnectLateMoves DEF Disconnect
<1> QED BY <1>1, <1>2

-------------------------------------------------------------------------------
(* The inductive invariant of every configuration.                         *)

Clients == \A t \in Task : ClientOK(t)

Basic == TypeOK /\ Clients

\* A new request.
Arrives(t) == \E m \in Modes, k \in Key : Arrive(t, m, k)

\* What a new request changes.
LEMMA ArriveEffect ==
  ASSUME Basic, NEW t \in Task, Arrives(t)
  PROVE  /\ TypeOK' /\ Clients'
         /\ at[t] = "idle" /\ ~InRun(t)' /\ at'[t] \in {"ping", "get"}
         /\ left'[t] = Delay
         /\ UNCHANGED <<up, cache, lock, poolVars>>
         /\ \A u \in Task : u # t => /\ at'[u] = at[u] /\ left'[u] = left[u]
                                     /\ reply'[u] = reply[u] /\ has'[u] = has[u]
                                     /\ key'[u] = key[u]
         /\ UNCHANGED history
<1>1. PICK m \in Modes, k \in Key : Arrive(t, m, k)
  BY DEF Arrives
<1>2. PICK p \in {"ping", "get"} : Goto(t, p) /\ (p = "ping" <=> ~pool)
  BY <1>1 DEF Arrive
<1>3. /\ at' \in [Task -> Place] /\ left' \in [Task -> Nat]
      /\ at'[t] = p /\ left'[t] = Delay
      /\ \A u \in Task : u # t => at'[u] = at[u] /\ left'[u] = left[u]
  BY <1>2, GotoEffect DEF Basic, Place, LookingUp, Budget
<1>4. /\ reply' \in [Task -> Reply] /\ \A u \in Task : u # t => reply'[u] = reply[u]
  BY <1>1, AnswerEffect DEF Basic, Arrive, Reply
<1>5. /\ has' \in [Task -> BOOLEAN] /\ has'[t] = pool
      /\ key' \in [Task -> Key] /\ key'[t] = k
      /\ mode' \in [Task -> {"blocking", "stream"}]
      /\ \A u \in Task : u # t => has'[u] = has[u] /\ key'[u] = key[u]
  BY <1>1, ServiceAssumption DEF Basic, Arrive, TypeOK
<1>6. pool' = TRUE /\ at[t] = "idle" /\ UNCHANGED <<up, cache, lock, poolVars, history>>
  BY <1>1 DEF Arrive
<1>7. TypeOK'
  BY <1>3, <1>4, <1>5, <1>6 DEF Basic, TypeOK, Slots!PoolTypeOK, poolVars, history
<1>8. Clients'
  BY <1>2, <1>3, <1>4, <1>5 DEF Basic, Clients, ClientOK
<1> QED BY <1>2, <1>3, <1>4, <1>5, <1>6, <1>7, <1>8 DEF InRun, history

\* Valkey, the process and the clock leave the requests' clients alone.
LEMMA EnvironmentKeeps ==
  ASSUME Basic, ValkeyStops \/ ValkeyStarts \/ Restart \/ Tick
  PROVE  Basic'
<1>1. CASE ValkeyStops
  <2>1. [k \in Key |-> 0] \in [Key -> 0..CacheTtl] /\ [k \in Key |-> 0] \in [Key -> 0..LockTtl]
    BY Numbers
  <2>2. TypeOK'
    <3>1. slipped' \in [Key -> BOOLEAN] /\ late' \in [Task -> Nat] /\ struck' \in SUBSET Task
      BY <1>1 DEF Basic, ValkeyStops, TypeOK, Running
    <3>2. /\ cache' \in [Key -> 0..CacheTtl] /\ lock' \in [Key -> 0..LockTtl]
          /\ up' \in BOOLEAN /\ UNCHANGED <<mode, key, has, at, left, reply, pool, poolVars>>
      BY <1>1, <2>1 DEF Basic, ValkeyStops, TypeOK
    <3> QED BY <3>1, <3>2 DEF Basic, TypeOK, Slots!PoolTypeOK, poolVars
  <2>3. Clients'
    BY <1>1 DEF Basic, ValkeyStops, Clients, ClientOK, reqVars, history
  <2> QED BY <2>2, <2>3 DEF Basic
<1>2. CASE ValkeyStarts
  BY <1>2 DEF Basic, ValkeyStarts, TypeOK, Clients, ClientOK, Slots!PoolTypeOK, reqVars, history, poolVars
<1>3. CASE Restart
  <2>1. at' \in [Task -> Place] /\ left' \in [Task -> Nat] /\ reply' \in [Task -> Reply]
    BY <1>3 DEF Basic, Restart, TypeOK, Place, Reply
  <2>2. Slots!PoolTypeOK'
    BY <1>3 DEF Restart, Slots!PoolTypeOK, Slots!Renew
  <2> QED BY <1>3, <2>1, <2>2 DEF Basic, Restart, TypeOK, Clients, ClientOK, reqVars, history
<1>4. CASE Tick
  <2>1. cache' \in [Key -> 0..CacheTtl] /\ lock' \in [Key -> 0..LockTtl]
    BY <1>4, Numbers DEF Basic, Tick, TypeOK
  <2>2. left' \in [Task -> Nat]
    BY <1>4 DEF Basic, Tick, TypeOK
  <2>3. TypeOK'
    <3>1. late' \in [Task -> Nat] /\ slipped' \in [Key -> BOOLEAN] /\ struck' \in SUBSET Task
      BY <1>4 DEF Basic, Tick, Lapse, TypeOK, Running
    <3> QED BY <1>4, <2>1, <2>2, <3>1 DEF Basic, Tick, TypeOK, Slots!PoolTypeOK, poolVars
  <2>4. Clients'
    BY <1>4 DEF Basic, Tick, Clients, ClientOK, reqVars, history
  <2> QED BY <2>3, <2>4 DEF Basic
<1> QED BY <1>1, <1>2, <1>3, <1>4

\* Every step is one of these.
LEMMA Steps ==
  ASSUME [Next]_vars, ~UNCHANGED vars
  PROVE  \/ \E t \in Task : Arrives(t) \/ Step(t) \/ Disconnect(t)
         \/ ValkeyStops \/ ValkeyStarts \/ Restart \/ Tick
BY DEF Next, Arrives

\* The basic invariant is inductive.
LEMMA BasicStep == Basic /\ [Next]_vars => Basic'
<1> SUFFICES ASSUME Basic, [Next]_vars PROVE Basic'
  OBVIOUS
<1>1. CASE UNCHANGED vars
  BY <1>1 DEF Basic, TypeOK, Clients, ClientOK, Slots!PoolTypeOK, vars, history
<1>2. ASSUME NEW t \in Task, Arrives(t) PROVE Basic'
  BY <1>2, ArriveEffect DEF Basic
<1>3. ASSUME NEW t \in Task, Step(t) \/ Disconnect(t) PROVE Basic'
  <2>1. TypeOK' /\ Move(t)
    BY <1>3, StepMoves DEF Basic, Clients
  <2> QED BY <2>1 DEF Basic, Clients, Move, Others, ClientOK
<1>4. CASE ValkeyStops \/ ValkeyStarts \/ Restart \/ Tick
  BY <1>4, EnvironmentKeeps
<1> QED BY <1>1, <1>2, <1>3, <1>4, Steps

\* It holds at the start.
LEMMA BasicInit == Init => Basic
<1> SUFFICES ASSUME Init PROVE Basic
  OBVIOUS
<1>1. /\ mode \in [Task -> {"blocking", "stream"}] /\ at \in [Task -> Place]
      /\ reply \in [Task -> Reply]
  BY DEF Init, Place, Reply
<1>2. /\ key \in [Task -> Key] /\ left \in [Task -> Nat] /\ has \in [Task -> BOOLEAN]
      /\ pool \in BOOLEAN /\ up \in BOOLEAN
      /\ late \in [Task -> Nat] /\ slipped \in [Key -> BOOLEAN] /\ struck \in SUBSET Task
  BY DEF Init
<1>3. cache \in [Key -> 0..CacheTtl] /\ lock \in [Key -> 0..LockTtl]
  BY Numbers DEF Init
<1>4. Slots!PoolTypeOK
  BY DEF Init, Slots!PoolTypeOK, Slots!PoolInit
<1>5. Clients
  BY DEF Init, Clients, ClientOK
<1> QED BY <1>1, <1>2, <1>3, <1>4, <1>5 DEF Basic, TypeOK

\* The basic invariant holds throughout.
THEOREM BasicInvariance == Spec => []Basic
<1> QED BY BasicInit, BasicStep, PTL DEF Spec

\* Type correctness of run_mtr_cached and stream_mtr_cached: the lives of the
\* result and of the lock never exceed what they are set to.
THEOREM TypeCorrect == Spec => []TypeOK
<1>1. Basic => TypeOK
  BY DEF Basic
<1> QED BY <1>1, BasicInvariance, PTL

\* Every run that ends with an answer frees its key unless Valkey is down, under
\* every fault, whatever the settings, the resolver and the other requests do.
THEOREM RunsAlwaysUnlock == Spec => RunsUnlock
<1> DEFINE Unlocking ==
      \A t \in Task : InRun(t) /\ ~InRun(t)' /\ reply'[t] # "gone" /\ up
        => lock'[key[t]] = 0
<1>1. Basic /\ [Next]_vars => [Unlocking]_vars
  <2> SUFFICES ASSUME Basic, [Next]_vars, ~UNCHANGED vars,
                      NEW t \in Task, InRun(t), ~InRun(t)', reply'[t] # "gone", up
               PROVE  lock'[key[t]] = 0
    OBVIOUS
  <2>1. ASSUME NEW u \in Task, Arrives(u) PROVE lock'[key[t]] = 0
    BY <2>1, ArriveEffect DEF InRun
  <2>2. ASSUME NEW u \in Task, Step(u) \/ Disconnect(u) PROVE lock'[key[t]] = 0
    <3>1. Move(u)
      BY <2>2, StepMoves DEF Basic, Clients
    <3>2. u = t
      BY <3>1 DEF Move, Others, InRun
    <3>3. Ends(t)
      BY <3>1, <3>2 DEF Move, Outside, Starts, GoesOn, InRun
    <3> QED BY <3>3 DEF Ends, Unlocked, Basic, TypeOK
  <2>3. CASE Restart
    BY <2>3 DEF Restart, InRun, Basic, TypeOK
  <2>4. CASE ValkeyStops \/ ValkeyStarts \/ Tick
    BY <2>4 DEF ValkeyStops, ValkeyStarts, Tick, InRun, reqVars, history
  <2> QED BY <2>1, <2>2, <2>3, <2>4, Steps
<1> QED BY <1>1, BasicInvariance, PTL DEF Spec, RunsUnlock

-------------------------------------------------------------------------------
(* A lock outlives its run, or the run is late.                            *)

\* No run takes longer from here than the longest one.
Fits(t) == InRun(t) => left[t] + After(at[t]) <= Longest

\* What is left of a lock and what its run is late make up for the margin and
\* what the run is still to last; the lock may be gone, deleted by another run or
\* lost by Valkey.
Covered(t) ==
  InRun(t) => \/ lock[key[t]] = 0
              \/ late[t] >= Margin
              \/ lock[key[t]] + late[t] >= left[t] + After(at[t]) + Margin

TimedInv == Basic /\ \A t \in Task : Fits(t) /\ Covered(t)

\* The lock's life is the longest run and the margin.
LEMMA LockFits == LockTtl = Longest + Margin /\ Longest \in Nat /\ Margin \in Int
BY Numbers DEF Longest, Margin

\* What the timed invariant counts.
LEMMA Counted ==
  ASSUME TypeOK, NEW t \in Task
  PROVE  /\ at[t] \in Place /\ key[t] \in Key /\ left[t] \in Nat /\ late[t] \in Nat
         /\ lock[key[t]] \in 0..LockTtl /\ After(at[t]) \in Nat
BY Numbers DEF TypeOK

\* A step of a request keeps every run within its plan.
LEMMA FitsMove ==
  ASSUME TimedInv, NEW t \in Task, Move(t), TypeOK', NEW u \in Task
  PROVE  Fits(u)'
<1>1. CASE u # t
  BY <1>1 DEF TimedInv, Fits, Move, Others, InRun
<1>2. CASE u = t /\ GoesOn(t)
  <2>1. /\ left[t] \in Nat /\ After(at[t]) \in Nat /\ left'[t] \in Nat
        /\ at'[t] \in Place
    BY Counted DEF TimedInv, Basic, TypeOK
  <2>2. After(at'[t]) \in Nat /\ Longest \in Nat
    BY <2>1, Numbers, LockFits
  <2> QED BY <1>2, <2>1, <2>2 DEF TimedInv, Fits, GoesOn
<1>3. CASE u = t /\ ~GoesOn(t)
  BY <1>3 DEF Move, Outside, Starts, Ends, InRun, Fits
<1> QED BY <1>1, <1>2, <1>3

\* A step of a request keeps every run covered: a run goes on within its plan,
\* and a lock set anew covers any run.
LEMMA CoveredMove ==
  ASSUME TimedInv, NEW t \in Task, Move(t), TypeOK', NEW u \in Task
  PROVE  Covered(u)'
<1> SUFFICES ASSUME InRun(u)', lock'[key'[u]] # 0, late'[u] < Margin
             PROVE  lock'[key'[u]] + late'[u] >= left'[u] + After(at'[u]) + Margin
  <2>1. late'[u] \in Nat /\ Margin \in Int
    BY LockFits DEF TypeOK
  <2> QED BY <2>1 DEF Covered
<1>1. /\ at[u] \in Place /\ key[u] \in Key /\ key[t] \in Key /\ left[u] \in Nat
      /\ late[u] \in Nat /\ lock[key[u]] \in Nat /\ After(at[u]) \in Nat
  BY Counted DEF TimedInv, Basic
<1>2. at'[u] \in Place /\ left'[u] \in Nat /\ late'[u] \in Nat /\ key'[u] = key[u]
  BY DEF TypeOK, Move, Others
<1>3. After(at'[u]) \in Nat /\ LockTtl = Longest + Margin /\ Longest \in Nat /\ Margin \in Int
  BY <1>2, Numbers, LockFits
<1>4. CASE lock'[key[u]] = LockTtl
  <2>1. left'[u] + After(at'[u]) <= Longest
    BY FitsMove DEF Fits
  <2> QED BY <1>2, <1>3, <1>4, <2>1
<1>5. CASE lock'[key[u]] # LockTtl
  <2>1. lock'[key[u]] = lock[key[u]] /\ ~Starts(u)
    <3>1. lock' \in {lock, Locked(key[t]), Unlocked(key[t])}
      BY DEF Move, Outside, Starts, GoesOn, Ends
    <3>2. Locked(key[u])[key[u]] = LockTtl
      BY <1>1, LockEffect DEF TimedInv, Basic
    <3> QED BY <1>1, <1>2, <1>5, <3>1, <3>2, LockEffect DEF Starts, TimedInv, Basic
  <2>2. CASE u = t
    <3>1. GoesOn(t)
      BY <2>1, <2>2 DEF Move, Outside, Ends, InRun
    <3>2. late'[t] = late[t] /\ left'[t] + After(at'[t]) <= left[t] + After(at[t])
      BY <3>1 DEF GoesOn, history
    <3>3. lock[key[t]] + late[t] >= left[t] + After(at[t]) + Margin
      BY <1>2, <1>3, <2>1, <2>2, <3>1, <3>2 DEF GoesOn, TimedInv, Covered
    <3> QED BY <1>1, <1>2, <1>3, <2>1, <2>2, <3>2, <3>3
  <2>3. CASE u # t
    BY <1>1, <1>2, <1>3, <2>1, <2>3 DEF Move, Others, InRun, TimedInv, Covered
  <2> QED BY <2>2, <2>3
<1> QED BY <1>4, <1>5

\* Time passes for a run and for its lock alike; a run that does not end in time
\* is late.
LEMMA TickRuns ==
  ASSUME TimedInv, Tick, NEW t \in Task, InRun(t)
  PROVE  /\ left'[t] = IF left[t] > 0 THEN left[t] - 1 ELSE 0
         /\ late'[t] = IF left[t] = 0 /\ late[t] < Margin THEN late[t] + 1 ELSE late[t]
         /\ lock'[key[t]] = IF lock[key[t]] > 0 THEN lock[key[t]] - 1 ELSE 0
         /\ at' = at /\ key' = key /\ has' = has
<1>1. key[t] \in Key /\ at[t] # "idle"
  BY DEF TimedInv, Basic, TypeOK, InRun
<1> QED BY <1>1 DEF Tick, Lapse, Overdue

\* The clock keeps every run within its plan and covered.
LEMMA TickKeeps ==
  ASSUME TimedInv, Tick, NEW t \in Task
  PROVE  Fits(t)' /\ Covered(t)'
<1> SUFFICES ASSUME InRun(t)
             PROVE  /\ left'[t] + After(at[t]) <= Longest
                    /\ \/ lock'[key[t]] = 0
                       \/ late'[t] >= Margin
                       \/ lock'[key[t]] + late'[t] >= left'[t] + After(at[t]) + Margin
  BY DEF Tick, Fits, Covered, InRun
<1>1. /\ left[t] \in Nat /\ late[t] \in Nat /\ lock[key[t]] \in Nat
      /\ After(at[t]) \in Nat /\ Longest \in Nat /\ Margin \in Int
  BY Counted, LockFits DEF TimedInv, Basic
<1>2. /\ left[t] + After(at[t]) <= Longest
      /\ \/ lock[key[t]] = 0
         \/ late[t] >= Margin
         \/ lock[key[t]] + late[t] >= left[t] + After(at[t]) + Margin
  BY DEF TimedInv, Fits, Covered
<1> QED BY <1>1, <1>2, TickRuns

\* So does the rest of the environment.
LEMMA EnvironmentCovers ==
  ASSUME TimedInv, ValkeyStops \/ ValkeyStarts \/ Restart, NEW t \in Task
  PROVE  Fits(t)' /\ Covered(t)'
<1>1. CASE ValkeyStops
  BY <1>1, Counted DEF ValkeyStops, TimedInv, Basic, Fits, Covered, InRun
<1>2. CASE ValkeyStarts
  BY <1>2 DEF ValkeyStarts, TimedInv, Fits, Covered, InRun, reqVars, history
<1>3. CASE Restart
  BY <1>3 DEF Restart, Fits, Covered, InRun
<1> QED BY <1>1, <1>2, <1>3

\* The timed invariant is inductive.
LEMMA TimedStep == TimedInv /\ [Next]_vars => TimedInv'
<1> SUFFICES ASSUME TimedInv, [Next]_vars PROVE TimedInv'
  OBVIOUS
<1>1. Basic'
  BY BasicStep DEF TimedInv
<1>2. CASE UNCHANGED vars
  BY <1>1, <1>2 DEF TimedInv, Fits, Covered, InRun, vars, history
<1>3. ASSUME NEW t \in Task, Arrives(t), NEW u \in Task PROVE Fits(u)' /\ Covered(u)'
  BY <1>3, ArriveEffect DEF TimedInv, Fits, Covered, InRun, history
<1>4. ASSUME NEW t \in Task, Step(t) \/ Disconnect(t), NEW u \in Task
      PROVE  Fits(u)' /\ Covered(u)'
  BY <1>4, StepMoves, FitsMove, CoveredMove DEF TimedInv, Basic, Clients
<1>5. CASE ValkeyStops \/ ValkeyStarts \/ Restart \/ Tick
  BY <1>1, <1>5, TickKeeps, EnvironmentCovers DEF TimedInv
<1> QED BY <1>1, <1>2, <1>3, <1>4, <1>5, Steps DEF TimedInv

\* It holds at the start.
LEMMA TimedInit == Init => TimedInv
<1> SUFFICES ASSUME Init PROVE TimedInv
  OBVIOUS
<1>1. \A t \in Task : Fits(t) /\ Covered(t)
  BY DEF Init, Fits, Covered, InRun
<1> QED BY <1>1, BasicInit DEF TimedInv

\* A run that loses its lock to the clock has been overdue for the whole margin,
\* for all settings, under every fault, with slow resolvers, clients and Valkey
\* and any other requests: nothing but such a delay is able to use the margin of
\* services/traceroute.py:340 up, neither the wait for a slot nor mtr's timeout.
THEOREM RunsNeverOverrun == Spec => ExpiryNeedsDelay
<1>1. TimedInv /\ [Next]_vars =>
        [Tick => \A t \in Task : InRun(t) /\ LockExpires(key[t]) => late'[t] >= Margin]_vars
  <2> SUFFICES ASSUME TimedInv, Tick, NEW t \in Task, InRun(t),
                      lock[key[t]] > 0, lock'[key[t]] = 0
               PROVE  late'[t] >= Margin
    BY DEF LockExpires
  <2>1. /\ left[t] \in Nat /\ late[t] \in Nat /\ lock[key[t]] \in Nat
        /\ After(at[t]) \in Nat /\ Margin \in Int
    BY Counted, LockFits DEF TimedInv, Basic
  <2>2. \/ late[t] >= Margin
        \/ lock[key[t]] + late[t] >= left[t] + After(at[t]) + Margin
    BY <2>1 DEF TimedInv, Covered
  <2> QED BY <2>1, <2>2, TickRuns
<1> QED BY <1>1, TimedInit, TimedStep, PTL DEF Spec, ExpiryNeedsDelay

-------------------------------------------------------------------------------
(* A result is stored before its key is free.                              *)

\* The result outlives the send of the last event and the DEL, and the lock
\* leaves a run that is not overdue a margin.
ResultKept == CacheTtl > Stall + Delay /\ Margin > 0

\* A run that Valkey has not failed, and that is not late.
Sound(t) == t \notin struck /\ late[t] = 0

Stored(t) ==
  has[t] /\ reply[t] = "live" /\ at[t] \in {"telling", "unlock"} /\ Sound(t) =>
    cache[key[t]] > left[t] + After(at[t])

\* Valkey is down only under runs that it has failed.
Struck(t) == InRun(t) /\ ~up => t \in struck

StoredInv == Basic /\ \A t \in Task : Stored(t) /\ Struck(t)

\* No await after the SET of the result lasts longer than the result.
LEMMA ResultFits ==
  ASSUME ResultKept
  PROVE  \A place \in {"telling", "unlock"} : Budget(place) + After(place) < CacheTtl
BY Numbers DEF ResultKept, Budget, After

\* A step of a request keeps every stored result.
LEMMA StoredMove ==
  ASSUME StoredInv, ResultKept, NEW t \in Task, Move(t), TypeOK', NEW u \in Task
  PROVE  Stored(u)'
<1> SUFFICES ASSUME has'[u], reply'[u] = "live", at'[u] \in {"telling", "unlock"}, Sound(u)'
             PROVE  cache'[key'[u]] > left'[u] + After(at'[u])
  BY DEF Stored
<1>1. /\ key'[u] = key[u] /\ key[u] \in Key /\ key[t] \in Key
      /\ at[u] \in Place /\ left[u] \in Nat /\ left'[u] \in Nat
      /\ cache[key[u]] \in 0..CacheTtl /\ CacheTtl \in Nat
  BY Numbers DEF StoredInv, Basic, TypeOK, Move, Others
<1>2. After(at[u]) \in Nat
  BY <1>1, Numbers
<1>3. cache'[key[u]] \in {cache[key[u]], CacheTtl}
  BY <1>1, LockEffect DEF Move, Results, StoredInv, Basic
<1>4. CASE u # t
  <2>1. /\ at'[u] = at[u] /\ left'[u] = left[u] /\ reply'[u] = reply[u] /\ has'[u] = has[u]
        /\ Sound(u)
    BY <1>4 DEF Move, Others, Sound
  <2>2. cache[key[u]] > left[u] + After(at[u])
    BY <2>1 DEF StoredInv, Stored
  <2> QED BY <1>1, <1>2, <1>3, <2>1, <2>2
<1>5. CASE u = t
  <2>1. InRun(t)' /\ GoesOn(t)
    BY <1>5 DEF Move, Outside, Starts, Ends, InRun
  <2>2. Sound(t) /\ InRun(t)
    BY <1>5, <2>1 DEF GoesOn, Sound, history
  <2>3. up
    BY <2>2 DEF StoredInv, Struck, Sound
  <2>4. CASE at[t] = "store" /\ cache'[key[t]] = CacheTtl
    BY <1>1, <1>5, <2>4, ResultFits DEF Move, Results
  <2>5. CASE at[t] = "telling" /\ at'[t] = "unlock" /\ has[t] /\ reply[t] = "live"
    <3>1. cache[key[t]] > left[t] + Delay /\ left'[t] = Delay /\ After("unlock") = 0
      BY <1>5, <2>2, <2>5 DEF StoredInv, Stored, Move, Results, Budget, After
    <3> QED BY <1>1, <1>3, <1>5, <2>5, <3>1, Numbers
  <2> QED BY <1>5, <2>3, <2>4, <2>5 DEF Move, Results
<1> QED BY <1>4, <1>5

\* Time passes for a send and for the result alike.
LEMMA StoredTick ==
  ASSUME StoredInv, ResultKept, Tick, NEW t \in Task
  PROVE  Stored(t)'
<1> SUFFICES ASSUME has[t], reply[t] = "live", at[t] \in {"telling", "unlock"}, Sound(t)'
             PROVE  cache'[key[t]] > left'[t] + After(at[t])
  BY DEF Tick, Stored
<1>1. /\ left[t] \in Nat /\ late[t] \in Nat /\ key[t] \in Key
      /\ cache[key[t]] \in Nat /\ After(at[t]) \in Nat /\ Margin \in Int
  BY Numbers, LockFits DEF StoredInv, Basic, TypeOK, After
<1>2. InRun(t) /\ at[t] # "idle"
  BY DEF InRun
<1>3. Sound(t) /\ left[t] > 0
  BY <1>1, <1>2 DEF Tick, Lapse, Overdue, Sound, ResultKept
<1>4. cache[key[t]] > left[t] + After(at[t]) /\ left'[t] = left[t] - 1
  BY <1>1, <1>3 DEF StoredInv, Stored, Tick
<1>5. cache'[key[t]] = cache[key[t]] - 1
  BY <1>1, <1>3, <1>4 DEF Tick
<1> QED BY <1>1, <1>4, <1>5

\* No request stops or starts Valkey.
LEMMA UpKept ==
  ASSUME NEW t \in Task, Step(t) \/ Disconnect(t)
  PROVE  up' = up
BY DEF Step, Served, Proceeds, Disconnect, Ping, Get, Ttl, Exists, SetLock, StartedSent,
       Acquire, Busy, Resolve, Resolved, Traced, Enriched, TraceFails, TraceTimesOut,
       Store, Told, Unlock, CommandFails, CloseOuter, CloseInner

\* A run begins only while Valkey answers.
LEMMA StruckMove ==
  ASSUME StoredInv, NEW t \in Task, Move(t), up' = up, NEW u \in Task
  PROVE  Struck(u)'
<1>1. CASE u # t
  BY <1>1 DEF StoredInv, Struck, Move, Others, InRun
<1>2. CASE u = t
  BY <1>2 DEF StoredInv, Struck, Move, Outside, Starts, GoesOn, Ends, InRun, history
<1> QED BY <1>1, <1>2

\* The clock, Valkey and the process keep it.
LEMMA StoredEnvironment ==
  ASSUME StoredInv, ResultKept, ValkeyStops \/ ValkeyStarts \/ Restart \/ Tick, NEW t \in Task
  PROVE  Stored(t)' /\ Struck(t)'
<1>1. CASE ValkeyStops
  BY <1>1 DEF ValkeyStops, Stored, Sound, Struck, InRun
<1>2. CASE ValkeyStarts
  BY <1>2 DEF ValkeyStarts, StoredInv, Stored, Sound, Struck, reqVars, history
<1>3. CASE Restart
  BY <1>3 DEF Restart, Stored, Struck, InRun
<1>4. CASE Tick
  BY <1>4, StoredTick DEF StoredInv, Tick, Lapse, Struck, InRun
<1> QED BY <1>1, <1>2, <1>3, <1>4

\* The invariant of stored results is inductive.
LEMMA StoredStep ==
  ASSUME ResultKept
  PROVE  StoredInv /\ [Next]_vars => StoredInv'
<1> SUFFICES ASSUME StoredInv, [Next]_vars PROVE StoredInv'
  OBVIOUS
<1>1. Basic'
  BY BasicStep DEF StoredInv
<1>2. CASE UNCHANGED vars
  BY <1>1, <1>2 DEF StoredInv, Stored, Sound, Struck, InRun, vars, history
<1>3. ASSUME NEW t \in Task, Arrives(t), NEW u \in Task PROVE Stored(u)' /\ Struck(u)'
  BY <1>3, ArriveEffect DEF StoredInv, Stored, Sound, Struck, InRun, history
<1>4. ASSUME NEW t \in Task, Step(t) \/ Disconnect(t), NEW u \in Task
      PROVE  Stored(u)' /\ Struck(u)'
  <2>1. TypeOK' /\ Move(t) /\ up' = up
    BY <1>4, StepMoves, UpKept DEF StoredInv, Basic, Clients
  <2> QED BY <2>1, StoredMove, StruckMove
<1>5. CASE ValkeyStops \/ ValkeyStarts \/ Restart \/ Tick
  BY <1>1, <1>5, StoredEnvironment DEF StoredInv
<1> QED BY <1>1, <1>2, <1>3, <1>4, <1>5, Steps DEF StoredInv

\* When a successful run is about to free its key, its result can be read unless
\* Valkey has stopped during the run or the run was overdue, under every fault,
\* delay and order of requests, if a result lives longer than a send and a
\* command and the lock longer than the longest run.
THEOREM ResultsStoredBeforeUnlocked ==
  ASSUME ResultKept
  PROVE  Spec => []StoredBeforeUnlocked
<1>1. Init => StoredInv
  <2> SUFFICES ASSUME Init PROVE StoredInv
    OBVIOUS
  <2>1. \A t \in Task : Stored(t) /\ Struck(t)
    BY DEF Init, Stored, Struck, InRun
  <2> QED BY <2>1, BasicInit DEF StoredInv
<1>2. StoredInv => StoredBeforeUnlocked
  <2> SUFFICES ASSUME StoredInv, NEW t \in Task, at[t] = "unlock", reply[t] = "live", Sound(t)
               PROVE  cache[key[t]] > 0
    BY DEF StoredBeforeUnlocked, Sound
  <2>1. has[t] /\ left[t] \in Nat /\ key[t] \in Key /\ cache[key[t]] \in Nat
    BY DEF StoredInv, Basic, TypeOK, Clients, ClientOK
  <2>2. cache[key[t]] > left[t] + After("unlock") /\ After("unlock") = 0
    BY <2>1 DEF StoredInv, Stored, After
  <2> QED BY <2>1, <2>2
<1> QED BY <1>1, <1>2, StoredStep, PTL DEF Spec

-------------------------------------------------------------------------------
(* Runs of a key overlap only after one of them has lost its lock.         *)

\* Until then every run still has its lock, and is alone.
Guarded(t) == InRun(t) => slipped[key[t]] \/ lock[key[t]] > 0

OneRunInv == Basic /\ OneRunUntilSlip /\ \A t \in Task : Guarded(t)

\* One more run of a key: whoever runs already has a lock to lose.
LEMMA StartsSlip ==
  ASSUME OneRunInv, NEW t \in Task, Starts(t), NEW u \in Task, InRun(u), key[u] = key[t]
  PROVE  slipped'[key[t]]
<1>1. key[t] \in Key /\ slipped \in [Key -> BOOLEAN]
  BY DEF OneRunInv, Basic, TypeOK
<1>2. slipped'[key[t]] = (Running(key[t]) /\ (slipped[key[t]] \/ lock[key[t]] > 0))
  BY <1>1 DEF Starts, Begins
<1>3. Running(key[t])
  BY DEF Running
<1>4. slipped[key[t]] \/ lock[key[t]] > 0
  BY DEF OneRunInv, Guarded
<1> QED BY <1>2, <1>3, <1>4

\* A step of t leaves runs alone, or marks their key.
LEMMA AloneMove ==
  ASSUME OneRunInv, NEW t \in Task, Move(t)
  PROVE  OneRunUntilSlip'
<1> SUFFICES ASSUME NEW u \in Task, NEW v \in Task, InRun(u)', InRun(v)',
                    key'[u] = key'[v], u # v
             PROVE  slipped'[key'[u]]
  BY DEF OneRunUntilSlip
<1>1. /\ key'[u] = key[u] /\ key'[v] = key[v] /\ key[u] \in Key /\ key[t] \in Key
      /\ (u # t => InRun(u)) /\ (v # t => InRun(v))
  BY DEF Move, Others, InRun, OneRunInv, Basic, TypeOK
<1>2. CASE Starts(t)
  <2>1. CASE key[u] = key[t]
    BY <1>1, <1>2, <2>1, StartsSlip
  <2>2. CASE key[u] # key[t]
    <3>1. slipped[key[u]] /\ slipped'[key[u]] = slipped[key[u]]
      BY <1>1, <1>2, <2>2 DEF OneRunInv, OneRunUntilSlip, Starts, Begins, Basic, TypeOK
    <3> QED BY <1>1, <3>1
  <2> QED BY <2>1, <2>2
<1>3. CASE ~Starts(t)
  <2>1. slipped' = slipped /\ InRun(u) /\ InRun(v)
    BY <1>1, <1>3 DEF Move, Outside, GoesOn, Ends, InRun, history
  <2> QED BY <1>1, <2>1 DEF OneRunInv, OneRunUntilSlip
<1> QED BY <1>2, <1>3

\* A step of t takes the lock of no other run.
LEMMA GuardedMove ==
  ASSUME OneRunInv, NEW t \in Task, Move(t), NEW u \in Task
  PROVE  Guarded(u)'
<1> SUFFICES ASSUME InRun(u)', ~slipped'[key'[u]] PROVE lock'[key'[u]] > 0
  BY DEF Guarded
<1>1. /\ key'[u] = key[u] /\ key[u] \in Key /\ key[t] \in Key
      /\ lock[key[u]] \in Nat /\ LockTtl \in Nat /\ LockTtl > 0 /\ TypeOK
      /\ (u # t => InRun(u))
  BY Numbers DEF OneRunInv, Basic, TypeOK, Move, Others, InRun
<1>2. CASE lock' = Locked(key[t]) /\ key[u] = key[t]
  BY <1>1, <1>2, LockEffect
<1>3. CASE lock' = Locked(key[t]) /\ key[u] # key[t]
  <2>1. slipped'[key[u]] = slipped[key[u]]
    BY <1>1, <1>3 DEF Move, Outside, Starts, GoesOn, Ends, Begins, history, OneRunInv, Basic, TypeOK
  <2>2. InRun(u) /\ lock'[key[u]] = lock[key[u]]
    BY <1>1, <1>3, LockEffect
  <2> QED BY <1>1, <2>1, <2>2 DEF OneRunInv, Guarded
<1>4. CASE lock' = lock /\ ~Starts(t)
  <2>1. InRun(u) /\ slipped' = slipped
    BY <1>1, <1>4 DEF Move, Outside, GoesOn, Ends, InRun, history
  <2> QED BY <1>1, <1>4, <2>1 DEF OneRunInv, Guarded
<1>5. CASE Ends(t) /\ lock' = Unlocked(key[t])
  <2>1. u # t /\ InRun(u) /\ InRun(t) /\ slipped' = slipped
    BY <1>1, <1>5 DEF Ends, InRun, history
  <2>2. key[u] # key[t]
    BY <1>1, <2>1 DEF OneRunInv, OneRunUntilSlip
  <2> QED BY <1>1, <1>5, <2>1, <2>2, LockEffect DEF OneRunInv, Guarded
<1> QED BY <1>2, <1>3, <1>4, <1>5 DEF Move, Outside, Starts, GoesOn, Ends

\* The clock takes no lock of a run without marking its key.
LEMMA GuardedTick ==
  ASSUME OneRunInv, Tick
  PROVE  OneRunUntilSlip' /\ \A t \in Task : Guarded(t)'
<1>1. UNCHANGED <<at, key, has>>
  BY DEF Tick
<1>2. ASSUME NEW t \in Task, InRun(t), slipped[key[t]] PROVE slipped'[key[t]]
  BY <1>2 DEF Tick, Lapse, Running, OneRunInv, Basic, TypeOK
<1>3. ASSUME NEW t \in Task, InRun(t), ~slipped'[key[t]] PROVE lock'[key[t]] > 0
  <2>1. key[t] \in Key /\ lock[key[t]] \in Nat
    BY Numbers DEF OneRunInv, Basic, TypeOK
  <2>2. lock[key[t]] > 0 /\ lock[key[t]] # 1
    BY <1>2, <1>3, <2>1 DEF Tick, Lapse, Running, OneRunInv, Guarded
  <2> QED BY <2>1, <2>2 DEF Tick
<1> QED BY <1>1, <1>2, <1>3 DEF OneRunInv, OneRunUntilSlip, Guarded, InRun

\* The invariant of single runs is inductive.
LEMMA OneRunStep == OneRunInv /\ [Next]_vars => OneRunInv'
<1> SUFFICES ASSUME OneRunInv, [Next]_vars PROVE OneRunInv'
  OBVIOUS
<1>1. Basic'
  BY BasicStep DEF OneRunInv
<1>2. CASE UNCHANGED vars
  BY <1>1, <1>2 DEF OneRunInv, OneRunUntilSlip, Guarded, InRun, vars, history
<1>3. ASSUME NEW t \in Task, Arrives(t) PROVE OneRunInv'
  <2>1. lock' = lock /\ slipped' = slipped /\ ~InRun(t)'
    BY <1>3, ArriveEffect DEF OneRunInv, history
  <2>2. \A u \in Task : u # t => key'[u] = key[u] /\ (InRun(u)' <=> InRun(u))
    BY <1>3, ArriveEffect DEF OneRunInv, InRun
  <2> QED BY <1>1, <2>1, <2>2 DEF OneRunInv, OneRunUntilSlip, Guarded
<1>4. ASSUME NEW t \in Task, Step(t) \/ Disconnect(t) PROVE OneRunInv'
  <2>1. Move(t)
    BY <1>4, StepMoves DEF OneRunInv, Basic, Clients
  <2> QED BY <1>1, <2>1, AloneMove, GuardedMove DEF OneRunInv
<1>5. CASE Tick
  BY <1>1, <1>5, GuardedTick DEF OneRunInv
<1>6. CASE ValkeyStops
  <2>1. UNCHANGED <<at, key, has>> /\ \A t \in Task : key[t] \in Key
    BY <1>6 DEF ValkeyStops, OneRunInv, Basic, TypeOK
  <2>2. CASE UNCHANGED <<lock, slipped>>
    BY <1>1, <2>1, <2>2 DEF OneRunInv, OneRunUntilSlip, Guarded, InRun
  <2>3. CASE slipped' = [k \in Key |-> Running(k)]
    <3>1. \A t \in Task : InRun(t) => slipped'[key[t]]
      BY <2>1, <2>3 DEF Running
    <3> QED BY <1>1, <2>1, <3>1 DEF OneRunInv, OneRunUntilSlip, Guarded, InRun
  <2> QED BY <1>6, <2>2, <2>3 DEF ValkeyStops
<1>7. CASE ValkeyStarts
  BY <1>1, <1>7 DEF ValkeyStarts, OneRunInv, OneRunUntilSlip, Guarded, InRun, reqVars, history
<1>8. CASE Restart
  BY <1>1, <1>8 DEF Restart, OneRunInv, OneRunUntilSlip, Guarded, InRun
<1> QED BY <1>2, <1>3, <1>4, <1>5, <1>6, <1>7, <1>8, Steps

\* Under every fault, delay, resolver and order of requests, runs of a key overlap
\* only after one of them has lost its lock to a SET that came between another
\* request's EXISTS and SET, to the clock or with Valkey's keys: no DEL hits
\* another run's lock before.
THEOREM RunsNeverOverlap == Spec => []OneRunUntilSlip
<1>1. Init => OneRunInv
  <2> SUFFICES ASSUME Init PROVE OneRunInv
    OBVIOUS
  <2>1. \A t \in Task : ~InRun(t)
    BY DEF Init, InRun
  <2> QED BY <2>1, BasicInit DEF OneRunInv, OneRunUntilSlip, Guarded
<1>2. OneRunInv => OneRunUntilSlip
  BY DEF OneRunInv
<1> QED BY <1>1, <1>2, OneRunStep, PTL DEF Spec

-------------------------------------------------------------------------------
(* The slots.                                                              *)

\* A step of t takes, gives back or loses the slot as t enters or leaves the
\* trace.
SlotMove(t) ==
  \/ UNCHANGED poolVars /\ (at'[t] \in Tracing <=> at[t] \in Tracing)
  \/ Slots!Grant(t) /\ at'[t] \in Tracing
  \/ (Slots!Return(t) \/ Slots!Lose(t)) /\ at'[t] \notin Tracing

\* Before and after the trace the slots are left alone.
LEMMA SlotsLeftAlone ==
  ASSUME TypeOK, NEW t \in Task,
         \/ Ping(t) \/ Get(t) \/ Ttl(t) \/ Exists(t) \/ SetLock(t)
         \/ StartedSent(t) \/ Busy(t) \/ Store(t) \/ Told(t) \/ Unlock(t)
         \/ CommandFails(t)
  PROVE  SlotMove(t)
<1> USE DEF Place, LookingUp, Resolving, Tracing, Runs, End, BeginTrace, AfterTrace
<1>1. CASE Ping(t) \/ Get(t) \/ Ttl(t) \/ Exists(t) \/ SetLock(t)
  BY <1>1, GotoEffect DEF Ping, Get, Ttl, Exists, SetLock, SlotMove
<1>2. CASE StartedSent(t) \/ Busy(t)
  BY <1>2, GotoEffect DEF StartedSent, Busy, SlotMove
<1>3. CASE Store(t) \/ Told(t) \/ Unlock(t)
  BY <1>3, GotoEffect DEF Store, Told, Unlock, SlotMove
<1>4. CASE CommandFails(t)
  BY <1>4, GotoEffect DEF CommandFails, SlotMove
<1> QED BY <1>1, <1>2, <1>3, <1>4

\* The trace, its end and the finaliser of an abandoned one.
LEMMA TracesMoveSlots ==
  ASSUME TypeOK, NEW t \in Task,
         \/ Acquire(t) \/ Resolve(t) \/ Resolved(t) \/ Traced(t) \/ Enriched(t)
         \/ TraceFails(t) \/ TraceTimesOut(t) \/ CloseOuter(t) \/ CloseInner(t)
  PROVE  SlotMove(t)
<1> USE DEF Place, LookingUp, Resolving, Tracing, Runs, End, AfterTrace
<1>1. CASE Acquire(t)
  BY <1>1, GotoEffect DEF Acquire, SlotMove
<1>2. CASE Resolve(t) \/ Resolved(t)
  BY <1>2 DEF Resolve, Resolved, SlotMove, TypeOK
<1>3. CASE Traced(t)
  BY <1>3, GotoEffect DEF Traced, SlotMove
<1>4. CASE Enriched(t)
  BY <1>4, GotoEffect DEF Enriched, SlotMove
<1>5. CASE TraceFails(t)
  BY <1>5, GotoEffect DEF TraceFails, SlotMove
<1>6. CASE TraceTimesOut(t)
  BY <1>6, GotoEffect DEF TraceTimesOut, SlotMove
<1>7. CASE CloseOuter(t) \/ CloseInner(t)
  BY <1>7, GotoEffect DEF CloseOuter, CloseInner, SlotMove
<1> QED BY <1>1, <1>2, <1>3, <1>4, <1>5, <1>6, <1>7

\* The client goes away.
LEMMA DisconnectMovesSlots ==
  ASSUME TypeOK, NEW t \in Task, Disconnect(t)
  PROVE  SlotMove(t)
<1> USE DEF Place, LookingUp, Resolving, Tracing, End
<1>1. CASE DisconnectEarly(t)
  BY <1>1, GotoEffect DEF DisconnectEarly, SlotMove
<1>2. ASSUME Unwind(t) PROVE at'[t] \in {"idle", "unlock"}
  BY <1>2, UnwindEffect, GotoEffect
<1>3. CASE DisconnectTracing(t)
  <2>1. CASE Unwind(t)
    BY <1>2, <1>3, <2>1, GotoEffect DEF DisconnectTracing, SlotMove
  <2>2. CASE Goto(t, "closing") /\ UNCHANGED poolVars
    BY <1>3, <2>2, GotoEffect DEF DisconnectTracing, SlotMove
  <2> QED BY <1>3, <2>1, <2>2 DEF DisconnectTracing
<1>4. CASE DisconnectLate(t)
  BY <1>2, <1>4, GotoEffect DEF DisconnectLate, SlotMove
<1> QED BY <1>1, <1>3, <1>4 DEF Disconnect

\* The holders are finitely many, without a bound on the requests.
Capped == IsFiniteSet(holders) /\ lost \in Nat /\ Cardinality(holders) + lost <= Cap

\* SlotPool counts as this module does.
LEMMA SlotCount ==
  ASSUME NEW S
  PROVE  Slots!Cardinality(S) = Cardinality(S)
BY DEF Slots!Cardinality, Cardinality

\* A slot is granted while one is free, and every other step frees some.
LEMMA PoolCapped ==
  ASSUME Capped,
         \/ \E t \in Task : Slots!Grant(t) \/ Slots!Return(t) \/ Slots!Lose(t)
         \/ Slots!Renew \/ UNCHANGED poolVars
  PROVE  Capped'
<1>1. Cap \in Nat /\ Cardinality(holders) \in Nat
  BY ServiceAssumption, FS_CardinalityType DEF Capped
<1>2. ASSUME NEW t \in Task, Slots!Grant(t) PROVE Capped'
  <2>1. /\ t \notin holders /\ Cardinality(holders) + lost < Cap
        /\ holders' = holders \union {t} /\ lost' = lost
    BY <1>2, SlotCount DEF Slots!Grant
  <2>2. IsFiniteSet(holders') /\ Cardinality(holders') = Cardinality(holders) + 1
    BY <2>1, FS_AddElement DEF Capped
  <2> QED BY <1>1, <2>1, <2>2 DEF Capped
<1>3. ASSUME NEW t \in Task, Slots!Return(t) \/ Slots!Lose(t) PROVE Capped'
  <2>1. t \in holders /\ holders' = holders \ {t} /\ lost' \in {lost, lost + 1}
    BY <1>3 DEF Slots!Return, Slots!Lose
  <2>2. IsFiniteSet(holders') /\ Cardinality(holders') = Cardinality(holders) - 1
    BY <2>1, FS_RemoveElement DEF Capped
  <2> QED BY <1>1, <2>1, <2>2 DEF Capped
<1>4. CASE Slots!Renew
  BY <1>1, <1>4, FS_EmptySet DEF Capped, Slots!Renew
<1>5. CASE UNCHANGED poolVars
  BY <1>5 DEF Capped, poolVars
<1> QED BY <1>2, <1>3, <1>4, <1>5

\* Who holds a slot and how many do, together with what Basic says.
SlotInv == Basic /\ Capped /\ SlotsHeldByTraces

\* It is inductive.
LEMMA SlotStep == SlotInv /\ [Next]_vars => SlotInv'
<1> SUFFICES ASSUME SlotInv, [Next]_vars PROVE SlotInv'
  OBVIOUS
<1>1. Basic'
  BY BasicStep DEF SlotInv
<1>2. CASE UNCHANGED vars
  BY <1>1, <1>2, PoolCapped DEF SlotInv, SlotsHeldByTraces, vars, poolVars
<1>3. ASSUME NEW t \in Task, Arrives(t) PROVE SlotInv'
  <2>1. /\ at[t] = "idle" /\ at'[t] \in {"ping", "get"} /\ UNCHANGED poolVars
        /\ \A u \in Task : u # t => at'[u] = at[u]
    BY <1>3, ArriveEffect DEF SlotInv
  <2>2. at[t] \notin Tracing /\ at'[t] \notin Tracing
    BY <2>1 DEF Tracing, Resolving
  <2>3. SlotsHeldByTraces'
    BY <2>1, <2>2 DEF SlotInv, SlotsHeldByTraces, poolVars
  <2> QED BY <1>1, <2>1, <2>3, PoolCapped DEF SlotInv
<1>4. ASSUME NEW t \in Task, Step(t) \/ Disconnect(t) PROVE SlotInv'
  <2>1. TypeOK /\ Move(t)
    BY <1>4, StepMoves DEF SlotInv, Basic, Clients
  <2>2. SlotMove(t)
    BY <1>4, <2>1, SlotsLeftAlone, TracesMoveSlots, DisconnectMovesSlots
    DEF Step, Served, Proceeds
  <2>3. \A u \in Task : u # t => at'[u] = at[u]
    BY <2>1 DEF Move, Others
  <2>4. Capped'
    BY <2>2, PoolCapped DEF SlotInv, SlotMove
  <2>5. CASE UNCHANGED poolVars /\ (at'[t] \in Tracing <=> at[t] \in Tracing)
    BY <1>1, <2>3, <2>4, <2>5 DEF SlotInv, SlotsHeldByTraces, poolVars
  <2>6. CASE Slots!Grant(t) /\ at'[t] \in Tracing
    BY <1>1, <2>3, <2>4, <2>6 DEF SlotInv, SlotsHeldByTraces, Slots!Grant
  <2>7. CASE (Slots!Return(t) \/ Slots!Lose(t)) /\ at'[t] \notin Tracing
    BY <1>1, <2>3, <2>4, <2>7 DEF SlotInv, SlotsHeldByTraces, Slots!Return, Slots!Lose
  <2> QED BY <2>2, <2>5, <2>6, <2>7 DEF SlotMove
<1>5. CASE ValkeyStops \/ ValkeyStarts \/ Tick
  <2>1. UNCHANGED <<at, poolVars>>
    BY <1>5 DEF ValkeyStops, ValkeyStarts, Tick
  <2> QED BY <1>1, <2>1, PoolCapped DEF SlotInv, SlotsHeldByTraces, poolVars
<1>6. CASE Restart
  <2>1. Slots!Renew /\ \A u \in Task : at'[u] = "idle"
    BY <1>6 DEF Restart
  <2>2. SlotsHeldByTraces'
    BY <2>1 DEF SlotsHeldByTraces, Slots!Renew, Tracing, Resolving
  <2> QED BY <1>1, <2>1, <2>2, PoolCapped DEF SlotInv
<1> QED BY <1>2, <1>3, <1>4, <1>5, <1>6, Steps

\* It holds throughout.
THEOREM SlotInvariance == Spec => []SlotInv
<1>1. Init => SlotInv
  <2> SUFFICES ASSUME Init PROVE SlotInv
    OBVIOUS
  <2>1. holders = {} /\ lost = 0 /\ Cap \in Nat
    BY ServiceAssumption DEF Init, Slots!PoolInit
  <2>2. Capped
    BY <2>1, FS_EmptySet DEF Capped
  <2>3. SlotsHeldByTraces
    BY <2>1 DEF Init, SlotsHeldByTraces, Tracing, Resolving
  <2> QED BY <2>2, <2>3, BasicInit DEF SlotInv
<1> QED BY <1>1, SlotStep, PTL DEF Spec

\* The slots that are out are the traces under way, however requests end.
THEOREM SlotsAlwaysHeldByTraces == Spec => []SlotsHeldByTraces
<1>1. SlotInv => SlotsHeldByTraces
  BY DEF SlotInv
<1> QED BY <1>1, SlotInvariance, PTL

\* The cap of config.py:79, of traces: however the requests end, no more than
\* Cap of them trace or have lost their slot, an abandoned stream counting until
\* its mtr is killed.  (Of mtr processes it is not one: MtrSlots.)
TracesWithinCap == Cardinality({t \in Task : at[t] \in Tracing}) + lost <= Cap

\* However requests end, no more than Cap of them trace at a time.
THEOREM TracesAlwaysWithinCap == Spec => []TracesWithinCap
<1>1. SlotInv => TracesWithinCap
  BY DEF SlotInv, Capped, SlotsHeldByTraces, TracesWithinCap
<1> QED BY <1>1, SlotInvariance, PTL
===============================================================================
