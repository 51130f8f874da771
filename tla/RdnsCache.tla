------------------------------ MODULE RdnsCache ------------------------------
(***************************************************************************)
(* PTR lookups and health checks on the one Valkey client of the process.  *)
(*                                                                         *)
(* As in TracerouteService an action is one stretch of a coroutine between *)
(* two awaits, at[t] names the await, left[t] bounds it and Valkey         *)
(* executes a command in the step that resumes its caller.  A resolver     *)
(* answers in a step of its own: what a lookup stores may be old news.     *)
(***************************************************************************)
EXTENDS Naturals, FiniteSets

CONSTANTS
  Task,       \* requests
  Addr,       \* addresses whose PTR record is asked for
  Name,       \* hostnames
  NoName,     \* no PTR record; the empty string in Valkey
  RdnsTtl,    \* settings.rdns_cache_ttl
  DnsWait,    \* _LOOKUP_TIMEOUT_S
  Delay,      \* how long a Valkey command may take
  MtrWait,    \* the timeout of "mtr --version"
  CapWait     \* the timeout of getcap, which blocks the event loop

ASSUME RdnsAssumption ==
  /\ {RdnsTtl, DnsWait, Delay, MtrWait, CapWait} \subseteq Nat \ {0}
  /\ NoName \notin Name
  /\ {"none", "raised", "rejected", "healthy", "degraded"} \cap (Name \union {NoName}) = {}

VARIABLES
  at, addr, left, reply,  \* per request
  has,      \* the request got a client from get_valkey
  got,      \* the resolver's answer that a lookup holds
  failing,  \* the checks of a health request that failed so far
  pool,     \* valkey._pool is set
  up,       \* Valkey answers
  cache,    \* per address: the stored name and its remaining life
  dns,      \* the PTR record of an address, as the world has it
  conf,     \* /etc/resolv.conf is readable
  old       \* history: for how long a name has not been true of an address

vars == <<at, addr, left, reply, has, got, failing, pool, up, cache, dns, conf, old>>
valkey == <<pool, up, cache>>
world == <<dns, conf, old>>

Answers == Name \union {NoName}
Absent == [name |-> NoName, left |-> 0]
Place == {"idle", "ping", "get", "resolving", "resolved", "set",
          "mtrcheck", "capcheck", "firstping", "pong"}
Reply == Answers \union {"none", "raised", "rejected", "healthy", "degraded"}
Check == {"mtr_packet", "mtr_capability", "valkey"}

\* The longest way from a record to a reply.  A getcap that starts in the last
\* unit of an await prolongs it.
Prolonged(wait) == wait + CapWait - 1
Freshness == Prolonged(DnsWait) + Prolonged(Delay) + RdnsTtl

TypeOK ==
  /\ at \in [Task -> Place]
  /\ addr \in [Task -> Addr]
  /\ left \in [Task -> Nat]
  /\ reply \in [Task -> Reply]
  /\ has \in [Task -> BOOLEAN]
  /\ got \in [Task -> Answers]
  /\ failing \in [Task -> SUBSET Check]
  /\ pool \in BOOLEAN /\ up \in BOOLEAN /\ conf \in BOOLEAN
  /\ cache \in [Addr -> [name : Answers, left : 0..RdnsTtl]]
  /\ dns \in [Addr -> Answers]
  /\ old \in [Addr -> [Answers -> 0..(Freshness + 1)]]

-------------------------------------------------------------------------------
(* Helpers.                                                                *)

Budget(place) == IF place = "idle" THEN 0
                 ELSE IF place = "resolving" THEN DnsWait
                 ELSE IF place = "mtrcheck" THEN MtrWait
                 ELSE IF place = "capcheck" THEN CapWait
                 ELSE Delay

Goto(t, place) == /\ at' = [at EXCEPT ![t] = place]
                  /\ left' = [left EXCEPT ![t] = Budget(place)]

End(t, r) == /\ Goto(t, "idle")
             /\ reply' = [reply EXCEPT ![t] = r]
             /\ has' = [has EXCEPT ![t] = FALSE]
             /\ got' = [got EXCEPT ![t] = NoName]
             /\ failing' = [failing EXCEPT ![t] = {}]

Goes(t, place) == Goto(t, place) /\ UNCHANGED <<reply, got, failing>>

\* subprocess.run inside a coroutine lets nothing else run.
LoopFree == \A u \in Task : at[u] # "capcheck"

Runs(t, place) == LoopFree /\ at[t] = place

\* Mutant of GetValkey: the client is published once its ping is answered.
GetValkeyPublishesLate(t, dial, place) ==
  /\ has' = [has EXCEPT ![t] = pool]
  /\ Goto(t, IF pool THEN place ELSE dial)
  /\ UNCHANGED pool

\* get_valkey up to its await: the client is published before its first ping
\* and returned unchecked from then on.
GetValkey(t, dial, place) ==
  /\ has' = [has EXCEPT ![t] = pool]
  /\ Goto(t, IF pool THEN place ELSE dial)
  /\ pool' = TRUE

\* The first ping of a new client.
FirstPing(t) ==
  /\ has' = [has EXCEPT ![t] = up]
  /\ pool' = up

\* A resolver object is made for every lookup; it reads /etc/resolv.conf
\* outside the try.
StartQuery(t) ==
  \/ conf /\ Goes(t, "resolving") /\ UNCHANGED has
  \/ ~conf /\ End(t, "raised")

-------------------------------------------------------------------------------
(* A PTR lookup: the route /rdns, or the home page for its visitor.        *)

Ask(t, a) ==
  /\ LoopFree /\ at[t] = "idle"
  /\ addr' = [addr EXCEPT ![t] = a]
  /\ reply' = [reply EXCEPT ![t] = "none"]
  /\ GetValkey(t, "ping", "get")
  /\ UNCHANGED <<got, failing, up, cache, world>>

\* No address, or one that does not parse: 400 without a lookup.
Reject(t) ==
  /\ LoopFree /\ at[t] = "idle"
  /\ End(t, "rejected")
  /\ UNCHANGED <<addr, valkey, world>>

Ping(t) ==
  /\ Runs(t, "ping")
  /\ \/ /\ up
        /\ FirstPing(t)
        /\ Goes(t, "get")
     \/ /\ ~up
        /\ pool' = FALSE
        /\ StartQuery(t)
  /\ UNCHANGED <<addr, up, cache, world>>

\* Mutant of Get: the GET is outside the try.
GetUncaught(t) ==
  /\ Runs(t, "get")
  /\ IF ~up THEN End(t, "raised")
     ELSE IF cache[addr[t]].left > 0 THEN End(t, cache[addr[t]].name)
     ELSE StartQuery(t)
  /\ UNCHANGED <<addr, valkey, world>>

\* Mutant of Get: the client retries until Valkey answers.
GetRetries(t) ==
  /\ Runs(t, "get") /\ up
  /\ \/ cache[addr[t]].left > 0 /\ End(t, cache[addr[t]].name)
     \/ cache[addr[t]].left = 0 /\ StartQuery(t)
  /\ UNCHANGED <<addr, valkey, world>>

\* A hit is the reply, "" included; an error counts as a miss.
Get(t) ==
  /\ Runs(t, "get")
  /\ \/ /\ up /\ cache[addr[t]].left > 0
        /\ End(t, cache[addr[t]].name)
     \/ /\ up => cache[addr[t]].left = 0
        /\ StartQuery(t)
  /\ UNCHANGED <<addr, valkey, world>>

\* The resolver answers, in the kernel's buffer, or it is known to have failed:
\* NXDOMAIN, a timeout and a server failure are one and the same.
Answered(t) ==
  /\ at[t] = "resolving"
  /\ at' = [at EXCEPT ![t] = "resolved"]
  /\ \/ /\ got' = [got EXCEPT ![t] = dns[addr[t]]]
        /\ UNCHANGED old
     \/ /\ got' = [got EXCEPT ![t] = NoName]
        /\ old' = [old EXCEPT ![addr[t]][NoName] = 0]
  /\ UNCHANGED <<addr, left, reply, has, failing, valkey, dns, conf>>

Resolved(t) ==
  /\ Runs(t, "resolved")
  /\ \/ has[t] /\ Goes(t, "set") /\ UNCHANGED has
     \/ ~has[t] /\ End(t, got[t])
  /\ UNCHANGED <<addr, valkey, world>>

\* Mutant of Set: the SET has no expiry.
SetForgetsExpiry(t) ==
  /\ Runs(t, "set")
  /\ cache' = IF up
              THEN [cache EXCEPT ![addr[t]] = [name |-> got[t], left |-> Freshness + 1]]
              ELSE cache
  /\ End(t, got[t])
  /\ UNCHANGED <<addr, pool, up, world>>

\* The name is stored for the same time whether it is a name, a proof that
\* there is none, or a timeout; an error of the SET is swallowed.
Set(t) ==
  /\ Runs(t, "set")
  /\ cache' = IF up
              THEN [cache EXCEPT ![addr[t]] = [name |-> got[t], left |-> RdnsTtl]]
              ELSE cache
  /\ End(t, got[t])
  /\ UNCHANGED <<addr, pool, up, world>>

-------------------------------------------------------------------------------
(* /health.                                                                *)

CheckHealth(t) ==
  /\ LoopFree /\ at[t] = "idle"
  /\ Goto(t, "mtrcheck")
  /\ reply' = [reply EXCEPT ![t] = "none"]
  /\ UNCHANGED <<addr, has, got, failing, valkey, world>>

\* "mtr --version" exits or times out; getcap then blocks the loop.  The loop
\* resumes a lookup that is overdue before it gets here.
MtrChecked(t) ==
  /\ Runs(t, "mtrcheck")
  /\ \A u \in Task : at[u] \in {"resolved", "set"} => left[u] > 0
  /\ Goto(t, "capcheck")
  /\ \E bad \in SUBSET {"mtr_packet"} : failing' = [failing EXCEPT ![t] = bad]
  /\ UNCHANGED <<addr, reply, has, got, valkey, world>>

\* A capability that cannot be read is "unknown", which is not a failure.
CapChecked(t) ==
  /\ at[t] = "capcheck"
  /\ GetValkey(t, "firstping", "pong")
  /\ \E bad \in SUBSET {"mtr_capability"} :
       failing' = [failing EXCEPT ![t] = @ \union bad]
  /\ UNCHANGED <<addr, reply, got, up, cache, world>>

Verdict(t, failed) == End(t, IF failed = {} THEN "healthy" ELSE "degraded")

\* health_check's get_valkey: without a client the check has failed.
HealthFirstPing(t) ==
  /\ Runs(t, "firstping")
  /\ \/ /\ up
        /\ FirstPing(t)
        /\ Goes(t, "pong")
     \/ /\ ~up
        /\ pool' = FALSE
        /\ Verdict(t, failing[t] \union {"valkey"})
  /\ UNCHANGED <<addr, up, cache, world>>

\* Mutant of Pong: a client that was handed out counts as an answer.
PongTrustsClient(t) ==
  /\ Runs(t, "pong")
  /\ Verdict(t, failing[t])
  /\ UNCHANGED <<addr, valkey, world>>

\* Its own ping, also for a client that somebody else published.
Pong(t) ==
  /\ Runs(t, "pong")
  /\ Verdict(t, IF up THEN failing[t] ELSE failing[t] \union {"valkey"})
  /\ UNCHANGED <<addr, valkey, world>>

-------------------------------------------------------------------------------
(* The world: the clock, Valkey, the DNS and the life of the process.      *)

\* While the loop is blocked only the blocking call must have time left.
Tick ==
  /\ \A t \in Task : at[t] # "idle" /\ (LoopFree \/ at[t] = "capcheck") => left[t] > 0
  /\ left' = [t \in Task |-> IF left[t] > 0 THEN left[t] - 1 ELSE 0]
  /\ cache' = [a \in Addr |->
                IF cache[a].left > 1 THEN [cache[a] EXCEPT !.left = @ - 1] ELSE Absent]
  /\ old' = [a \in Addr |-> [n \in Answers |->
              IF n = dns[a] \/ old[a][n] > Freshness THEN old[a][n] ELSE old[a][n] + 1]]
  /\ UNCHANGED <<at, addr, reply, has, got, failing, pool, up, dns, conf>>

Renumber(a, n) ==
  /\ n # dns[a]
  /\ dns' = [dns EXCEPT ![a] = n]
  /\ old' = [old EXCEPT ![a][n] = 0]
  /\ UNCHANGED <<at, addr, left, reply, has, got, failing, valkey, conf>>

\* Valkey may come back with its data or without.
ValkeyChanges ==
  /\ up' = ~up
  /\ cache' \in {cache, [a \in Addr |-> Absent]}
  /\ UNCHANGED <<at, addr, left, reply, has, got, failing, pool, world>>

\* The process ends, through the lifespan's close_valkey or not, and another
\* one starts without a client.
Restart ==
  /\ at' = [t \in Task |-> "idle"]
  /\ left' = [t \in Task |-> 0]
  /\ reply' = [t \in Task |-> "none"]
  /\ has' = [t \in Task |-> FALSE]
  /\ got' = [t \in Task |-> NoName]
  /\ failing' = [t \in Task |-> {}]
  /\ pool' = FALSE
  /\ UNCHANGED <<addr, up, cache, world>>

Init ==
  /\ at = [t \in Task |-> "idle"]
  /\ addr \in [Task -> Addr]
  /\ left = [t \in Task |-> 0]
  /\ reply = [t \in Task |-> "none"]
  /\ has = [t \in Task |-> FALSE]
  /\ got = [t \in Task |-> NoName]
  /\ failing = [t \in Task |-> {}]
  /\ pool = FALSE
  /\ up \in BOOLEAN
  /\ cache = [a \in Addr |-> Absent]
  /\ dns \in [Addr -> Answers]
  /\ conf \in BOOLEAN
  /\ old = [a \in Addr |-> [n \in Answers |-> IF n = dns[a] THEN 0 ELSE Freshness + 1]]

Step(t) ==
  \/ Ping(t) \/ Get(t) \/ Answered(t) \/ Resolved(t) \/ Set(t)
  \/ MtrChecked(t) \/ CapChecked(t) \/ HealthFirstPing(t) \/ Pong(t)

Next ==
  \/ \E t \in Task : Step(t) \/ Reject(t) \/ CheckHealth(t) \/ \E a \in Addr : Ask(t, a)
  \/ \E a \in Addr, n \in Answers : Renumber(a, n)
  \/ Tick \/ ValkeyChanges \/ Restart

\* The loop serves what is ready in order: no coroutine is passed over for
\* ever.  Nobody has to come, and nothing has to fail or to recover.
Fairness == \A t \in Task : SF_vars(Step(t))

Spec == Init /\ [][Next]_vars /\ Fairness

-------------------------------------------------------------------------------
(* Properties.                                                             *)

\* However lookups overlap, overwrite each other's entries and lose Valkey
\* between two commands, a reply was true of its address at most Freshness ago;
\* "no name" was true, or a resolver failed, that recently.
RepliesFresh ==
  [][\A t \in Task : reply'[t] # reply[t] /\ reply'[t] \in Answers
       => old[addr[t]][reply'[t]] < Freshness]_vars

\* At most one request at a time is testing the shared client, and the client
\* it tests is published: nobody else opens a second one meanwhile.
OnePublisher ==
  \A t \in Task : at[t] \in {"ping", "firstping"}
    => pool /\ \A u \in Task \ {t} : at[u] \notin {"ping", "firstping"}

\* Valkey may fail between any two commands: only an unreadable resolv.conf
\* makes a lookup raise (which rdns.py:31, "Returns None for ... failed lookups",
\* does not except).
FaultsSwallowed ==
  [][\A t \in Task : reply'[t] = "raised" /\ reply[t] # "raised" => ~conf]_vars

\* A health check that says so saw Valkey answer at that moment, whoever
\* published the client and however long ago its first ping was.
HealthSeesOutage ==
  [][\A t \in Task : reply'[t] = "healthy" /\ reply[t] # "healthy" => up]_vars

\* Every lookup and every health check ends.
EveryRequestEnds == \A t \in Task : at[t] # "idle" ~> at[t] = "idle"
==============================================================================
