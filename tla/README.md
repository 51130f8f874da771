# Formal model of cptv

cptv is a FastAPI application that tells a visitor about their network
connection. Most of it answers one request from one request. The parts with
concurrent, failing and timed behaviour are the traceroute (`mtr` subprocesses
under a process-wide cap, per-address caching and locking in Valkey, a
server-sent event stream whose client can go away at any await, and the script
that shows it), and the PTR cache. These parts and the pipeline every request
goes through are modelled here in TLA+ and checked with TLC on small instances.
Every safety property that a passing run checks is also proved with TLAPS,
for every instance.

## Inventory

| part | state | operations | interacts with | hard behaviour | what makes it correct |
|---|---|---|---|---|---|
| mtr runner (`services/traceroute.py` 108-284, 389-456) | semaphore (`_value`, waiters), one subprocess per trace | acquire, spawn, communicate / read lines, kill, release | Starlette (cancellation), mtr | timeouts racing exits, cancellation inside `finally`, abandoned generators | a slot is never lost or given twice; nobody waits for ever; at most `cap` mtr |
| cache and rate limit (308-354, 579-702) | result and lock keys in Valkey, both with a TTL | get, ttl, exists, set lock, run, store, delete | runner, Valkey, client | two-step lock, outages, disconnects, lock expiry, entries of another version | one run per key, no lock without a run, result stored before the key is free, every request ends, a hit is told as it was run |
| live hops (459-576, 654-671) | one accumulator per hop, last row per hop | one handler per kind of `mtr --raw` line, final flush | mtr output, client, cache | probes and replies of all hops interleave, address changes, bad lines | rows agree with what is known; every probed hop is listed |
| Valkey client (`services/valkey.py`) | the shared client | `get_valkey`, `close_valkey`, `health_check` | everything that caches | published before it is checked, never rechecked | an outage degrades to uncached answers |
| rDNS cache (`services/rdns.py`) | cached names, `""` for none | `lookup` | Valkey, resolver | negative caching, swallowed errors, timeout | a miss and a failure are both `None` |
| client IP and middleware (`services/ip.py`, `middleware.py`) | none | header parsing, subdomain and slash handling | proxy | order of the layers, trusted headers | the visitor's own address is reported |
| negotiation (`negotiation.py`) | none | format choice | every route | suffix, User-Agent and Accept compete | one format per request |
| ASN, GeoIP (`services/asn.py`, `geoip.py`) | open database reader | `lookup` | traceroute, pages | absent database | absent means `None` |
| DNS, timing, protocol, clock, redirect origin | none | per-request formatting | pages | parsing of foreign values | - |
| home page script (`static/app.js`) | panes, tabs, stacks, history in localStorage | fetches, EventSource handlers, timers | the routes | timers racing answers, reconnects | one trace per pane, a late answer does no harm |
| application (`main.py`, `config.py`, templates) | settings | wiring | - | - | - |

`PROJECT.json` lists the same parts with their status, the hazards at their
lines, and the source lines of every definition.

## Modules

| module | models |
|---|---|
| `SlotPool` | abstract promise of the cap: tasks own slots, slots are granted, returned, handed over or lost |
| `MtrSlots` | `_get_semaphore`, `run_mtr`, `_stream_mtr_raw_lines`, asyncio's semaphore |
| `MtrSlotsProofs` | theorems about `MtrSlots` |
| `TracerouteService` | `run_mtr_cached`, `stream_mtr_cached`, `get_valkey`, Valkey, the clock; the runner is an instance of `SlotPool` |
| `LiveHops` | `stream_mtr_live`, `_LiveHopState`, `latest_hops` |
| `TraceAnswers` | what a traceroute is told as: `run_mtr` after mtr, `cache_key`, the round trip through the cache, text, rows and frames; pure operators |
| `Site` | one request through the middlewares, the routes and negotiation, with every lookup that is a function of the request; extends `TraceAnswers` |
| `RdnsCache` | `rdns.lookup`, `get_valkey`, `health_check`, the health route |
| `TracePane` | the traceroute card of `static/app.js`, with the browser's `EventSource` |
| `TracerouteServiceProofs`, `LiveHopsProofs`, `RdnsCacheProofs`, `TracePaneProofs`, `TraceAnswersProofs`, `SiteProofs` | theorems about these modules |
| `MC*` | task sets, keys, symmetry for TLC |

### How coroutines are modelled

asyncio runs one coroutine at a time and switches only at an await. One action
is therefore one stretch of code from the await at which a coroutine was
suspended to the next one; `at[t]` names the await. Everything between two
awaits, a `finally` included, is in the same action.

`MtrSlots` is untimed: a timeout may fire whenever its await is pending.
`at[t]` is `"waiting"` in `acquire()`, `"spawning"` in
`create_subprocess_exec`, `"communicating"` in `run_mtr`'s `communicate()`,
and for the stream `"reading"` a line, `"sending"` it to the client (the
generator is suspended at its `yield`), `"exiting"` in `proc.wait()`,
`"stderr"`, `"closing"` when the consumer is gone and only the generator's
finaliser is left, and `"reaping"`, `"unwinding"`, `"finalising"` for the
`proc.wait()` of the `finally`, entered after a timeout, during a cancellation
and from the finaliser. `value`, `queue` and `woken` are asyncio's semaphore
as of Python 3.12, the version the Containerfile ships: a release hands the
slot to the first pending waiter, a newcomer queues while anyone is waiting or
woken, and a waiter cancelled after it was woken passes the wake-up on. `lost`
is a history variable: slots nobody will ever release. The blocking endpoint
is not cancelled when its client leaves (Starlette cancels streaming responses
only), so `Disconnect` is for streams. `Recancel` says whether the cancel
scope delivers the cancellation again at the next await, as anyio's does.

`TracerouteService` keeps time. `left[t]` is how long the pending await is to
last and `Tick` takes one unit from every timer and TTL. It waits for a
coroutine whose time is up, when something ends the await: a timer, the
kernel, the event loop. The awaits of a client (a send at a `yield`) and of
Valkey (a command; the client has no socket timeout) have no timeout in the
code, so they may last for ever; `Prompt` says that they take `Stall` and
`Delay` at most, and only the two runs that look for a violation set it. Valkey runs a command
in the step that resumes its caller, and a command cancelled in flight may or
may not have been executed. While a resolver call runs inside a coroutine
(`"enriching"` after `run_mtr`'s mtr, `"resolving"` in a stream) no other
coroutine moves and timers are late, for as long as `SlowDns` lets it. Blocking
and streaming requests share the look-up actions since the code does the same
there. Valkey may stop (keeping or losing its keys) and start, the app may
restart, streams may disconnect. Three history variables serve the properties:
`late[t]` counts for how long a run has been overdue in all, up to `Margin`,
`slipped[k]` says that one of the runs of a key that are under way has lost
its lock, to a `SET`, to the clock or with Valkey's keys, and `struck` holds the
runs during which Valkey has stopped.

`LiveHops` has one action per kind of raw line. mtr is external: probes are
answered in any order, late or never, from up to two addresses per hop; mtr
prints `h` lines for an address it has not printed for the hop, followed by
its `m` lines and the reply. Round-trip times are abstracted to their number,
the loss is kept in tenths of a percent with the code's rounding.

`RdnsCache` is timed as `TracerouteService` is. The resolver's answer is a
step of its own (`Answered`), at any time before the coroutine resumes, so that
a lookup may store what is no longer true; the records change at any time.
`"capcheck"` is `getcap` inside the health check: a blocking call, during which
nothing else resumes and timers are late. `old` is a history variable: for how
long a name has not been true of an address; a failed resolver counts as a
source of "no name", since the code makes no difference. Valkey comes and goes,
with or without its data, and `Restart` drops the client.

`Site` follows one request after the other: `Arrive`, the timing middleware
with its stripping of the proxy's headers, the subdomain middleware, the
handler, and back. What a request leaves behind is `entry`, the traceroute it
stored, with the run as it was for history. A later request of any client with
the same key can hit it, after a restart with another version of the program
too: `OtherVersion` gives the entry fewer or other fields (`Versions`), since
`_deserialize_result` then raises (`Readable`) or falls back on defaults.
`sent` stays as the client sent the request, so that an answer can be compared
with it after the middlewares have changed `req`. The handlers are operators
named for the functions of the source; a page is what `respond` is given. Data
is abstracted to what the code tells apart: an address is a model value with
its family, network and ranges, a host name a record of prefix, site and the
marks of its spelling (capitals, trailing dot, port, spaces), a number one of
a few at the edges of its range. What `run_mtr_cached` does is
`TracerouteService`'s subject, and here its outcome comes with the request.
HTML is modelled as the data the template is given. `Traceroute` shows that an
error on `/traceroute` itself has status 200 and only the suffixed paths keep
429 and 503. `OneEntry` is the model's bound: one entry is followed at a time,
and while it is there only the hits that read it arrive.

`TracePane` has one action per callback of the script. `net[s]` is the server's
side of a pane's connection and `queue[s]` the events the browser has yet to
deliver; the server may refuse, answer, stop or hang up at any point and the
browser reconnects on its own, as `EventSource` does, until it is closed. A row
is a number counted over all answers to the pane, so that rows of different
answers can be told apart on the screen.

## What is checked

Passing runs:

| run | shows | bounds |
|---|---|---|
| `slots` | types; every slot is free, owned once or lost; a free slot never stays beside a sleeping waiter; a stream kills its mtr before it releases; every waiter is answered and every holder lets go; `MtrSlots` implements `SlotPool` | 3 coroutines, 2 slots: a slot can be free while a woken waiter has not run and a third queues, the case in which a wake-up could be lost |
| `service_lockttl` | the slots out are those of the traces under way, however requests end; a lock expires under its run only when the run was overdue for the whole margin; runs of a key overlap only after one has lost its lock; every answered run frees its key; the result of a successful run can be read when its key becomes free, unless Valkey stopped during the run or it was overdue | 2 requests, 1 key, 1 slot they contend for, every fault, any arrivals, slow resolvers, clients and Valkey; the lock lives one unit longer than the longest run on time, a result one longer than a send and a command |
| `service_live` | every request ends unless its own client or Valkey never answers it; every lock clears | 2 requests, 1 key, every fault, slow resolver; awaits of clients and Valkey without end |
| `hops_rows` | rows agree with the accumulators and are exact once all probes are answered; every probed hop has a row at the end, silent ones with their final loss | 2 hops, 2 addresses, 3 probes, replies that do not parse: a reply before, between and after losses, and a change of address |
| `rdns_lookups` | a reply was true `Freshness` ago at most; only an unreadable resolv.conf raises; "healthy" means Valkey answered just then; one request at a time tests a new client; every request ends | 2 requests of any kind, 1 address, 1 name or none: a lookup beside a lookup that overwrites it, or beside a health check that delays it |
| `site_requests` | the bare hosts echo; TCP readings come from a local proxy only; a named type is honoured; referrers of the site itself and of others are told apart; a hit is told as the run that was stored, or fails over another version's entry, with an age that adds up, a trace to the client's own address or /64 and the client's own warning; a live stream replays as its last rows | six views of the request, each with every combination of the fields it is about: host names, proxy readings, negotiation, referrers, client addresses and connections, traces; two networks with public addresses, one with two of them; 24 shapes of an entry |
| `pane` | one request per pane at a time; nothing changes after the end; the answer that finished is on screen; every probed stack is offered; no pane stays on "Connecting" | 2 panes; one may ask twice and show 2 rows of 2 hops, the other asks once: panes share only the tabs |

`Freshness` is the resolver's wait, the wait for the SET, each prolonged by a
`getcap` that blocks the loop, and the life of an entry. A smaller bound is
violated, so that it is exact. Up to three unit lengths stand for the 0.3 s,
5 s and hours of the settings.

Time units stand for the order of the timeouts, not for seconds: in the code
60 s of mtr, 70 s of lock, 2 s of waiting. `Longest`, `2*Stall + Wait +
SubTimeout + 2*Delay`, is the longest run that is never overdue, and `Margin`
what a lock lives beyond it: with the settings 8 s less the sends and commands.
`service_lockttl` has a margin of 1 and no planned pause within a command
(`Delay = 0`; a command may last for ever all the same), to stay small;
`service_live` has one, and its lock expires early, which only adds behaviours.
Both have re-delivered cancellations and every fault.

"One run per key" does not hold of the code (`service_collide`), nor does a
lock expire only when its holder is gone, as `traceroute.py:340` has it: a slow
resolver is enough. What holds for every order of events is in
`OneRunUntilSlip` and `ExpiryNeedsDelay`: how a second run of a key can come
about, and what it takes to use up the lock's margin.

Runs that expect a violation show where the code does not do what its own
comments, settings or plan say; each has a finding in `PROJECT.json`:

| run | what happens |
|---|---|
| `slots_leak` | a cancellation in the stream's `finally` skips `sem.release()`: one slot less until a restart |
| `slots_overcap` | `run_mtr`'s timeout leaves its mtr running and frees its slot: more than `cap` processes |
| `service_collide` | two requests see no lock and both run |
| `service_outage` | an outage after the first ping is an unhandled error |
| `site_referrers` | a referrer of the site itself with a trailing dot, or a base domain with a port, looks like a captive portal |

More behaviours of the models are worth knowing and have no run of their own.

- The final flush of a live trace skips hops that have an address
  (`traceroute.py:574`), so that the stored loss of a hop can miss the probes
  lost after its last reply (`Flush`).
- A hop that answers from a second address keeps the name and ASN of the first
  (`Enrich`, `traceroute.py:502`).
- A request whose `get` missed before another run stored its result and
  deleted its lock finds neither and runs again (`Get`, then `Exists`):
  `StoredBeforeUnlocked` covers the writer's side only.
- A wait of 0 s for a slot becomes `timeout=None` (`traceroute.py:217` and
  `:411`), where `config.py:88` says that shorter values fail fast. With slots
  lost for good, waiters then wait for ever: TLC finds `WaitersAnswered`, which
  states a positive wait (`Bounded`), violated with `Bounded = FALSE`.
- `run_mtr` resolves up to 30 hops with blocking calls after mtr's 60 s
  (`traceroute.py:275`), and a stream's timer fires late behind one
  (`traceroute.py:133`): 8 s of look-ups in all and the lock expires under a
  live run, so that another one starts beside it (`ExpiryNeedsDelay`).
- An unreadable `resolv.conf` raises through `lookup`, since the resolver is
  made outside the `try` (`rdns.py:73`), where its docstring (`rdns.py:31`) gives
  `None` for failed lookups; `FaultsSwallowed` excepts it.
- A cached entry with a field this version does not know, or without one it
  needs, is an unhandled error until it expires (`Readable`,
  `traceroute.py:357`); a stream of it ends before its first event.
- A client that disconnects at the `started` event leaves the lock behind,
  since the stream's `try` begins after it (`DisconnectEarly`).
- A reply line whose time does not parse is counted all the same
  (`GarbledReplyLine`).
- A PTR lookup that times out is stored as "no name" like one that found none
  (`rdns.py:60`), for the whole life of an entry.
- `/traceroute` answers a busy or rate-limited request with status 200, and
  without the `X-Traceroute-*` headers; `/health` reports the GeoIP database as
  "ok" without looking (`health.py:67`).
- A base domain with a port has no subdomains (`middleware.py:85`), because
  Host is compared without its port; `BareHostEchoes` excepts it.
- IPv4-mapped IPv6 addresses, `::1` and `::` are all in `::/64` and share one
  cached trace, though some of them are private (`CacheKey`); as to the
  warning, `WarningIsTheClients` excepts them (`Mixed`).
- A restart with a shorter cache life finds entries with longer to live, whose
  age is then negative (`traceroute.py:327`); `IsTrace` excepts them.
- An error frame does not close the pane's source (`app.js:822`), so that the
  browser asks again a few seconds later; after an "in progress" this is what
  completes the pane. Rows of the broken answer stay until they are replaced.
- A pane that had opened and whose reconnection is refused keeps pulsing
  without a message: the timer only acts on a source that never opened.
- A pane that has given up keeps its dead source: its tab starts nothing again.

### Fairness

`MtrSlots!Fairness` is weak fairness of what the event loop, its timers and
the kernel do: a woken task runs, a timer fires, mtr exits (`-c` bounds its
probes), a killed process dies. Requests, lines, clients and restarts have no
fairness. `TracerouteService!FairSpec` is strong fairness of `Tick` and of each
request's `Proceeds`, what the process, its timers, mtr and the resolver do by
themselves: another request's resolver call disables a step again and again,
and asyncio's ready queue is first in, first out, so that the step is taken in
between. The steps that wait for a client or for Valkey (`Served`) have no
fairness and `Tick` does not wait for them, so that nothing is assumed of
either: `EveryRequestEnds` says that a request ends or stays in an await of its
own client or of Valkey. `Tick` is fair since time passes; while a resolver
call blocks the loop it passes too. `LocksClear` needs nothing else: the lock
is Valkey's to expire.
`RdnsCache!Fairness` is the same: `SF` of every request's `Step`, since a
`getcap` of another request interrupts it again and again, and the ready queue
is served in order. Neither Valkey nor the resolver has to answer; a step that
finds them silent is the timeout or the error. `TracePane!Fairness` is only
that timers fire: the server and the network may stay silent for ever.
`Site` states no liveness; a request that could not go on would be a deadlock,
which its run checks.

Deadlock checking is off in `hops_rows`, where a trace ends, and in `pane`,
where a page has nothing left to do when its panes are closed. In the other
modules a new request can always arrive.

## What is proved

`MtrSlotsProofs`, for every finite set of coroutines, every cap of at least 1,
bounded or unbounded waits and both readings of re-cancellation (the assumption
`MtrSlotsAssumption`):

- `SlotsAccounted`, `TypeCorrect`, `WakeupsNotLost`, `StreamProcessesHeld`:
  the invariants of `slots`;
- `WaitersAreQueued`: the tasks in `acquire()` are the queued and the woken;
- `Refinement`: `MtrSlots` implements `SlotPool`, which `slots` checks too;
- `SlotsWithinCap`: at most `Cap` slots are out, held or lost.

The inductive invariant is `IInv == SlotInv /\ ProcInv`. `SlotAccounting` alone
is not inductive: a hand-over keeps the sum only if the waiter at the head of
the queue owns nothing, which is `WaitersQueued`; that in turn needs the queue
to be without repetitions so that removing one entry removes the waiter.
`NoLostWakeup` is inductive only beside it. `ProcInv` says what the await of a
coroutine tells of its subprocess (killed in the `finally`, none before the
spawn, `run_mtr` only in `communicate()`), which is what `StreamProcessHeld`
needs when a coroutine becomes idle. The lemmas follow that order: what
append, tail and remove do to a queue; the pool steps in terms of `Owners`;
the four ways a slot moves (`SlotReleased`, `HolderMoves`, `HolderLeaks`, and
the acquiring actions); one step per action; `IInvStep`.

`TracerouteServiceProofs`, for any requests, keys, slots and settings within
`ServiceAssumption`:

- `TypeCorrect`, and `RunsAlwaysUnlock`: under every fault an answered run
  frees its key.
- `RunsNeverOverrun`: `ExpiryNeedsDelay`, with no assumption on resolvers,
  clients, Valkey or arrivals: a lock expires under its run only after the run
  has been overdue for `Margin` in all. It follows that the margin does not go
  on the wait for a slot, on mtr's timeout or on sends and commands on time.
- `RunsNeverOverlap`: `OneRunUntilSlip`, again with no assumption: two runs of a
  key overlap only after one of those under way has lost its lock to a racing
  `SET`, to the clock or with Valkey's keys.
- `ResultsStoredBeforeUnlocked`, assuming of the settings only that a result
  outlives a send and a command and that the lock has a margin (`ResultKept`),
  and nothing of faults, delays or arrivals: the result of a run can be read
  when its key becomes free, unless Valkey stopped during the run or it was
  overdue. A result with a shorter life can be gone by then.
- `SlotsAlwaysHeldByTraces`: under every fault the slots out are those of the
  traces under way. `TracesAlwaysWithinCap`: so at most `Cap` requests trace.

The proofs look at a step of a request as one of four moves (`Move`): `Outside`
a run, it `Starts`, `GoesOn` or `Ends` one; `StepMoves` shows that the twenty
steps and the disconnects are such moves, and the invariants are proved from
the moves. `After(place)` is how long a run may last after an await. The
inductive invariant of the lock is `Fits`, a run never has more than `Longest`
before it, and `Covered`: the lock is gone, the run has been late for `Margin`,
or `lock + late >= left[t] + After(at[t]) + Margin`. "Gone" is needed because
another run's DEL or an outage may delete it; lateness stands beside the lock's
life because a unit in which an await is overdue takes one from the lock and
none from the run. `OneRunInv` is `OneRunUntilSlip` with `Guarded`: a run whose
key has not slipped has its lock. `Stored` is for the result what `Covered` is
for the lock; `Struck` says that Valkey is down only under runs it has failed,
so that any other one has really stored its result. The slots have moves of their own (`SlotMove`: the slots are left
alone and the request stays inside or outside a trace, or it enters with a
grant, or leaves with a return or a loss), and `SlotInv` adds that the holders
are finitely many, which `Cap` bounds and no number of requests has to.

`RdnsCacheProofs`, for any requests, addresses, names and timeouts
(`RdnsAssumption`): `TypeCorrect`, `PublishedOnce`, `RepliesAlwaysFresh`,
`FaultsAlwaysSwallowed`, `HealthAlwaysSeesOutage`. `RepliesFresh` speaks of a
reply alone; its invariant follows the name from the resolver's answer to the
SET (`HeldFresh`) and into the cache (`CacheFresh`). A `getcap` makes timers
late, but one at a time (`OneBlocker`): `Aged` says that the name a lookup holds
is no older than the waits so far, and that a `getcap` in progress began before
its wait was over, so that each wait is prolonged by one `getcap` at most.

`LiveHopsProofs`, for any hops, addresses and probes (`LiveHopsAssumption`):
`TypeCorrect`, `RowsAlwaysCurrent`, `AnsweredHopsAlwaysExact`,
`EveryProbedHopAlwaysListed`. The invariant holds hop by hop: `Account` (the
probes sent are those answered and those owed), `Current`, `Lossless` (an
answered hop has a row without loss) and `Listed`. `AnsweredHopsExact` needs
`Account`: only with nothing owed are the counts equal.

`TracePaneProofs`, for any stacks, hops, requests and lengths of the queue
(`PaneAssumption`): `TypeCorrect`, `ProbedStacksAlwaysOffered`,
`DoneAlwaysShowsTrace`, `AlwaysSettledForGood`, `AlwaysOneAtATime`.
`DoneShowsTrace` compares the screen with what the server sent, so the
invariant speaks of the events in between: no row comes after a "done"
(`InOrder`), what waits is the present connection's (`Sent`), a source that
never opened has its "open" waiting first (`OpenFirst`), and the last row of a
hop is on the screen or the last one waiting (`RowsKept`). `Life` ties the
state of the source to the timer, the message and the connection.

`TraceAnswersProofs`, for any addresses, databases and limits
(`AddressAssumption`, `NetworkAssumption`): `RunKept`, that a run stored by
this version is readable and read back as it was;
`LatestHopsRight`, that of any rows `LatestHops` keeps the last one of each hop,
in the order of the hops; `StoredReplays`, that the frames of a replay are the
last frames of the stream. `LatestHops` picks the hop number with `k - 1`
numbers below it. That there is one for every `k` is shown by counting
(`RankTaken`): the ranks are different and below the size of the set, and an
injection between sets of one finite size takes every value.

`SiteProofs`, for any requests, databases, host names and versions
(`SiteAssumption`, which says what form the requests have, and
`NetworkAssumption`, that the addresses of a /64 are private alike unless in
`Mixed`): `TypeCorrect`, `BareHostsAlwaysEcho`, `ReadingsAlwaysFromProxy`,
`NamedTypesAlwaysHonoured`, `ReferrersAlwaysToldApart`, `HitsAlwaysRetold`,
`AgesAlwaysAddUp`, `WarningsAlwaysTheClients`, `ReplaysAlwaysShowLastRows`.
Each speaks of the answer and of the request as the client sent it, which no
variable relates once the middlewares have been through. `StageInv` does, stage
by stage: the handler sees `Seen(sent)`, which is what `StripUntrustedHeaders`
and the subdomain middleware make of it, and the answer is that of
`Route(Seen(sent))` with one header more. For the hits it also says what the
entry is: `entry[1].run` is a run of some client (`IsRun`), stored under the key
of its target, and the dict has nothing of a known field that the run does not
say (`HeldFrom`), whatever version shaped it. That a hit comes from the same
address or the same /64 is then a fact about `CacheKey` (`SharedKey`), since a
request is only served from the entry under its own key. The properties are
facts about `Route`, proved page by page: what `Respond` chooses
(`NamedTypeHonoured`), what `DetectSubdomain` makes of the spellings of a name
(`BareHostEchoes`), and what `TraceAnswersProofs` says of a run (`HitTold` for
`HitRetold`, `StoredReplays` for `ReplayShowsLastRows`).

Only model-checked, because liveness is beyond the prover: `WaitersAnswered`,
`HoldersMoveOn`, both `EveryRequestEnds`, `LocksClear`, `ConnectingMovesOn`; and
that nothing deadlocks.

## Not modelled

- Templates, the wording of texts, logging, best and worst times, `ran_at`, the
  server's clock and the elapsed time. HTML is the data the template gets.
- Settings and their parsing: they are constants. Quick links.
- The peer's address as uvicorn rewrites it from proxy headers: `peer` is what
  the application sees.
- A database that hangs without an error, and in `RdnsCache` a Valkey that does:
  the client has no socket timeout, so that nothing would bound the wait. In
  `TracerouteService` it may hang.
- Opening the GeoIP databases, once per process: a file that is missing at the
  first lookup stays missing until a restart.
- `reset_concurrency_cap` and a cap that changes at run time: tests only.
- A blocking request cancelled by the server's shutdown: `Restart` covers the
  state it leaves.
- The rest of the script: theme, navigation, map, geolocation, history, clock
  skew, DNSSEC, resolver, anycast and timing cards. Each fills its own element
  and reads nothing of another but the addresses the stack detection found. A
  browser without `EventSource`, where no pane is wired.

## Plan

1. `SlotPool`, `MtrSlots`, `TracerouteService`, `LiveHops`, proofs of the
   slots. Done.
2. `RdnsCache`, `TraceAnswers`, `Site`, `TracePane`. Done.
3. Proofs about `RdnsCache`, `LiveHops`, `TracePane`, `TracerouteService`,
   `TraceAnswers` and `Site`. Done. Left: a composition of `MtrSlots` and
   `TracerouteService` that shares the slots.
4. The browser's history (two tabs on one localStorage) and the timing card.
