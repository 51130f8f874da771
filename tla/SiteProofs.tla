------------------------------ MODULE SiteProofs ------------------------------
(* Safety of Site for every set of requests, addresses and databases.  Its   *)
(* requests do not meet, so that the invariant follows one of them: what the *)
(* handler sees is what the two middlewares make of what was sent, and what  *)
(* leaves is the answer of the route with one header more.  The properties   *)
(* are then facts about Route.                                               *)
EXTENDS Site, TraceAnswersProofs, SequenceTheorems

(***************************************************************************)
(* What the handler sees.                                                  *)
(***************************************************************************)

Rewritten(q) ==
  LET tag == DetectSubdomain(q.host, MiddlewareBase(q)) IN
  IF tag \in {<<"ipv4">>, <<"ipv6">>} /\ q.path = "/"
  THEN [q EXCEPT !.path = IF tag = <<"ipv4">> THEN "/ipv4" ELSE "/ipv6"]
  ELSE q

Seen(q) == Rewritten(StripUntrustedHeaders(q))

FromProxy(q) == q.peer # None /\ q.peer[1] \in Loopback

\* The timing middleware changes the readings only.
LEMMA StripKeeps ==
  ASSUME NEW q, IsRequest(q)
  PROVE  LET r == StripUntrustedHeaders(q) IN
         /\ DOMAIN r = DOMAIN q
         /\ r.peer = q.peer /\ r.xff = q.xff /\ r.host = q.host /\ r.base = q.base
         /\ r.path = q.path /\ r.format = q.format /\ r.accept = q.accept
         /\ r.agent = q.agent /\ r.conn = q.conn /\ r.resolver = q.resolver
         /\ r.referer = q.referer /\ r.via = q.via /\ r.trace = q.trace
  BY DEF StripUntrustedHeaders, IsRequest

\* A reading survives only behind a proxy on this host.
LEMMA StripReadings ==
  ASSUME NEW q, IsRequest(q)
  PROVE  LET r == StripUntrustedHeaders(q) IN
         /\ r.tcp \in [TrustedUpstreamHeaders -> Optional(Int)]
         /\ ~FromProxy(q) => \A h \in TrustedUpstreamHeaders : r.tcp[h] = None
  <1>1. q.tcp \in [TrustedUpstreamHeaders -> Optional(Int)] /\ "tcp" \in DOMAIN q
    BY DEF IsRequest
  <1>2. None \in Optional(Int)
    BY DEF None, Optional
  <1>3. CASE FromProxy(q)
    <2>1. StripUntrustedHeaders(q) = q
      BY <1>3 DEF StripUntrustedHeaders, FromProxy
    <2> QED
      BY <1>1, <1>3, <2>1
  <1>4. CASE ~FromProxy(q)
    <2> DEFINE t == [h \in DOMAIN q.tcp |->
                      IF h \in TrustedUpstreamHeaders THEN None ELSE q.tcp[h]]
    <2>1. StripUntrustedHeaders(q).tcp = t
      BY <1>1, <1>4 DEF StripUntrustedHeaders, FromProxy
    <2>2. DOMAIN q.tcp = TrustedUpstreamHeaders
      BY <1>1
    <2>3. t = [h \in TrustedUpstreamHeaders |-> None]
      BY <2>2
    <2> HIDE DEF t
    <2> QED
      BY <1>2, <2>1, <2>3
  <1> QED
    BY <1>3, <1>4

\* The subdomain middleware changes the path only, and only that of the root.
LEMMA RewriteKeeps ==
  ASSUME NEW q, "path" \in DOMAIN q
  PROVE  LET r == Rewritten(q) IN
         /\ DOMAIN r = DOMAIN q
         /\ r.peer = q.peer /\ r.xff = q.xff /\ r.host = q.host /\ r.base = q.base
         /\ r.tcp = q.tcp /\ r.format = q.format /\ r.accept = q.accept
         /\ r.agent = q.agent /\ r.conn = q.conn /\ r.resolver = q.resolver
         /\ r.referer = q.referer /\ r.via = q.via /\ r.trace = q.trace
         /\ r.path # q.path => q.path = "/" /\ r.path \in {"/ipv4", "/ipv6"}
  BY DEF Rewritten

\* What the handler sees of a request.
LEMMA SeenKeeps ==
  ASSUME NEW q, IsRequest(q)
  PROVE  LET r == Seen(q) IN
         /\ DOMAIN r = DOMAIN q
         /\ r.peer = q.peer /\ r.xff = q.xff /\ r.base = q.base
         /\ r.format = q.format /\ r.accept = q.accept
         /\ r.referer = q.referer /\ r.via = q.via /\ r.trace = q.trace
         /\ r.path # q.path => q.path = "/" /\ r.path \in {"/ipv4", "/ipv6"}
         /\ r.tcp \in [TrustedUpstreamHeaders -> Optional(Int)]
         /\ ~FromProxy(q) => \A h \in TrustedUpstreamHeaders : r.tcp[h] = None
  <1> DEFINE s == StripUntrustedHeaders(q)
             r == Rewritten(s)
  <1>1. "path" \in DOMAIN s
    BY StripKeeps DEF IsRequest
  <1>2. /\ DOMAIN s = DOMAIN q
        /\ s.peer = q.peer /\ s.xff = q.xff /\ s.base = q.base
        /\ s.format = q.format /\ s.accept = q.accept /\ s.path = q.path
        /\ s.referer = q.referer /\ s.via = q.via /\ s.trace = q.trace
        /\ s.tcp \in [TrustedUpstreamHeaders -> Optional(Int)]
        /\ ~FromProxy(q) => \A h \in TrustedUpstreamHeaders : s.tcp[h] = None
    BY StripKeeps, StripReadings
  <1> HIDE DEF s
  <1>3. /\ DOMAIN r = DOMAIN s
        /\ r.peer = s.peer /\ r.xff = s.xff /\ r.base = s.base
        /\ r.format = s.format /\ r.accept = s.accept /\ r.tcp = s.tcp
        /\ r.referer = s.referer /\ r.via = s.via /\ r.trace = s.trace
        /\ r.path # s.path => s.path = "/" /\ r.path \in {"/ipv4", "/ipv6"}
    BY <1>1, RewriteKeeps
  <1> HIDE DEF r
  <1>4. r = Seen(q)
    BY DEF r, s, Seen
  <1> QED
    BY <1>2, <1>3, <1>4

\* The middlewares leave alone who asks.
LEMMA SeenClient ==
  ASSUME NEW q, IsRequest(q)
  PROVE  ClientIp(Seen(q)) = ClientIp(q)
  BY SeenKeeps DEF ClientIp

(***************************************************************************)
(* What is stored.                                                         *)
(***************************************************************************)

\* Whoever asks is at an address.
LEMMA ClientType ==
  ASSUME NEW q, ClientIp(q) # None
  PROVE  ClientIp(q)[1] \in Addr
  BY DEF ClientIp

\* The rows of a live run are those mtr's lines give, numbered.
LEMMA EventsAre ==
  ASSUME NEW q, IsTrace(q.trace), q.trace.kind = "live"
  PROVE  LET events == Events(q) IN
         /\ events \in Seq({events[i] : i \in DOMAIN events})
         /\ \A i \in DOMAIN events : events[i].hop \in Nat /\ IsHop(events[i])
  <1> DEFINE lines == q.trace.events
             events == Events(q)
             S == {events[i] : i \in DOMAIN events}
             Lines == [hop : Nat \ {0}, hub : Hubs]
             known(i) == {j \in 1..i : lines[j].hop = lines[i].hop /\ lines[j].hub.host # None}
             first(i) == CHOOSE j \in known(i) : \A k \in known(i) : j <= k
             last(i) == CHOOSE j \in known(i) : \A k \in known(i) : k <= j
             hub(i, host) == [lines[i].hub EXCEPT !.host = host]
             row(i, host) == EnrichHop(lines[i].hop, hub(i, host))
             event(i) == IF known(i) = {} THEN row(i, None)
                         ELSE [row(i, lines[first(i)].hub.host) EXCEPT !.ip = lines[last(i)].hub.host]
  <1>1. lines \in Seq(Lines)
    BY DEF IsTrace
  <1>2. events = [i \in DOMAIN lines |-> event(i)]
    BY DEF Events
  <1>3. \A i : \/ event(i) = row(i, None)
             \/ event(i) = [row(i, lines[first(i)].hub.host) EXCEPT !.ip = lines[last(i)].hub.host]
    BY Zenon
  <1>4. \A line \in Lines : line.hop \in Nat
    OBVIOUS
  <1> HIDE DEF lines, events, Lines, known, first, last, hub, event
  <1>5. /\ DOMAIN lines = 1..Len(lines) /\ Len(lines) \in Nat /\ DOMAIN events = DOMAIN lines
        /\ events = [i \in DOMAIN events |-> events[i]]
    BY <1>1, <1>2
  <1>6. events = [i \in 1..Len(lines) |-> events[i]] /\ \A i \in 1..Len(lines) : events[i] \in S
    BY <1>5
  <1> HIDE DEF S
  <1>7. events \in Seq(S)
    BY <1>5, <1>6
  <1>8. ASSUME NEW i \in DOMAIN events
        PROVE  events[i].hop = lines[i].hop /\ IsHop(events[i])
    <2>1. PICK h, host : \/ events[i] = EnrichHop(lines[i].hop, h)
                         \/ events[i] = [EnrichHop(lines[i].hop, h) EXCEPT !.ip = host]
      <3>1. events[i] = event(i)
        BY <1>2, <1>5
      <3>2. event(i) = row(i, None)
            \/ event(i) = [row(i, lines[first(i)].hub.host) EXCEPT !.ip = lines[last(i)].hub.host]
        BY <1>3
      <3> HIDE DEF event
      <3> QED
        BY <3>1, <3>2
    <2>2. EnrichHop(lines[i].hop, h).hop = lines[i].hop
      BY DEF EnrichHop
    <2>3. [EnrichHop(lines[i].hop, h) EXCEPT !.ip = host].hop = lines[i].hop
      BY <2>2 DEF EnrichHop
    <2>4. /\ IsHop(EnrichHop(lines[i].hop, h))
          /\ IsHop([EnrichHop(lines[i].hop, h) EXCEPT !.ip = host])
      BY HopKept
    <2> QED
      BY <2>1, <2>2, <2>3, <2>4
  <1>9. \A i \in DOMAIN events : events[i].hop \in Nat
    BY <1>1, <1>4, <1>5, <1>8
  <1> QED
    BY <1>7, <1>8, <1>9 DEF S, events

\* What a request has stored is a run of its own client.
LEMMA StoredIsRun ==
  ASSUME NEW q, IsTrace(q.trace), NEW run \in Stored(q)
  PROVE  IsRun(run)
  <1>1. ClientIp(q) # None /\ q.trace.kind = "live"
    BY DEF Stored
  <1>2. ClientIp(q)[1] \in Addr /\ q.trace.hubs \in Seq(Hubs)
    BY <1>1, ClientType DEF IsTrace
  <1>3. run = RunMtr(ClientIp(q)[1], q.trace.hubs) \/ run = StreamStored(ClientIp(q)[1], Events(q))
    BY DEF Stored
  <1>4. IsRun(RunMtr(ClientIp(q)[1], q.trace.hubs))
    BY <1>2, RunIsRun
  <1>5. IsRun(StreamStored(ClientIp(q)[1], Events(q)))
    BY <1>1, <1>2, EventsAre, StreamIsRun
  <1> QED
    BY <1>3, <1>4, <1>5

\* An entry is under the key of the run's client and has what it has of the run.
IsEntry(e) ==
  /\ e = [key |-> CacheKey(e.run.target), dict |-> e.dict, run |-> e.run]
  /\ IsRun(e.run) /\ HeldFrom(e.dict, e.run)

EntryInv == entry = None \/ (entry = <<entry[1]>> /\ IsEntry(entry[1]))

\* Another version's entry has what it has of the run unchanged.
LEMMA ReshapedHeld ==
  ASSUME NEW run, IsRun(run), NEW version
  PROVE  HeldFrom(Reshaped(run, version), run)
  <1> DEFINE hop(h) == [f \in (DOMAIN h \ version.hopLacks) \union version.hopMore |->
                         Field(h, f, "other")]
             hops == [n \in DOMAIN run.hops |-> hop(run.hops[n])]
             dict == Reshaped(run, version)
  <1>1. dict = [f \in DOMAIN run \ version.lacks |-> IF f = "hops" THEN hops ELSE run[f]]
    BY DEF Reshaped
  <1>2. ASSUME NEW n \in DOMAIN run.hops, NEW f \in DOMAIN hops[n] \intersect HopFields
        PROVE  hops[n][f] = run.hops[n][f]
    <2>1. f \in DOMAIN run.hops[n]
      BY DEF IsRun, IsHop
    <2>2. hops[n][f] = Field(run.hops[n], f, "other")
      OBVIOUS
    <2> QED
      BY <2>1, <2>2 DEF Field
  <1>3. DOMAIN hops = DOMAIN run.hops
    OBVIOUS
  <1> HIDE DEF hops, dict
  <1>4. /\ \A f \in DOMAIN dict \ {"hops"} : dict[f] = run[f]
        /\ "hops" \in DOMAIN dict => dict.hops = hops
        /\ DOMAIN dict \subseteq DOMAIN run
    BY <1>1
  <1>5. HeldFrom(dict, run)
    BY <1>2, <1>3, <1>4 DEF HeldFrom
  <1> QED
    BY <1>5 DEF dict

(***************************************************************************)
(* The life of a request.                                                  *)
(***************************************************************************)

Timed(r) == IF r.status = 500 THEN r ELSE [r EXCEPT !.headers = @ \union {"X-Response-Time-Ms"}]

Tags == Opt({"ipv4", "ipv6", "secure"})

\* Each stage in terms of the request that was sent.
StageInv ==
  /\ stage \in Stages
  /\ state.subdomain \in Tags
  /\ DOMAIN state = {"stamped", "subdomain"}
  /\ stage = "idle" => sent = NoRequest /\ req = NoRequest
  /\ stage # "idle" => sent # NoRequest /\ IsRequest(sent) /\ Possible(sent)
  /\ stage = "timing" => req = sent
  /\ stage = "subdomain" => req = StripUntrustedHeaders(sent)
  /\ stage \in {"handler", "leaving", "answered"} => req = Seen(sent)
  /\ stage \in {"idle", "timing", "subdomain", "handler"} => resp = NoResponse
  /\ stage = "leaving" => resp = Route(req, Found(req))
  /\ stage = "answered" => resp = Timed(Route(req, Found(req)))
  /\ EntryInv

\* The tag is one of three or none.
LEMMA TagType ==
  ASSUME NEW host, NEW base
  PROVE  DetectSubdomain(host, base) \in Tags
  BY DEF DetectSubdomain, Tags, Opt, None

\* The invariant holds when no request has come yet.
LEMMA StageInit ==
  ASSUME Init
  PROVE  StageInv
  BY DEF Init, StageInv, NoState, NoResponse, Stages, Tags, Opt, EntryInv

\* Every step of a request keeps the invariant.
LEMMA StageStep ==
  ASSUME StageInv, [Next]_vars
  PROVE  StageInv'
  <1> USE DEF Stages
  <1>1. CASE Arrive
    <2>1. PICK i \in DOMAIN Views : \E q \in Views[i] : Possible(q) /\ sent' = q /\ req' = q
      BY <1>1 DEF Arrive
    <2>2. PICK q \in Views[i] : Possible(q) /\ sent' = q /\ req' = q
      BY <2>1
    <2>3. IsRequest(q) /\ q # NoRequest
      BY SiteAssumption
    <2>4. entry' = entry /\ Possible(sent)'
      BY <1>1, <2>2 DEF Arrive, Possible, ClientIp
    <2> QED
      BY <1>1, <2>2, <2>3, <2>4 DEF Arrive, StageInv, EntryInv
  <1>2. CASE RequestTiming
    <2>1. state'.subdomain = state.subdomain /\ DOMAIN state' = DOMAIN state
      BY <1>2 DEF RequestTiming, StageInv
    <2>2. Possible(sent)' = Possible(sent) /\ EntryInv' = EntryInv
      BY <1>2 DEF RequestTiming, Possible, ClientIp, EntryInv
    <2> QED
      BY <1>2, <2>1, <2>2 DEF RequestTiming, StageInv
  <1>3. CASE Subdomain
    <2>1. /\ req' = Rewritten(req) /\ UNCHANGED <<sent, resp, entry>>
          /\ stage = "subdomain" /\ stage' = "handler"
      BY <1>3 DEF Subdomain, Rewritten
    <2>2. state'.subdomain \in Tags /\ DOMAIN state' = DOMAIN state
      BY <1>3, TagType DEF Subdomain, StageInv
    <2>3. req' = Seen(sent)
      BY <2>1 DEF StageInv, Seen
    <2>4. Possible(sent)' = Possible(sent) /\ EntryInv' = EntryInv
      BY <2>1 DEF Possible, ClientIp, EntryInv
    <2> QED
      BY <2>1, <2>2, <2>3, <2>4 DEF StageInv
  <1>4. CASE Handle
    <2>1. /\ stage = "handler" /\ stage' = "leaving" /\ UNCHANGED <<sent, req, state>>
          /\ resp' = Route(req, Found(req))
          /\ entry' \in {entry} \union {<<EntryOf(run)>> : run \in Stored(req)}
      BY <1>4 DEF Handle
    <2>2. IsRequest(sent) /\ Possible(sent) /\ req = Seen(sent) /\ EntryInv
      BY <2>1 DEF StageInv
    <2>3. req.trace = sent.trace /\ IsTrace(req.trace)
      BY <2>2, SeenKeeps DEF IsRequest
    <2>4. req.trace.kind = "hit" => entry' = entry
      BY <2>1 DEF Stored
    <2>5. Found(req)' = Found(req)
      BY <2>1, <2>4 DEF Found
    <2>6. Possible(sent)'
      BY <2>1, <2>2, <2>3, <2>4 DEF Possible, ClientIp
    <2>7. EntryInv'
      <3>1. CASE entry' = entry
        BY <2>2, <3>1 DEF EntryInv
      <3>2. ASSUME NEW run \in Stored(req), entry' = <<EntryOf(run)>>
            PROVE  EntryInv'
        <4>1. IsRun(run) /\ HeldFrom(run, run)
          BY <2>3, StoredIsRun DEF HeldFrom
        <4>2. IsEntry(EntryOf(run))
          BY <4>1 DEF IsEntry, EntryOf
        <4> QED
          BY <3>2, <4>2 DEF EntryInv
      <3> QED
        BY <2>1, <3>1, <3>2
    <2>8. resp' = Route(req, Found(req))'
      BY <2>1, <2>5 DEF Route
    <2> QED
      BY <2>1, <2>2, <2>6, <2>7, <2>8 DEF StageInv
  <1>5. CASE Leave
    <2>1. /\ stage = "leaving" /\ stage' = "answered" /\ UNCHANGED <<sent, req, state, entry>>
          /\ resp' = Timed(resp)
      BY <1>5 DEF Leave, Timed
    <2>2. /\ Possible(sent)' = Possible(sent) /\ EntryInv' = EntryInv
          /\ Timed(Route(req, Found(req)))' = Timed(Route(req, Found(req)))
      BY <2>1 DEF Possible, ClientIp, EntryInv, Timed, Found
    <2> QED
      BY <2>1, <2>2 DEF StageInv
  <1>6. CASE Close
    <2>1. EntryInv' = EntryInv
      BY <1>6 DEF Close, EntryInv
    <2> QED
      BY <1>6, <2>1 DEF Close, StageInv, NoState, Tags, Opt
  <1>7. CASE Expire
    BY <1>7 DEF Expire, StageInv, EntryInv
  <1>8. CASE OtherVersion
    <2>1. PICK v \in Versions : entry' = <<[entry[1] EXCEPT !.dict = Reshaped(@, v)]>>
      BY <1>8 DEF OtherVersion
    <2>2. IsEntry(entry[1]) /\ entry[1].dict = entry[1].run
      BY <1>8 DEF OtherVersion, StageInv, EntryInv
    <2> DEFINE run == entry[1].run
               e == [key |-> CacheKey(run.target), dict |-> Reshaped(run, v), run |-> run]
    <2>3. IsRun(run) /\ HeldFrom(Reshaped(run, v), run)
      BY <2>2, ReshapedHeld DEF IsEntry
    <2>4. entry' = <<e>>
      BY <2>1, <2>2 DEF IsEntry
    <2> HIDE DEF run
    <2>5. IsEntry(e)
      BY <2>3 DEF IsEntry
    <2> HIDE DEF e
    <2>6. EntryInv'
      BY <2>4, <2>5 DEF EntryInv
    <2> QED
      BY <1>8, <2>6 DEF OtherVersion, StageInv
  <1>9. CASE UNCHANGED vars
    <2>1. UNCHANGED <<stage, sent, req, state, resp, entry>>
      BY <1>9 DEF vars
    <2>2. /\ Possible(sent)' = Possible(sent) /\ EntryInv' = EntryInv
          /\ Route(req, Found(req))' = Route(req, Found(req))
          /\ Timed(Route(req, Found(req)))' = Timed(Route(req, Found(req)))
      BY <2>1 DEF Possible, ClientIp, EntryInv, Timed, Found
    <2> QED
      BY <2>1, <2>2 DEF StageInv
  <1> QED
    BY <1>1, <1>2, <1>3, <1>4, <1>5, <1>6, <1>7, <1>8, <1>9 DEF Next

\* The invariant holds in every state.
THEOREM StagesFollow == Spec => []StageInv
  <1>1. Init => StageInv
    BY StageInit
  <1>2. StageInv /\ [Next]_vars => StageInv'
    BY StageStep
  <1> QED
    BY <1>1, <1>2, PTL DEF Spec

(***************************************************************************)
(* What a route answers.                                                   *)
(***************************************************************************)

Forms == {"json", "text", "html"}
Shape == {"status", "form", "body", "hint", "headers", "trace"}

\* One of three formats is chosen, whatever is asked.
LEMMA FormatType ==
  ASSUME NEW q, NEW html
  PROVE  ChooseFormat(q, html) \in Forms
  BY DEF ChooseFormat, Forms

\* A page's answer.
LEMMA RespondShape ==
  ASSUME NEW q, NEW page
  PROVE  LET r == Respond(q, page) IN
         /\ DOMAIN r = Shape /\ r.status = 200 /\ r.form \in Forms /\ r.trace = None
         /\ r.body = IF r.form = "text" THEN page.text[1] ELSE page.data[1]
  <1> DEFINE format == ChooseFormat(q, page.html)
             form == IF format = "html" /\ ~page.html THEN "json" ELSE format
             body == IF form = "text" THEN page.text[1] ELSE page.data[1]
             hint == form = "text" /\ page.hint
             headers == IF page.public THEN Public ELSE {}
  <1>1. Respond(q, page) = [Bare(200, form, body) EXCEPT !.hint = hint, !.headers = headers]
    BY DEF Respond
  <1>2. form \in Forms
    BY FormatType DEF Forms
  <1>3. body = IF form = "text" THEN page.text[1] ELSE page.data[1]
    OBVIOUS
  <1> HIDE DEF form, body, hint, headers
  <1>4. LET r == Respond(q, page) IN
        DOMAIN r = Shape /\ r.status = 200 /\ r.form = form /\ r.trace = None /\ r.body = body
    BY <1>1 DEF Bare, Shape
  <1> QED
    BY <1>2, <1>3, <1>4

\* A page that is public and gives no tip.
LEMMA RespondPublic ==
  ASSUME NEW q, NEW page, page.hint = FALSE, page.public = TRUE
  PROVE  Respond(q, page).hint = FALSE /\ Respond(q, page).headers = Public
  <1> DEFINE format == ChooseFormat(q, page.html)
             form == IF format = "html" /\ ~page.html THEN "json" ELSE format
             body == IF form = "text" THEN page.text[1] ELSE page.data[1]
             hint == form = "text" /\ page.hint
             headers == IF page.public THEN Public ELSE {}
  <1>1. Respond(q, page) = [Bare(200, form, body) EXCEPT !.hint = hint, !.headers = headers]
    BY DEF Respond
  <1>2. hint = FALSE /\ headers = Public
    OBVIOUS
  <1> HIDE DEF form, body, hint, headers
  <1>3. Respond(q, page).hint = hint /\ Respond(q, page).headers = headers
    BY <1>1 DEF Bare
  <1> QED
    BY <1>2, <1>3

\* A page with a template is given in the format that was chosen.
LEMMA RespondChosen ==
  ASSUME NEW q, NEW page, page.html = TRUE
  PROVE  Respond(q, page).form = ChooseFormat(q, TRUE)
  <1> DEFINE format == ChooseFormat(q, page.html)
             form == IF format = "html" /\ ~page.html THEN "json" ELSE format
             body == IF form = "text" THEN page.text[1] ELSE page.data[1]
             hint == form = "text" /\ page.hint
             headers == IF page.public THEN Public ELSE {}
  <1>1. Respond(q, page) = [Bare(200, form, body) EXCEPT !.hint = hint, !.headers = headers]
    BY DEF Respond
  <1>2. form = format
    OBVIOUS
  <1>3. format = ChooseFormat(q, TRUE)
    OBVIOUS
  <1> HIDE DEF form, body, hint, headers, format
  <1>4. Respond(q, page).form = form
    BY <1>1 DEF Bare
  <1> QED
    BY <1>2, <1>3, <1>4

\* The last header changes nothing else.
LEMMA TimedIs ==
  ASSUME NEW r, DOMAIN r = Shape
  PROVE  LET t == Timed(r) IN
         /\ t.status = r.status /\ t.form = r.form /\ t.body = r.body /\ t.hint = r.hint
         /\ t.trace = r.trace /\ r.headers \subseteq t.headers
  BY DEF Timed, Shape

\* A plain answer.
LEMMA BareIs ==
  ASSUME NEW status, NEW form, NEW body
  PROVE  LET r == Bare(status, form, body) IN
         /\ DOMAIN r = Shape /\ r.status = status /\ r.form = form /\ r.body = body
         /\ r.trace = None
  BY DEF Bare, Shape

\* An error of the application.
LEMMA HttpErrorIs ==
  ASSUME NEW status, NEW detail
  PROVE  LET r == HttpError(status, detail) IN
         /\ DOMAIN r = Shape /\ r.status = status /\ r.form = "json" /\ r.trace = None
  BY DEF HttpError, Bare, Shape

\* An error of the traceroute routes.
LEMMA ErrorIs ==
  ASSUME NEW q, NEW message, NEW status \in {200, 429, 503}
  PROVE  LET r == ErrorResponse(q, message, status) IN
         /\ DOMAIN r = Shape /\ r.status \in {200, 429, 503} /\ r.form \in Forms
         /\ r.trace = None
  <1> DEFINE data == [error |-> message]
  <1>1. CASE q.path = "/traceroute.json"
    <2>1. ErrorResponse(q, message, status) = Bare(status, "json", data)
      BY <1>1 DEF ErrorResponse
    <2> QED
      BY <2>1, BareIs DEF Forms
  <1>2. CASE q.path = "/traceroute.txt"
    <2>1. ErrorResponse(q, message, status) = Bare(status, "text", data)
      BY <1>2 DEF ErrorResponse
    <2> QED
      BY <2>1, BareIs DEF Forms
  <1>3. CASE q.path \notin {"/traceroute.json", "/traceroute.txt"}
    <2> DEFINE page == Page(data, data, TRUE, FALSE)
    <2>1. ErrorResponse(q, message, status) = Respond(q, page)
      BY <1>3 DEF ErrorResponse
    <2> HIDE DEF page
    <2> QED
      BY <2>1, RespondShape
  <1> QED
    BY <1>1, <1>2, <1>3

\* A result of the traceroute routes, with its age.
LEMMA ResultIs ==
  ASSUME NEW q, NEW found
  PROVE  LET r == ResultResponse(q, found) IN
         /\ DOMAIN r = Shape /\ r.status = 200 /\ r.form \in Forms /\ r.trace = <<Meta(q)>>
         /\ r.form # "text" => r.body = Result(q, found)
  <1> DEFINE told == CASE q.path = "/traceroute.json" -> Bare(200, "json", Result(q, found))
                       [] q.path = "/traceroute.txt"  -> Bare(200, "text", FormatText(Result(q, found)))
                       [] OTHER -> Respond(q, Page(Result(q, found), FormatText(Result(q, found)), TRUE, FALSE))
  <1>1. /\ DOMAIN told = Shape /\ told.status = 200 /\ told.form \in Forms
        /\ told.form # "text" => told.body = Result(q, found)
    <2>1. CASE q.path = "/traceroute.json"
      <3>1. told = Bare(200, "json", Result(q, found))
        BY <2>1
      <3> HIDE DEF told
      <3> QED
        BY <3>1, BareIs DEF Forms
    <2>2. CASE q.path = "/traceroute.txt"
      <3>1. told = Bare(200, "text", FormatText(Result(q, found)))
        BY <2>2
      <3> HIDE DEF told
      <3> QED
        BY <3>1, BareIs DEF Forms
    <2>3. CASE q.path \notin {"/traceroute.json", "/traceroute.txt"}
      <3> DEFINE page == Page(Result(q, found), FormatText(Result(q, found)), TRUE, FALSE)
      <3>1. told = Respond(q, page)
        BY <2>3
      <3>2. page.data[1] = Result(q, found)
        BY DEF Page
      <3> HIDE DEF told, page
      <3> QED
        BY <3>1, <3>2, RespondShape
    <2> QED
      BY <2>1, <2>2, <2>3
  <1>2. ResultResponse(q, found) = [told EXCEPT !.trace = <<Meta(q)>>]
    BY DEF ResultResponse
  <1> HIDE DEF told
  <1> QED
    BY <1>1, <1>2 DEF Shape

\* The answer tells a trace and its age.
TellsTrace(q, found, r) ==
  /\ ClientIp(q) # None /\ q.trace.kind \in {"hit", "live"} /\ ~Unreadable(q, found)
  /\ r.trace = <<Meta(q)>> /\ r.form \in Forms
  /\ r.form # "text" => r.body = Result(q, found)

\* Which answer a traceroute route gives; it fails over an entry only.
LEMMA TracerouteIs ==
  ASSUME NEW q, IsTrace(q.trace), NEW found
  PROVE  LET r == Traceroute(q, found) IN
         /\ DOMAIN r = Shape /\ r.status \in {200, 429, 500, 503} /\ r.form \in Forms
         /\ r.status = 500 => Unreadable(q, found)
         /\ r.trace # None => TellsTrace(q, found, r)
  <1> DEFINE r == Traceroute(q, found)
  <1>1. q.trace.kind \in {"hit", "live", "limited", "busy", "exit"}
    BY DEF IsTrace
  <1>2. CASE ClientIp(q) = None
    <2>1. r = ErrorResponse(q, "no_address", 200)
      BY <1>2 DEF Traceroute
    <2> QED
      BY <2>1, ErrorIs
  <1>3. CASE ClientIp(q) # None /\ q.trace.kind = "limited"
    <2>1. r = ErrorResponse(q, "in_progress", 429)
      BY <1>3 DEF Traceroute, Unreadable
    <2> QED
      BY <2>1, ErrorIs
  <1>4. CASE ClientIp(q) # None /\ q.trace.kind = "busy"
    <2>1. r = ErrorResponse(q, "busy", 503)
      BY <1>4 DEF Traceroute, Unreadable
    <2> QED
      BY <2>1, ErrorIs
  <1>5. CASE ClientIp(q) # None /\ q.trace.kind = "exit"
    <2>1. r = ErrorResponse(q, TranslateError(q.trace.ended), 200)
      BY <1>5 DEF Traceroute, Unreadable
    <2> QED
      BY <2>1, ErrorIs
  <1>6. CASE ClientIp(q) # None /\ Unreadable(q, found)
    <2>1. r = Unhandled
      BY <1>6 DEF Traceroute, Unreadable
    <2> QED
      BY <1>6, <2>1, BareIs DEF Unhandled, Forms
  <1>7. CASE ClientIp(q) # None /\ q.trace.kind \in {"hit", "live"} /\ ~Unreadable(q, found)
    <2>1. r = ResultResponse(q, found)
      BY <1>7 DEF Traceroute
    <2> HIDE DEF r
    <2>2. /\ DOMAIN r = Shape /\ r.status = 200 /\ r.form \in Forms /\ r.trace = <<Meta(q)>>
          /\ r.form # "text" => r.body = Result(q, found)
      BY <2>1, ResultIs
    <2> QED
      BY <1>7, <2>2 DEF TellsTrace, r
  <1> QED
    BY <1>1, <1>2, <1>3, <1>4, <1>5, <1>6, <1>7

\* The stream is always opened.
LEMMA StreamIs ==
  ASSUME NEW q, NEW found
  PROVE  LET r == TracerouteStream(q, found) IN
         /\ DOMAIN r = Shape /\ r.status = 200 /\ r.form = "event-stream" /\ r.trace = None
         /\ r.body = StreamFrames(q, found)
  BY DEF TracerouteStream, Bare, Shape

\* The frames of a hit and of a live run.
LEMMA FramesOf ==
  ASSUME NEW q, NEW found, ClientIp(q) # None
  PROVE  /\ q.trace.kind = "hit"
              => StreamFrames(q, found) = ReplayFrames(found[1].dict, q.trace.remaining)
         /\ q.trace.kind = "live" => StreamFrames(q, found) = LiveFrames(ClientIp(q)[1], Events(q))
  BY DEF StreamFrames

\* A reverse lookup is a page or an error.
LEMMA RdnsIs ==
  ASSUME NEW q
  PROVE  LET r == Rdns(q) IN
         /\ DOMAIN r = Shape /\ r.status \in {200, 400} /\ r.form \in Forms /\ r.trace = None
  <1>1. PICK a, detail : Rdns(q) = IF a # None THEN Respond(q, RdnsPage(a[1]))
                                   ELSE HttpError(400, detail)
    BY DEF Rdns
  <1>2. CASE a = None
    BY <1>1, <1>2, HttpErrorIs DEF Forms
  <1>3. CASE a # None
    BY <1>1, <1>3, RespondShape
  <1> QED
    BY <1>2, <1>3

\* Which handler a path has.
LEMMA RouteTo ==
  ASSUME NEW q, NEW found
  PROVE  LET r == Route(q, found) IN
         /\ q.path \in Pages => r = Respond(q, PageOf(q.path, q))
         /\ q.path \in {"/rdns", "/rdns/{ip}"} => r = Rdns(q)
         /\ q.path \in TracePaths => r = Traceroute(q, found)
         /\ q.path = "/traceroute/stream" => r = TracerouteStream(q, found)
         /\ q.path \notin Pages \union {"/rdns", "/rdns/{ip}"} \union TracePaths
                         \union {"/traceroute/stream"}
              => r = HttpError(404, "not_found")
  BY DEF Route, Pages, TracePaths

\* The stream's body is its frames.
LEMMA StreamBody ==
  ASSUME NEW q, NEW found, q.path = "/traceroute/stream"
  PROVE  Route(q, found).body = StreamFrames(q, found)
  <1>1. Route(q, found) = TracerouteStream(q, found)
    BY RouteTo
  <1> QED
    BY <1>1, StreamIs

\* What every answer has, and what tells a traced one.
LEMMA RouteIs ==
  ASSUME NEW q, IsTrace(q.trace), NEW found
  PROVE  LET r == Route(q, found) IN
         /\ DOMAIN r = Shape /\ r.status \in {200, 400, 404, 429, 500, 503}
         /\ r.status = 500 => Unreadable(q, found)
         /\ r.form = "event-stream" => q.path = "/traceroute/stream"
         /\ r.trace # None => TellsTrace(q, found, r)
  <1> DEFINE r == Route(q, found)
  <1>1. CASE q.path \in Pages
    <2>1. r = Respond(q, PageOf(q.path, q))
      BY <1>1, RouteTo
    <2> QED
      BY <2>1, RespondShape DEF Forms
  <1>2. CASE q.path \in {"/rdns", "/rdns/{ip}"}
    <2>1. r = Rdns(q)
      BY <1>2, RouteTo
    <2> QED
      BY <2>1, RdnsIs DEF Forms
  <1>3. CASE q.path \in TracePaths
    <2>1. r = Traceroute(q, found)
      BY <1>3, RouteTo
    <2> QED
      BY <2>1, TracerouteIs DEF Forms
  <1>4. CASE q.path = "/traceroute/stream"
    <2>1. r = TracerouteStream(q, found)
      BY <1>4, RouteTo
    <2> QED
      BY <1>4, <2>1, StreamIs
  <1>5. CASE q.path \notin Pages \union {"/rdns", "/rdns/{ip}"} \union TracePaths
                           \union {"/traceroute/stream"}
    <2>1. r = HttpError(404, "not_found")
      BY <1>5, RouteTo
    <2> QED
      BY <2>1, HttpErrorIs
  <1> QED
    BY <1>1, <1>2, <1>3, <1>4, <1>5

(***************************************************************************)
(* The type invariant.                                                     *)
(***************************************************************************)

\* The type invariant holds in every state.
THEOREM TypeCorrect == Spec => []TypeOK
  <1>1. StageInv => TypeOK
    <2> SUFFICES ASSUME StageInv PROVE TypeOK
      OBVIOUS
    <2>1. stage \in Stages /\ state.subdomain \in Opt({"ipv4", "ipv6", "secure"})
      BY DEF StageInv, Tags
    <2>2. (stage = "idle") <=> (sent = NoRequest)
      BY DEF StageInv
    <2>3. stage # "idle" => DOMAIN req = DOMAIN sent
      BY SeenKeeps, StripKeeps DEF StageInv, Stages
    <2>4. entry # None => DOMAIN entry[1] = {"key", "dict", "run"}
      BY DEF StageInv, EntryInv, IsEntry
    <2>5. CASE stage \in {"leaving", "answered"}
      <3> DEFINE r == Route(req, Found(req))
      <3>1. IsRequest(sent) /\ req = Seen(sent)
        BY <2>5 DEF StageInv
      <3>2. req.trace = sent.trace /\ IsTrace(req.trace)
        BY <3>1, SeenKeeps DEF IsRequest
      <3>3. /\ DOMAIN r = Shape /\ r.status \in {200, 400, 404, 429, 500, 503}
            /\ r.status = 500 => Unreadable(req, Found(req))
        BY <3>2, RouteIs
      <3>4. resp = r \/ resp = Timed(r)
        BY <2>5 DEF StageInv
      <3> HIDE DEF r
      <3>5. resp.status = r.status
        BY <3>3, <3>4, TimedIs
      <3> QED
        BY <2>1, <2>2, <2>3, <2>4, <2>5, <3>2, <3>3, <3>5 DEF TypeOK, Unreadable
    <2>6. CASE stage \notin {"leaving", "answered"}
      <3>1. resp.status = 0
        BY <2>1, <2>6, BareIs DEF StageInv, Stages, NoResponse
      <3> QED
        BY <2>1, <2>2, <2>3, <2>4, <2>6, <3>1 DEF TypeOK
    <2> QED
      BY <2>5, <2>6
  <1> QED
    BY <1>1, StagesFollow, PTL

(***************************************************************************)
(* The answer to what was sent.                                            *)
(***************************************************************************)

\* An answer is the route's for what the handler saw.
LEMMA AnswerIs ==
  ASSUME StageInv, Answered
  PROVE  LET r == Route(req, Found(req)) IN
         /\ IsRequest(sent) /\ req = Seen(sent)
         /\ IsTrace(req.trace) /\ req.trace = sent.trace
         /\ ClientIp(req) = ClientIp(sent)
         /\ DOMAIN r = Shape
         /\ resp.status = r.status /\ resp.form = r.form /\ resp.body = r.body
         /\ resp.hint = r.hint /\ resp.trace = r.trace /\ r.headers \subseteq resp.headers
         /\ resp.status = 500 => Unreadable(req, Found(req))
         /\ resp.trace # None => TellsTrace(req, Found(req), r)
         /\ resp.form = "event-stream" => req.path = "/traceroute/stream"
  <1> DEFINE r == Route(req, Found(req))
  <1>1. IsRequest(sent) /\ req = Seen(sent) /\ resp = Timed(r)
    BY DEF StageInv, Answered
  <1>2. req.trace = sent.trace
    BY <1>1, SeenKeeps
  <1>3. IsTrace(req.trace)
    BY <1>1, <1>2 DEF IsRequest
  <1>4. ClientIp(req) = ClientIp(sent)
    BY <1>1, SeenClient
  <1>5. /\ DOMAIN r = Shape
        /\ r.status = 500 => Unreadable(req, Found(req))
        /\ r.trace # None => TellsTrace(req, Found(req), r)
        /\ r.form = "event-stream" => req.path = "/traceroute/stream"
    BY <1>3, RouteIs
  <1> HIDE DEF r
  <1>6. /\ resp.status = r.status /\ resp.form = r.form /\ resp.body = r.body
        /\ resp.hint = r.hint /\ resp.trace = r.trace /\ r.headers \subseteq resp.headers
    BY <1>1, <1>5, TimedIs
  <1> QED
    BY <1>1, <1>2, <1>3, <1>4, <1>5, <1>6 DEF r

(***************************************************************************)
(* Cached results.                                                         *)
(***************************************************************************)

\* A hit reads an entry under its client's key.
LEMMA HitEntry ==
  ASSUME StageInv, Traced
  PROVE  LET run == entry[1].run
             dict == entry[1].dict
         IN /\ Answered /\ req.trace = sent.trace /\ req.trace.kind = "hit"
            /\ Found(req) = entry /\ IsRun(run) /\ HeldFrom(dict, run)
            /\ CacheKey(run.target) = CacheKey(ClientIp(sent)[1])
            /\ Unreadable(req, Found(req)) <=> ~Readable(dict)
  <1>1. Answered /\ sent.trace.kind = "hit" /\ ClientIp(sent) # None
    BY DEF Traced
  <1>2. req.trace = sent.trace
    BY <1>1, AnswerIs
  <1>3. Found(req) = entry
    BY <1>1, <1>2 DEF Found
  <1>4. entry # None /\ entry[1].key = CacheKey(ClientIp(sent)[1])
    BY <1>1 DEF StageInv, Possible, Answered
  <1>5. IsEntry(entry[1])
    BY <1>4 DEF StageInv, EntryInv
  <1>6. entry[1].key = CacheKey(entry[1].run.target)
    BY <1>5 DEF IsEntry
  <1>7. IsRun(entry[1].run) /\ HeldFrom(entry[1].dict, entry[1].run)
    BY <1>5 DEF IsEntry
  <1> QED
    BY <1>1, <1>2, <1>3, <1>4, <1>6, <1>7 DEF Unreadable

\* A hit that is answered tells all that the entry has of its run.
LEMMA HitAnswer ==
  ASSUME StageInv, Traced, resp.trace # None, Structured
  PROVE  LET run == entry[1].run
             dict == entry[1].dict
             hops == IF "hops" \in DOMAIN dict THEN DOMAIN run.hops ELSE {}
         IN /\ resp.body = ResultOfHit(dict) /\ Readable(dict)
            /\ resp.body.cached = TRUE /\ resp.body.target = run.target
            /\ DOMAIN resp.body.hops = hops
            /\ "nat_warning" \in DOMAIN dict => resp.body.nat_warning = run.nat_warning
            /\ \A n \in hops : \A f \in DOMAIN dict.hops[n] :
                 f \in DOMAIN resp.body.hops[n] /\ resp.body.hops[n][f] = run.hops[n][f]
  <1> DEFINE run == entry[1].run
             dict == entry[1].dict
             hops == IF "hops" \in DOMAIN dict THEN DOMAIN run.hops ELSE {}
             hit == ResultOfHit(dict)
             r == Route(req, Found(req))
  <1>1. /\ Answered /\ req.trace.kind = "hit" /\ Found(req) = entry
        /\ IsRun(run) /\ HeldFrom(dict, run)
        /\ Unreadable(req, Found(req)) <=> ~Readable(dict)
    BY HitEntry
  <1>2. TellsTrace(req, Found(req), r) /\ resp.form = r.form /\ resp.body = r.body
    BY <1>1, AnswerIs
  <1>3. Readable(dict)
    BY <1>1, <1>2 DEF TellsTrace
  <1>4. resp.body = hit
    BY <1>1, <1>2 DEF TellsTrace, Structured, Result
  <1> HIDE DEF r, run, dict
  <1>5. Tells(hit, dict, run)
    BY <1>1, <1>3, HitTold
  <1> HIDE DEF hops, hit
  <1>6. \A n \in hops : \A f \in DOMAIN dict.hops[n] :
          f \in DOMAIN hit.hops[n] /\ hit.hops[n][f] = run.hops[n][f]
    BY <1>5 DEF Tells, hops
  <1>7. hit.cached = TRUE
    BY <1>5 DEF Tells
  <1>8. /\ hit.target = run.target /\ DOMAIN hit.hops = hops
        /\ "nat_warning" \in DOMAIN dict => hit.nat_warning = run.nat_warning
    BY <1>5 DEF Tells, hops
  <1> QED
    BY <1>3, <1>4, <1>6, <1>7, <1>8 DEF run, dict, hops, hit

\* The rows of a replay tell all that the entry has of its run.
LEMMA ReplayTold ==
  ASSUME NEW run, IsRun(run), NEW dict, HeldFrom(dict, run), Readable(dict), NEW remaining
  PROVE  LET frames == ReplayFrames(dict, remaining)
             hops == IF "hops" \in DOMAIN dict THEN DOMAIN run.hops ELSE {}
         IN /\ frames # <<>> /\ RowsOf(frames) = {n + 1 : n \in hops}
            /\ \A n \in hops :
                 /\ frames[n + 1].row.hop = run.hops[n].hop
                 /\ frames[n + 1].row.ip = run.hops[n].ip
                 /\ DOMAIN dict.hops[n] = HopFields => frames[n + 1].row = HopRow(run.hops[n])
            /\ "nat_warning" \in DOMAIN dict => frames[1].warning = run.nat_warning
  <1> DEFINE frames == ReplayFrames(dict, remaining)
             hops == IF "hops" \in DOMAIN dict THEN DOMAIN run.hops ELSE {}
             hit == ResultOfHit(dict)
  <1>0. Tells(hit, dict, run)
    BY HitTold
  <1> HIDE DEF hit
  <1>1. /\ DOMAIN hit.hops = hops
        /\ "nat_warning" \in DOMAIN dict => hit.nat_warning = run.nat_warning
        /\ \A n \in hops :
             /\ hit.hops[n].hop = run.hops[n].hop /\ hit.hops[n].ip = run.hops[n].ip
             /\ \A f \in DOMAIN dict.hops[n] : hit.hops[n][f] = run.hops[n][f]
    BY <1>0 DEF Tells
  <1>2. PICK k \in Nat : hops = 1..k
    <2>1. PICK k \in Nat : run.hops = [n \in 1..k |-> run.hops[n]]
      BY DEF IsRun
    <2>2. DOMAIN run.hops = 1..k
      BY <2>1
    <2>3. {} = 1..0
      OBVIOUS
    <2> QED
      BY <2>2, <2>3
  <1>3. /\ RowsOf(frames) = {n + 1 : n \in 1..k}
        /\ \A n \in 1..k : frames[n + 1] = HopFrame(hit.hops[n])
        /\ frames[1].warning = hit.nat_warning /\ frames # <<>>
    BY <1>1, <1>2, ReplayIs DEF hit
  <1> HIDE DEF frames, hops
  <1>4. ASSUME NEW n \in hops
        PROVE  /\ frames[n + 1].row.hop = run.hops[n].hop
               /\ frames[n + 1].row.ip = run.hops[n].ip
               /\ DOMAIN dict.hops[n] = HopFields => frames[n + 1].row = HopRow(run.hops[n])
    <2>1. frames[n + 1].row = HopRow(hit.hops[n])
      <3>1. frames[n + 1] = HopFrame(hit.hops[n])
        BY <1>2, <1>3
      <3> QED
        BY <3>1 DEF HopFrame
    <2>2. HopRow(hit.hops[n]).hop = hit.hops[n].hop /\ HopRow(hit.hops[n]).ip = hit.hops[n].ip
      BY DEF HopRow
    <2>3. DOMAIN dict.hops[n] = HopFields => HopRow(hit.hops[n]) = HopRow(run.hops[n])
      BY <1>1, FullRow
    <2> QED
      BY <1>1, <2>1, <2>2, <2>3
  <1> QED
    BY <1>1, <1>2, <1>3, <1>4 DEF frames, hops

\* A hit is told as the run that was stored, and fails over no entry of its own.
THEOREM HitsAlwaysRetold == Spec => []HitRetold
  <1>1. StageInv => HitRetold
    <2> SUFFICES ASSUME StageInv, Traced PROVE HitRetold
      BY DEF HitRetold
    <2> DEFINE run == entry[1].run
               dict == entry[1].dict
               hops == IF "hops" \in DOMAIN dict THEN DOMAIN run.hops ELSE {}
               rows == {i \in DOMAIN resp.body : resp.body[i].event = "hop"}
               tells(n, row) == /\ row.hop = run.hops[n].hop /\ row.ip = run.hops[n].ip
                                /\ DOMAIN dict.hops[n] = HopFields => row = HopRow(run.hops[n])
    <2>1. /\ Answered /\ req.trace.kind = "hit" /\ Found(req) = entry
          /\ IsRun(run) /\ HeldFrom(dict, run)
          /\ Unreadable(req, Found(req)) <=> ~Readable(dict)
      BY HitEntry
    <2>2. /\ ClientIp(req) # None /\ resp.body = Route(req, Found(req)).body
          /\ resp.status = 500 => ~Readable(dict)
          /\ resp.form = "event-stream" => req.path = "/traceroute/stream"
      BY <2>1, AnswerIs DEF Traced
    <2>3. resp.form = "event-stream" => resp.body = ReplayFrames(dict, req.trace.remaining)
      <3>1. resp.form = "event-stream" => resp.body = StreamFrames(req, Found(req))
        BY <2>2, StreamBody
      <3>2. StreamFrames(req, Found(req)) = ReplayFrames(dict, req.trace.remaining)
        <4>1. StreamFrames(req, Found(req)) = ReplayFrames(Found(req)[1].dict, req.trace.remaining)
          BY <2>1, <2>2, FramesOf
        <4> QED
          BY <2>1, <4>1
      <3> QED
        BY <3>1, <3>2
    <2>4. resp.status = 500 \/ (resp.form = "event-stream" /\ resp.body = <<>>) => dict # run
      <3>1. Readable(dict) /\ resp.form = "event-stream" => resp.body # <<>>
        BY <2>1, <2>3, ReplayTold
      <3>2. Readable(run)
        BY <2>1, RunKept
      <3> QED
        BY <2>2, <3>1, <3>2
    <2>5. ASSUME resp.trace # None, Structured
          PROVE  /\ \A f \in DOMAIN dict \ {"hops", "cached"} : resp.body[f] = run[f]
                 /\ DOMAIN resp.body.hops = hops
                 /\ \A n \in hops : \A f \in DOMAIN dict.hops[n] :
                      f \in DOMAIN resp.body.hops[n] /\ resp.body.hops[n][f] = run.hops[n][f]
      <3>1. /\ resp.body.target = run.target /\ DOMAIN resp.body.hops = hops
            /\ "nat_warning" \in DOMAIN dict => resp.body.nat_warning = run.nat_warning
            /\ \A n \in hops : \A f \in DOMAIN dict.hops[n] :
                 f \in DOMAIN resp.body.hops[n] /\ resp.body.hops[n][f] = run.hops[n][f]
        BY <2>5, HitAnswer
      <3>2. DOMAIN dict \subseteq {"target", "cached", "nat_warning", "hops"}
        BY <2>1 DEF IsRun, HeldFrom
      <3> HIDE DEF run, dict, hops
      <3>3. \A f \in DOMAIN dict \ {"hops", "cached"} : resp.body[f] = run[f]
        BY <3>1, <3>2
      <3> QED
        BY <3>1, <3>3
    <2>6. ASSUME resp.form = "event-stream", resp.body # <<>>
          PROVE  /\ rows = {n + 1 : n \in hops}
                 /\ \A n \in hops : tells(n, resp.body[n + 1].row)
                 /\ "nat_warning" \in DOMAIN dict => resp.body[1].warning = run.nat_warning
      <3>1. Readable(dict)
        BY <2>3, <2>6 DEF ReplayFrames
      <3>2. rows = RowsOf(resp.body)
        BY DEF RowsOf
      <3> HIDE DEF rows
      <3> QED
        BY <2>1, <2>3, <2>6, <3>1, <3>2, ReplayTold
    <2> QED
      BY <2>4, <2>5, <2>6 DEF HitRetold
  <1> QED
    BY <1>1, StagesFollow, PTL

\* Age and time to the refresh add up, and body and headers agree.
THEOREM AgesAlwaysAddUp == Spec => []AgeAddsUp
  <1>1. StageInv => AgeAddsUp
    <2> SUFFICES ASSUME StageInv, Answered, resp.trace # None PROVE AgeAddsUp
      BY DEF AgeAddsUp
    <2> DEFINE r == Route(req, Found(req))
    <2>1. /\ req.trace = sent.trace /\ IsTrace(req.trace) /\ ClientIp(req) = ClientIp(sent)
          /\ resp.form = r.form /\ resp.body = r.body /\ resp.trace = r.trace
          /\ TellsTrace(req, Found(req), r)
      BY AnswerIs
    <2> HIDE DEF r
    <2>2. /\ req.trace.kind \in {"hit", "live"} /\ resp.trace = <<Meta(req)>>
          /\ Structured => resp.body = Result(req, Found(req))
      BY <2>1 DEF TellsTrace, Structured
    <2>3. CASE req.trace.kind = "hit"
      <3>1. Meta(req) = MetaOfHit(req.trace.remaining)
        BY <2>3 DEF Meta
      <3>2. req.trace.remaining \in Int /\ req.trace.remaining <= Ttl
        BY <2>1, <2>3 DEF IsTrace
      <3>3. Traced
        BY <2>1, <2>3 DEF Traced, TellsTrace
      <3>4. Structured => resp.body.cached = TRUE
        BY <3>3, HitAnswer
      <3>5. /\ Meta(req).age \in 0..Ttl /\ Meta(req).refreshes = Ttl - Meta(req).age
            /\ Meta(req).cached = TRUE
        BY <3>1, <3>2, HitMeta
      <3>6. resp.trace[1] = Meta(req)
        BY <2>2
      <3>7. Structured => resp.body.cached = resp.trace[1].cached
        BY <3>4, <3>5, <3>6
      <3> QED
        BY <3>5, <3>6, <3>7 DEF AgeAddsUp
    <2>4. CASE req.trace.kind = "live"
      <3>1. /\ Meta(req).age = 0 /\ Meta(req).refreshes = Ttl /\ Meta(req).cached = FALSE
        BY <2>4 DEF Meta, MetaOfRun
      <3>2. Result(req, Found(req)).cached = FALSE
        BY <2>4 DEF Result, RunMtr
      <3>3. Meta(req).age \in 0..Ttl /\ Meta(req).refreshes = Ttl - Meta(req).age
        BY <3>1, AddressAssumption
      <3>4. resp.trace[1] = Meta(req)
        BY <2>2
      <3>5. Structured => resp.body.cached = resp.trace[1].cached
        BY <2>2, <3>1, <3>2, <3>4
      <3> QED
        BY <3>3, <3>4, <3>5 DEF AgeAddsUp
    <2> QED
      BY <2>2, <2>3, <2>4
  <1> QED
    BY <1>1, StagesFollow, PTL

\* Whoever's trace was stored, a client is shown one to its own address or, in
\* IPv6, to one of its own /64, and warned of its own address.
THEOREM WarningsAlwaysTheClients == Spec => []WarningIsTheClients
  <1>1. StageInv => WarningIsTheClients
    <2> DEFINE c == ClientIp(sent)[1]
               run == entry[1].run
               dict == entry[1].dict
               target == resp.body.target
    <2> SUFFICES ASSUME StageInv, Traced, resp.trace # None, Structured
                 PROVE  /\ IF c \in V4 THEN target = c
                           ELSE target \notin V4 /\ Net64[target] = Net64[c]
                        /\ c \notin Mixed /\ "nat_warning" \in DOMAIN dict
                             => resp.body.nat_warning = NatWarning(c)
      BY DEF WarningIsTheClients
    <2>1. IsRun(run) /\ CacheKey(run.target) = CacheKey(c)
      BY HitEntry
    <2>2. /\ target = run.target
          /\ "nat_warning" \in DOMAIN dict => resp.body.nat_warning = run.nat_warning
      BY HitAnswer
    <2>3. c \in Addr /\ run.target \in Addr
      BY <2>1, ClientType DEF Traced, IsRun
    <2>4. run.nat_warning = NatWarning(run.target)
      BY <2>1 DEF IsRun
    <2> HIDE DEF c, run, dict
    <2>5. /\ c \in V4 => run.target = c
          /\ c \notin V4 => run.target \notin V4 /\ Net64[run.target] = Net64[c]
          /\ c \notin Mixed => NatWarning(run.target) = NatWarning(c)
      BY <2>1, <2>3, SharedKey
    <2> QED
      BY <2>2, <2>4, <2>5
  <1> QED
    BY <1>1, StagesFollow, PTL

(***************************************************************************)
(* Names.                                                                  *)
(***************************************************************************)

\* Normalising a name changes its marks only.
LEMMA DropIs ==
  ASSUME NEW name, NEW marks, NEW gone, IsName(name, marks)
  PROVE  Drop(name, gone) = [sub |-> name.sub, site |-> name.site, form |-> name.form \ gone]
  BY DEF Drop, IsName

\* However the host of a subdomain is spelt, its prefix is found.
LEMMA TagFound ==
  ASSUME NEW host, host # None, IsName(host[1], {"caps", "dot", "port"}),
         host[1].sub \in {"ipv4", "ipv6", "secure"},
         NEW base, IsName(base, {"caps", "dot", "port", "space"}), "port" \notin base.form,
         host[1].site = base.site
  PROVE  DetectSubdomain(host, Drop(base, {"caps", "space"})) = <<host[1].sub>>
  <1> DEFINE b1 == Drop(base, {"caps", "space"})
             h == Drop(host[1], {"port", "caps", "dot"})
             b == Drop(b1, {"caps", "dot"})
  <1>1. h = [sub |-> host[1].sub, site |-> host[1].site,
             form |-> host[1].form \ {"port", "caps", "dot"}]
    BY DropIs
  <1>2. host[1].form \ {"port", "caps", "dot"} = {}
    BY DEF IsName
  <1>3. b1 = [sub |-> base.sub, site |-> base.site, form |-> base.form \ {"caps", "space"}]
    BY DropIs
  <1>4. b = [sub |-> base.sub, site |-> base.site,
             form |-> (base.form \ {"caps", "space"}) \ {"caps", "dot"}]
    <2>1. IsName(b1, {"caps", "dot", "port", "space"})
      BY <1>3 DEF IsName
    <2> HIDE DEF b1
    <2>2. b = [sub |-> b1.sub, site |-> b1.site, form |-> b1.form \ {"caps", "dot"}]
      BY <2>1, DropIs
    <2> QED
      BY <1>3, <2>2
  <1>5. (base.form \ {"caps", "space"}) \ {"caps", "dot"} = {}
    BY DEF IsName
  <1> HIDE DEF h, b
  <1>6. h = [sub |-> host[1].sub, site |-> base.site, form |-> {}]
    BY <1>1, <1>2
  <1>7. [b EXCEPT !.sub = h.sub] = [sub |-> host[1].sub, site |-> base.site, form |-> {}]
    BY <1>4, <1>5, <1>6
  <1>8. h.sub = host[1].sub /\ h = [b EXCEPT !.sub = h.sub]
    BY <1>6, <1>7
  <1> HIDE DEF b1
  <1>9. DetectSubdomain(host, b1) = <<h.sub>>
    BY <1>8 DEF DetectSubdomain, h, b
  <1> QED
    BY <1>8, <1>9 DEF b1

\* The root of a bare host becomes the echo page of its family.
LEMMA BareHostSeen ==
  ASSUME NEW q, IsRequest(q), q.path = "/", q.host # None,
         q.host[1].sub \in {"ipv4", "ipv6"},
         q.host[1].site = OrElse(q.base, Fallback).site,
         "port" \notin OrElse(q.base, Fallback).form
  PROVE  Seen(q).path = IF q.host[1].sub = "ipv4" THEN "/ipv4" ELSE "/ipv6"
  <1> DEFINE s == StripUntrustedHeaders(q)
             base == OrElse(q.base, Fallback)
             tag == DetectSubdomain(s.host, MiddlewareBase(s))
  <1>1. s.host = q.host /\ s.base = q.base /\ s.path = "/" /\ DOMAIN s = DOMAIN q
    BY StripKeeps
  <1>2. IsName(base, {"caps", "dot", "port", "space"})
    BY SiteAssumption DEF IsRequest, OrElse
  <1>3. IsName(q.host[1], {"caps", "dot", "port"})
    BY DEF IsRequest
  <1>4. MiddlewareBase(s) = Drop(base, {"caps", "space"})
    BY <1>1 DEF MiddlewareBase
  <1> HIDE DEF base, s
  <1>5. DetectSubdomain(q.host, Drop(base, {"caps", "space"})) = <<q.host[1].sub>>
    BY <1>2, <1>3, TagFound DEF base
  <1>6. tag = <<q.host[1].sub>>
    BY <1>1, <1>4, <1>5
  <1>7. tag \in {<<"ipv4">>, <<"ipv6">>} /\ (tag = <<"ipv4">> <=> q.host[1].sub = "ipv4")
    BY <1>6
  <1>8. "path" \in DOMAIN s
    BY <1>1 DEF IsRequest
  <1>9. Rewritten(s) = [s EXCEPT !.path = IF tag = <<"ipv4">> THEN "/ipv4" ELSE "/ipv6"]
    BY <1>1, <1>7 DEF Rewritten
  <1> HIDE DEF tag
  <1>10. Rewritten(s).path = IF q.host[1].sub = "ipv4" THEN "/ipv4" ELSE "/ipv6"
    BY <1>7, <1>8, <1>9
  <1> QED
    BY <1>10 DEF Seen, s

\* The echo page of a family.
LEMMA EchoIs ==
  ASSUME NEW q, NEW family, NEW r, r = Respond(q, SingleStackPage(q, family))
  PROVE  /\ r.status = 200 /\ r.headers = Public /\ r.form \in Forms
         /\ r.body = IF r.form = "text" THEN SingleStack(q, family)
                     ELSE [value |-> SingleStack(q, family)]
  <1> DEFINE page == SingleStackPage(q, family)
             a == SingleStack(q, family)
  <1>1. page.hint = FALSE /\ page.public = TRUE
    BY DEF SingleStackPage, Page
  <1>2. page.text[1] = a /\ page.data[1] = [value |-> a]
    BY DEF SingleStackPage, Page
  <1> HIDE DEF page, a
  <1>3. r = Respond(q, page)
    BY DEF page
  <1>4. r.hint = FALSE /\ r.headers = Public
    BY <1>1, <1>3, RespondPublic
  <1>5. /\ r.status = 200 /\ r.form \in Forms
        /\ r.body = IF r.form = "text" THEN a ELSE [value |-> a]
    BY <1>2, <1>3, RespondShape
  <1> QED
    BY <1>4, <1>5 DEF a

\* It gives no tip.
LEMMA EchoPlain ==
  ASSUME NEW q, NEW family
  PROVE  Respond(q, SingleStackPage(q, family)).hint = FALSE
  <1> DEFINE page == SingleStackPage(q, family)
  <1>1. page.hint = FALSE /\ page.public = TRUE
    BY DEF SingleStackPage, Page
  <1> HIDE DEF page
  <1>2. Respond(q, page).hint = FALSE
    BY <1>1, RespondPublic
  <1> QED
    BY <1>2 DEF page

\* The root of a bare host is its echo, however Host is spelt.
THEOREM BareHostsAlwaysEcho == Spec => []BareHostEchoes
  <1>1. StageInv => BareHostEchoes
    <2> SUFFICES ASSUME StageInv, Answered, sent.path = "/", sent.host # None,
                        NEW family \in {"ipv4", "ipv6"},
                        sent.host[1].sub = family,
                        sent.host[1].site = OrElse(sent.base, Fallback).site,
                        "port" \notin OrElse(sent.base, Fallback).form
                 PROVE  LET own == SingleStack(sent, IF family = "ipv4" THEN "IPv4" ELSE "IPv6") IN
                        /\ resp.status = 200 /\ ~resp.hint /\ Public \subseteq resp.headers
                        /\ IF Structured THEN resp.body = [value |-> own] ELSE resp.body = own
      BY DEF BareHostEchoes
    <2> DEFINE name == IF family = "ipv4" THEN "IPv4" ELSE "IPv6"
               r == Route(req, Found(req))
    <2>1. /\ IsRequest(sent) /\ req = Seen(sent) /\ ClientIp(req) = ClientIp(sent)
          /\ resp.status = r.status /\ resp.form = r.form /\ resp.body = r.body
          /\ resp.hint = r.hint /\ r.headers \subseteq resp.headers
      BY AnswerIs
    <2>2. req.path = IF family = "ipv4" THEN "/ipv4" ELSE "/ipv6"
      BY <2>1, BareHostSeen
    <2>3. r = Respond(req, PageOf(req.path, req))
      BY <2>2, RouteTo DEF Pages
    <2>4. PageOf(req.path, req) = SingleStackPage(req, name)
      BY <2>2 DEF PageOf
    <2>5. SingleStack(req, name) = SingleStack(sent, name)
      BY <2>1 DEF SingleStack
    <2> HIDE DEF r, name
    <2>6. /\ r.status = 200 /\ r.headers = Public /\ r.form \in Forms
          /\ r.body = IF r.form = "text" THEN SingleStack(req, name)
                      ELSE [value |-> SingleStack(req, name)]
      BY <2>3, <2>4, EchoIs
    <2>7. Structured <=> r.form # "text"
      BY <2>1, <2>6 DEF Structured, Forms
    <2>8. ~resp.hint
      BY <2>1, <2>3, <2>4, EchoPlain
    <2>9. resp.status = 200 /\ Public \subseteq resp.headers
      BY <2>1, <2>6
    <2>10. IF Structured THEN resp.body = [value |-> SingleStack(sent, name)]
           ELSE resp.body = SingleStack(sent, name)
      BY <2>1, <2>5, <2>6, <2>7
    <2> QED
      BY <2>8, <2>9, <2>10 DEF name
  <1> QED
    BY <1>1, StagesFollow, PTL

(***************************************************************************)
(* The home page.                                                          *)
(***************************************************************************)

\* What the home page has in its structured forms.
LEMMA HomeIs ==
  ASSUME StageInv, Answered, req.path = "/", Structured
  PROVE  /\ resp.body.tcp = ParseTcpInfo(req.tcp)
         /\ resp.body.request.tcp = req.tcp
         /\ resp.body.redirect_origin = Redirect(req, GetBaseDomain(req))
  <1> DEFINE page == HomePage(req)
  <1>1. Route(req, Found(req)) = Respond(req, PageOf(req.path, req))
    BY RouteTo DEF Pages
  <1>2. PageOf(req.path, req) = page
    BY DEF PageOf
  <1>3. page.data[1] = Collect(req)
    BY DEF HomePage, Page
  <1> HIDE DEF page
  <1>4. resp.body = Route(req, Found(req)).body /\ resp.form = Route(req, Found(req)).form
    BY AnswerIs
  <1>5. resp.body = Collect(req)
    BY <1>1, <1>2, <1>3, <1>4, RespondShape DEF Structured
  <1>6. /\ Collect(req).tcp = ParseTcpInfo(req.tcp)
        /\ Collect(req).request.tcp = req.tcp
        /\ Collect(req).redirect_origin = Redirect(req, GetBaseDomain(req))
    BY DEF Collect
  <1> QED
    BY <1>5, <1>6

\* The largest reading is a positive number.
LEMMA MaxReadingType == MaxReading \in Int /\ 1 <= MaxReading
  BY DEF MaxReading

\* In tenths of a millisecond, too, it is a whole one.
LEMMA MaxReadingTenths == \E k \in Int : MaxReading = 100 * k /\ MaxReading \div 100 = k
  <1>1. MaxReading = 100 * 600000 /\ MaxReading \div 100 = 600000
    BY DEF MaxReading
  <1> QED
    BY <1>1

\* A reading is a number within its range, or none.
LEMMA ReadingType ==
  ASSUME NEW raw \in Optional(Int)
  PROVE  \/ ParsePositiveInt(raw) = None
         \/ /\ ParsePositiveInt(raw) = raw /\ raw = <<raw[1]>>
            /\ raw[1] \in Int /\ 0 <= raw[1] /\ raw[1] <= MaxReading
  <1>1. raw \in Seq(Int)
    BY DEF Optional
  <1>2. raw # None => Len(raw) = 1
    <2> SUFFICES ASSUME raw # None
                 PROVE  Len(raw) = 1
      OBVIOUS
    <2> DEFINE n == Len(raw)
    <2>1. n \in Nat \ {0}
      BY <1>1, EmptySeq, Zenon DEF None
    <2>2. n <= 1
      BY DEF Optional
    <2> HIDE DEF n
    <2>3. n = 1
      BY <2>1, <2>2
    <2> QED
      BY <2>3 DEF n
  <1>3. raw # None => raw = <<raw[1]>>
    BY <1>1, <1>2
  <1> QED
    BY <1>1, <1>2, <1>3, MaxReadingType DEF ParsePositiveInt

\* A number of microseconds within its range, in tenths of a millisecond.
LEMMA TenthsRange ==
  ASSUME NEW us \in Int, 0 <= us, us <= MaxReading
  PROVE  Tenths(us) \in 0..(MaxReading \div 100)
  <1>1. PICK k \in Int : MaxReading = 100 * k /\ MaxReading \div 100 = k
    BY MaxReadingTenths
  <1>2. 0 <= (us + 50) \div 100 /\ (us + 50) \div 100 <= k
    BY <1>1
  <1> QED
    BY <1>1, <1>2 DEF Tenths

\* What the home page shows of the proxy's readings.
LEMMA TcpInfoRange ==
  ASSUME NEW tcp \in [TrustedUpstreamHeaders -> Optional(Int)]
  PROVE  /\ tcp.rtt = None => ParseTcpInfo(tcp) = None
         /\ ParseTcpInfo(tcp) # None =>
              /\ ParseTcpInfo(tcp)[1].rtt \in 0..(MaxReading \div 100)
              /\ OrElse(ParseTcpInfo(tcp)[1].mss, 1) \in 1..MaxReading
  <1> DEFINE rtt == ParsePositiveInt(tcp.rtt)
             rttvar == ParsePositiveInt(tcp.rttvar)
             named == IF tcp.mss_server = None THEN tcp.mss ELSE tcp.mss_server
             mss == ParsePositiveInt(named)
             shown == IF mss = <<0>> THEN None ELSE mss
  <1>1. tcp.rtt \in Optional(Int) /\ named \in Optional(Int)
    BY DEF TrustedUpstreamHeaders
  <1>2. tcp.rtt = None => rtt = None
    BY DEF ParsePositiveInt
  <1>3. rtt # None => rtt[1] \in Int /\ 0 <= rtt[1] /\ rtt[1] <= MaxReading
    BY <1>1, ReadingType
  <1>4. OrElse(shown, 1) \in 1..MaxReading
    <2>1. mss = None \/ (mss = <<mss[1]>> /\ mss[1] \in Int /\ 0 <= mss[1] /\ mss[1] <= MaxReading)
      BY <1>1, ReadingType
    <2> HIDE DEF mss
    <2>2. CASE mss = None
      <3>1. shown = None
        BY <2>2 DEF None
      <3> QED
        BY <3>1, MaxReadingType DEF OrElse
    <2>3. CASE mss = <<0>>
      BY <2>3, MaxReadingType DEF OrElse
    <2>4. CASE mss # None /\ mss # <<0>>
      <3>1. shown = mss /\ mss[1] # 0
        BY <2>1, <2>4
      <3>2. OrElse(shown, 1) = mss[1]
        BY <2>4, <3>1 DEF OrElse
      <3>3. mss[1] \in Int /\ 0 <= mss[1] /\ mss[1] <= MaxReading /\ MaxReading \in Int
        BY <2>1, <2>4, MaxReadingType
      <3> QED
        BY <3>1, <3>2, <3>3
    <2> QED
      BY <2>2, <2>3, <2>4
  <1>5. ParseTcpInfo(tcp) = IF None \in {rtt, rttvar} THEN None
                            ELSE <<[rtt |-> Tenths(rtt[1]), rttvar |-> Tenths(rttvar[1]),
                                    mss |-> shown]>>
    BY DEF ParseTcpInfo
  <1> HIDE DEF rtt, rttvar, named, mss, shown
  <1>6. rtt = None => ParseTcpInfo(tcp) = None
    BY <1>5
  <1>7. ParseTcpInfo(tcp) # None =>
          /\ rtt # None /\ ParseTcpInfo(tcp)[1].rtt = Tenths(rtt[1])
          /\ ParseTcpInfo(tcp)[1].mss = shown
    BY <1>5
  <1> QED
    BY <1>2, <1>3, <1>4, <1>6, <1>7, TenthsRange

\* A reading on the home page was set by a proxy on this host, within its range.
THEOREM ReadingsAlwaysFromProxy == Spec => []ReadingsFromProxyOnly
  <1>1. StageInv => ReadingsFromProxyOnly
    <2> SUFFICES ASSUME StageInv, Answered, req.path = "/", Structured
                 PROVE  ReadingsFromProxyOnly
      BY DEF ReadingsFromProxyOnly
    <2>1. resp.body.tcp = ParseTcpInfo(req.tcp) /\ resp.body.request.tcp = req.tcp
      BY HomeIs
    <2>2. IsRequest(sent) /\ req = Seen(sent)
      BY AnswerIs
    <2>3. /\ req.tcp \in [TrustedUpstreamHeaders -> Optional(Int)]
          /\ ~FromProxy(sent) => \A h \in TrustedUpstreamHeaders : req.tcp[h] = None
      BY <2>2, SeenKeeps
    <2>4. DOMAIN sent.tcp = TrustedUpstreamHeaders
      BY <2>2 DEF IsRequest
    <2>5. ~FromProxy(sent) => resp.body.tcp = None
      <3>1. ~FromProxy(sent) => req.tcp.rtt = None
        BY <2>3 DEF TrustedUpstreamHeaders
      <3> QED
        BY <2>1, <2>3, <3>1, TcpInfoRange
    <2>6. ~FromProxy(sent) => ~ \E h \in DOMAIN sent.tcp : resp.body.request.tcp[h] # None
      BY <2>1, <2>3, <2>4
    <2>7. resp.body.tcp # None => /\ resp.body.tcp[1].rtt \in 0..(MaxReading \div 100)
                                 /\ OrElse(resp.body.tcp[1].mss, 1) \in 1..MaxReading
      BY <2>1, <2>3, TcpInfoRange
    <2> QED
      BY <2>5, <2>6, <2>7 DEF ReadingsFromProxyOnly, FromProxy
  <1> QED
    BY <1>1, StagesFollow, PTL

\* The site's own name, as a referrer is compared with it.
LEMMA OwnIs ==
  ASSUME NEW q, IsRequest(q)
  PROVE  LET base == OrElse(q.base, Fallback)
             own == Drop(GetBaseDomain(q), {"caps"})
         IN /\ own = [sub |-> base.sub, site |-> base.site, form |-> own.form]
            /\ base.form \subseteq {"caps"} => own.form = {}
  <1> DEFINE base == OrElse(q.base, Fallback)
             named == GetBaseDomain(q)
             own == Drop(named, {"caps"})
  <1>1. IsName(base, {"caps", "dot", "port", "space"})
    BY SiteAssumption DEF IsRequest, OrElse
  <1>2. named = base \/ named = Drop(base, {"caps", "space"})
    BY DEF GetBaseDomain, OrElse
  <1> HIDE DEF base, named
  <1>3. \/ named = [sub |-> base.sub, site |-> base.site, form |-> base.form]
        \/ named = [sub |-> base.sub, site |-> base.site, form |-> base.form \ {"caps", "space"}]
    <2>1. base = [sub |-> base.sub, site |-> base.site, form |-> base.form]
      BY <1>1 DEF IsName
    <2>2. Drop(base, {"caps", "space"})
            = [sub |-> base.sub, site |-> base.site, form |-> base.form \ {"caps", "space"}]
      BY <1>1, DropIs
    <2> QED
      BY <1>2, <2>1, <2>2
  <1>4. IsName(named, {"caps", "dot", "port", "space"})
    BY <1>1, <1>3 DEF IsName
  <1>5. own = [sub |-> named.sub, site |-> named.site, form |-> named.form \ {"caps"}]
    BY <1>4, DropIs
  <1>6. named.sub = base.sub /\ named.site = base.site /\ named.form \subseteq base.form
    BY <1>3
  <1> HIDE DEF own
  <1>7. own = [sub |-> base.sub, site |-> base.site, form |-> own.form]
    BY <1>5, <1>6
  <1>8. base.form \subseteq {"caps"} => own.form = {}
    BY <1>5, <1>6
  <1> QED
    BY <1>7, <1>8 DEF own, named, base

\* A referrer of another site is always external; the site's own is not when
\* neither name has anything left to normalise, nor is one without a host.
LEMMA ExternalIs ==
  ASSUME NEW own, own = [sub |-> own.sub, site |-> own.site, form |-> own.form],
         NEW referer, referer # None => IsName(referer[1], {"caps", "dot", "port"})
  PROVE  LET foreign == referer # None /\ referer[1].site \notin {own.site, "unparsable"}
             undotted == (referer # None => "dot" \notin referer[1].form) /\ own.form = {}
         IN /\ foreign => External(SafeHost(referer), own)
            /\ undotted /\ External(SafeHost(referer), own) => foreign
  <1>1. CASE referer = None \/ referer[1].site = "unparsable"
    <2>1. SafeHost(referer) = None
      BY <1>1 DEF SafeHost
    <2> QED
      BY <1>1, <2>1 DEF External
  <1>2. CASE referer # None /\ referer[1].site # "unparsable"
    <2> DEFINE h == Drop(referer[1], {"caps", "port"})
               f == referer[1].form \ {"caps", "port"}
    <2>1. IsName(referer[1], {"caps", "dot", "port"})
      BY <1>2
    <2>2. h = [sub |-> referer[1].sub, site |-> referer[1].site, form |-> f]
      BY <2>1, DropIs
    <2>3. "dot" \notin referer[1].form => f = {}
      BY <2>1 DEF IsName
    <2>4. SafeHost(referer) = <<h>>
      BY <1>2 DEF SafeHost
    <2> HIDE DEF h, f
    <2>5. <<h>> # None /\ <<h>>[1] = h
      BY DEF None
    <2>6. [own EXCEPT !.sub = h.sub] = [sub |-> h.sub, site |-> own.site, form |-> own.form]
      OBVIOUS
    <2>7. External(SafeHost(referer), own) <=> h # [own EXCEPT !.sub = h.sub]
      BY <2>4, <2>5 DEF External
    <2>8. h.site = referer[1].site /\ h.form = f
      BY <2>2
    <2>9. referer[1].site # own.site => h # [own EXCEPT !.sub = h.sub]
      BY <2>6, <2>8
    <2>10. referer[1].site = own.site /\ f = own.form => h = [own EXCEPT !.sub = h.sub]
      BY <2>2, <2>6
    <2> QED
      BY <1>2, <2>3, <2>7, <2>9, <2>10
  <1> QED
    BY <1>1, <1>2

\* A visit looks like a captive portal's over the proxy's hint or a page of
\* another site, and over nothing else unless a name has a trailing dot or the
\* base domain a port.
THEOREM ReferrersAlwaysToldApart == Spec => []ReferrersToldApart
  <1>1. StageInv => ReferrersToldApart
    <2> DEFINE foreign == /\ sent.referer # None
                          /\ sent.referer[1].site \notin {BaseSent.site, "unparsable"}
               undotted == /\ sent.referer # None => "dot" \notin sent.referer[1].form
                           /\ BaseSent.form \subseteq {"caps"}
               own == Drop(GetBaseDomain(req), {"caps"})
    <2> SUFFICES ASSUME StageInv, Answered, req.path = "/", Structured
                 PROVE  /\ sent.via # None \/ foreign => LooksLikePortal
                        /\ LooksLikePortal /\ undotted => sent.via # None \/ foreign
      BY DEF ReferrersToldApart
    <2>1. IsRequest(sent) /\ req = Seen(sent)
      BY AnswerIs
    <2>2. req.base = sent.base /\ req.referer = sent.referer /\ req.via = sent.via
      BY <2>1, SeenKeeps
    <2>3. GetBaseDomain(req) = GetBaseDomain(sent)
      BY <2>2 DEF GetBaseDomain
    <2>4. /\ own = [sub |-> BaseSent.sub, site |-> BaseSent.site, form |-> own.form]
          /\ BaseSent.form \subseteq {"caps"} => own.form = {}
      BY <2>1, <2>3, OwnIs DEF BaseSent
    <2>5. LooksLikePortal = (sent.via # None \/ External(SafeHost(sent.referer), own))
      BY <2>2, HomeIs DEF LooksLikePortal, Redirect
    <2>6. sent.referer # None => IsName(sent.referer[1], {"caps", "dot", "port"})
      BY <2>1 DEF IsRequest
    <2> HIDE DEF own
    <2>7. own = [sub |-> own.sub, site |-> own.site, form |-> own.form] /\ own.site = BaseSent.site
      BY <2>4
    <2>8. /\ foreign => External(SafeHost(sent.referer), own)
          /\ undotted /\ External(SafeHost(sent.referer), own) => foreign
      BY <2>4, <2>6, <2>7, ExternalIs
    <2> QED
      BY <2>5, <2>8
  <1> QED
    BY <1>1, StagesFollow, PTL

(***************************************************************************)
(* The live stream.                                                        *)
(***************************************************************************)

\* What a live stream stores replays as the rows its client was shown last.
THEOREM ReplaysAlwaysShowLastRows == Spec => []ReplayShowsLastRows
  <1>1. StageInv => ReplayShowsLastRows
    <2> SUFFICES ASSUME StageInv, Answered, req.path = "/traceroute/stream",
                        sent.trace.kind = "live", ClientIp(sent) # None
                 PROVE  ReplayShowsLastRows
      BY DEF ReplayShowsLastRows
    <2> DEFINE a == ClientIp(sent)[1]
               events == Events(sent)
               S == {events[i] : i \in DOMAIN events}
    <2>1. /\ req.trace = sent.trace /\ IsTrace(sent.trace) /\ ClientIp(req) = ClientIp(sent)
          /\ resp.body = Route(req, Found(req)).body
      BY AnswerIs
    <2>2. Events(req) = Events(sent)
      BY <2>1 DEF Events
    <2>3. StreamFrames(req, Found(req)) = LiveFrames(a, events)
      <3>1. req.trace.kind = "live" /\ ClientIp(req) # None /\ ClientIp(req)[1] = a
        BY <2>1
      <3>2. StreamFrames(req, Found(req)) = LiveFrames(ClientIp(req)[1], Events(req))
        BY <3>1, FramesOf
      <3> QED
        BY <2>2, <3>1, <3>2
    <2>4. resp.body = LiveFrames(a, events)
      BY <2>1, <2>3, StreamBody
    <2>5. /\ events \in Seq(S)
          /\ \A i \in DOMAIN events : events[i].hop \in Nat /\ IsHop(events[i])
      BY <2>1, EventsAre
    <2> a \in Addr
      BY ClientType
    <2> HIDE DEF a, events, S
    <2> DEFINE lastIn(frames, n) == CHOOSE i \in RowsOf(frames) :
                                      /\ frames[i].row.hop = n
                                      /\ \A j \in RowsOf(frames) :
                                           frames[j].row.hop = n => j <= i
               replays(shown, again) ==
                 /\ {again[i].row.hop : i \in RowsOf(again)} = {shown[i].row.hop : i \in RowsOf(shown)}
                 /\ \A i \in RowsOf(again) : again[i] = shown[lastIn(shown, again[i].row.hop)]
                 /\ \A i, j \in RowsOf(again) : i < j => again[i].row.hop < again[j].row.hop
    <2>6. replays(LiveFrames(a, events), ReplayFrames(StreamStored(a, events), Ttl))
      BY <2>5, StoredReplays
    <2> HIDE DEF replays
    <2>7. replays(resp.body, ReplayFrames(StreamStored(a, events), Ttl))
      BY <2>4, <2>6
    <2> QED
      BY <2>7 DEF ReplayShowsLastRows, RowsOf, replays, a, events
  <1> QED
    BY <1>1, StagesFollow, PTL

(***************************************************************************)
(* The format that was asked for.                                          *)
(***************************************************************************)

\* Every page but the echo of the timing panel has a template.
LEMMA PageTemplate ==
  ASSUME NEW path \in Pages \ {"/timing/echo"}, NEW q
  PROVE  PageOf(path, q).html = TRUE
  <1>1. \A data, text, hint, public : Page(data, text, hint, public).html = TRUE
    BY DEF Page
  <1> QED
    BY <1>1 DEF PageOf, Pages, HomePage, IpPage, SingleStackPage, AsnPage, IspPage, GeoPage,
                DnsPage, ProtocolPage, HelpPage

\* Negotiation gives the one type that is named.
LEMMA NamedIsChosen ==
  ASSUME NEW q
  PROVE  /\ q.format \in {"json", "text", "html"} => ChooseFormat(q, TRUE) = q.format
         /\ q.format \notin {"json", "text", "html"} =>
              /\ "application/json" \in q.accept => ChooseFormat(q, TRUE) = "json"
              /\ "application/json" \notin q.accept /\ "text/html" \in q.accept
                   => ChooseFormat(q, TRUE) = "html"
              /\ {"application/json", "text/html"} \intersect q.accept = {}
                 /\ "text/plain" \in q.accept
                   => ChooseFormat(q, TRUE) = "text"
  BY DEF ChooseFormat

\* A client that names one type gets it.
THEOREM NamedTypesAlwaysHonoured == Spec => []NamedTypeHonoured
  <1>1. StageInv => NamedTypeHonoured
    <2> DEFINE type(form) == CASE form = "json" -> "application/json"
                               [] form = "text" -> "text/plain"
                               [] form = "html" -> "text/html"
               named == {form \in {"json", "text", "html"} : type(form) \in sent.accept}
               wanted == IF sent.format \in {"json", "text", "html"} THEN {sent.format}
                         ELSE named
    <2> SUFFICES ASSUME StageInv, Answered, req.path \in Pages \ {"/timing/echo"},
                        NEW form \in wanted, wanted = {form}
                 PROVE  resp.form = form
      BY DEF NamedTypeHonoured
    <2>1. req = Seen(sent) /\ IsRequest(sent) /\ resp.form = Route(req, Found(req)).form
      BY AnswerIs
    <2>2. req.format = sent.format /\ req.accept = sent.accept
      BY <2>1, SeenKeeps
    <2>3. Route(req, Found(req)) = Respond(req, PageOf(req.path, req))
      BY RouteTo
    <2>4. Respond(req, PageOf(req.path, req)).form = ChooseFormat(req, TRUE)
      BY PageTemplate, RespondChosen
    <2>5. resp.form = ChooseFormat(req, TRUE)
      BY <2>1, <2>3, <2>4
    <2>6. CASE sent.format \in {"json", "text", "html"}
      BY <2>2, <2>5, <2>6, NamedIsChosen
    <2>7. CASE sent.format \notin {"json", "text", "html"}
      <3>1. /\ type("json") = "application/json" /\ type("text") = "text/plain"
            /\ type("html") = "text/html"
        OBVIOUS
      <3> HIDE DEF type
      <3>2. wanted = named /\ form \in {"json", "text", "html"} /\ type(form) \in sent.accept
        BY <2>7
      <3>3. \A other \in {"json", "text", "html"} : type(other) \in sent.accept => other = form
        BY <3>2
      <3>4. CASE form = "json"
        BY <2>2, <2>5, <2>7, <3>1, <3>2, <3>4, NamedIsChosen
      <3>5. CASE form = "text"
        <4>1. {"application/json", "text/html"} \intersect sent.accept = {}
          BY <3>1, <3>3, <3>5
        <4> QED
          BY <2>2, <2>5, <2>7, <3>1, <3>2, <3>5, <4>1, NamedIsChosen
      <3>6. CASE form = "html"
        <4>1. "application/json" \notin sent.accept
          BY <3>1, <3>3, <3>6
        <4> QED
          BY <2>2, <2>5, <2>7, <3>1, <3>2, <3>6, <4>1, NamedIsChosen
      <3> QED
        BY <3>2, <3>4, <3>5, <3>6
    <2> QED
      BY <2>6, <2>7
  <1> QED
    BY <1>1, StagesFollow, PTL
===============================================================================
