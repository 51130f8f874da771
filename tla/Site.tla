--------------------------------- MODULE Site ---------------------------------
(***************************************************************************)
(* One request on its way through the application: the timing middleware,  *)
(* the subdomain middleware, the route's handler, and back.  What the      *)
(* databases and the resolver answer is given by constants, how a          *)
(* traceroute ends with the request.  One cached traceroute outlives its   *)
(* request and is read by later ones, perhaps of another version of the    *)
(* program.                                                                *)
(*                                                                         *)
(* A request is a record                                                   *)
(*   peer: optional address; xff: the entries of X-Forwarded-For           *)
(*   host: optional name; base: optional X-Base-Domain, a name             *)
(*   path, arg: optional address that /rdns/{ip} names, None when what is  *)
(*     there is none; format (?format=), accept: set of media types, agent *)
(*   tcp: header -> optional number, malformed ones being negative         *)
(*   conn: what is known of the connection; resolver: optional ?resolver=  *)
(*   referer: optional name; via: optional X-Original-... header           *)
(*   trace: how run_mtr_cached or stream_mtr_cached ends                   *)
(* A name is [sub, site, form]: form holds what is left to normalise, of   *)
(* capitals ("caps"), a trailing dot ("dot"), a port and spaces ("space"). *)
(***************************************************************************)
EXTENDS TraceAnswers

CONSTANTS
  Views,     \* the requests that may come: a sequence of sets
  NoRequest, \* none is being served
  Loopback,  \* the loopback addresses
  GeoDb,     \* [Addr -> optional [country, region, city, lat, lon]]: GeoLite2-City
  Known,     \* [resolver -> optional operator]: KNOWN_RESOLVERS
  Fallback,  \* settings.base_domain_fallback, a name without sub
  Versions   \* what the entries of other versions of the program lack and have
             \* besides: records [lacks, hopLacks, hopMore] of sets of fields

TrustedUpstreamHeaders == {"rtt", "rttvar", "mss", "mss_server"}

IsName(name, marks) ==
  /\ name = [sub |-> name.sub, site |-> name.site, form |-> name.form]
  /\ name.form \subseteq marks

Optional(S) == {o \in Seq(S) : Len(o) <= 1}

Hubs == [host : Optional(Addr), loss : Optional(Nat), avg : Optional(Nat), mpls : Seq(STRING)]

\* Entries are stored with the present Ttl, so that no key has longer to live.
IsTrace(t) ==
  /\ t.kind \in {"hit", "live", "limited", "busy", "exit"}
  /\ t.kind = "hit" => t.remaining \in Int /\ t.remaining <= Ttl
  /\ t.kind = "live" => t.hubs \in Seq(Hubs) /\ t.events \in Seq([hop : Nat \ {0}, hub : Hubs])

IsRequest(q) ==
  /\ DOMAIN q = {"peer", "xff", "host", "base", "path", "arg", "format", "accept", "agent", "tcp",
                 "conn", "resolver", "referer", "via", "trace"}
  /\ q.host # None => IsName(q.host[1], {"caps", "dot", "port"})
  /\ q.base # None => IsName(q.base[1], {"caps", "dot", "port", "space"}) /\ q.base[1].sub = ""
  /\ q.referer # None => IsName(q.referer[1], {"caps", "dot", "port"})
  /\ q.tcp \in [TrustedUpstreamHeaders -> Optional(Int)]
  /\ IsTrace(q.trace)

ASSUME SiteAssumption ==
  /\ Loopback \subseteq Addr \intersect Private
  /\ IsName(Fallback, {"caps", "dot", "port", "space"}) /\ Fallback.sub = ""
  /\ \A i \in DOMAIN Views : NoRequest \notin Views[i] /\ \A q \in Views[i] : IsRequest(q)

VARIABLES
  stage,   \* where the request is
  sent,    \* the request as the client sent it
  req,     \* the request's scope: headers and path as they are now
  state,   \* request.state
  resp,    \* the response
  entry    \* the cached traceroute, if any: its key, the dict, and the run as it
           \* was (history)

vars == <<stage, sent, req, state, resp, entry>>

Stages == {"idle", "timing", "subdomain", "handler", "leaving", "answered"}
MaxReading == 60000000

TypeOK ==
  /\ stage \in Stages
  /\ (stage = "idle") <=> (sent = NoRequest)
  /\ stage # "idle" => DOMAIN req = DOMAIN sent
  /\ state.subdomain \in Opt({"ipv4", "ipv6", "secure"})
  /\ resp.status \in IF stage \in {"leaving", "answered"} THEN {200, 400, 404, 429, 500, 503} ELSE {0}
  /\ resp.status = 500 => sent.trace.kind = "hit"
  /\ entry # None => DOMAIN entry[1] = {"key", "dict", "run"}

-------------------------------------------------------------------------------
(* Who asks.                                                               *)

\* The first entry of the header, unless it is blank.
ParseForwardedFor(xff) == IF xff = <<>> \/ xff[1] = "blank" THEN None ELSE <<xff[1]>>

\* An entry that is not an address gives None, not the peer.
ClientIp(q) ==
  LET named == ParseForwardedFor(q.xff)
      candidate == IF named = None THEN q.peer ELSE named
  IN IF candidate = None \/ candidate[1] \notin Addr THEN None ELSE candidate

Protocol(a) == IF a \in V4 THEN "IPv4" ELSE "IPv6"

Classify(a) == [protocol |-> Protocol(a), is_private |-> a \in Private, is_cgnat |-> a \in Cgnat]

\* The address of the client, when it is of that family.
SingleStack(q, family) ==
  LET a == ClientIp(q) IN IF a # None /\ Protocol(a[1]) = family THEN a ELSE None

-------------------------------------------------------------------------------
(* Under which name.                                                       *)

Drop(name, marks) == [name EXCEPT !.form = @ \ marks]

\* X-Base-Domain, else the fallback; the middleware strips both and lowers
\* their case, get_base_domain only the header.
MiddlewareBase(q) == Drop(OrElse(q.base, Fallback), {"caps", "space"})
GetBaseDomain(q) == IF q.base = None THEN Fallback ELSE Drop(q.base[1], {"caps", "space"})

\* Mutant of DetectSubdomain: the port of Host is not cut off.
DetectSubdomainWithPort(host, base) ==
  IF host = None THEN None
  ELSE LET h == Drop(host[1], {"caps", "dot"})
           b == Drop(base, {"caps", "dot"})
       IN IF h.sub \in {"ipv4", "ipv6", "secure"} /\ h = [b EXCEPT !.sub = h.sub]
          THEN <<h.sub>> ELSE None

DetectSubdomain(host, base) ==
  IF host = None THEN None
  ELSE LET h == Drop(host[1], {"port", "caps", "dot"})
           b == Drop(base, {"caps", "dot"})
       IN IF h.sub \in {"ipv4", "ipv6", "secure"} /\ h = [b EXCEPT !.sub = h.sub]
          THEN <<h.sub>> ELSE None

-------------------------------------------------------------------------------
(* What the proxy knows of the connection.                                 *)

\* Blank, malformed, negative and huge numbers are no readings.
ParsePositiveInt(raw) ==
  IF raw = None THEN None ELSE IF raw[1] \in 0..MaxReading THEN raw ELSE None

\* Tenths of a millisecond, to the nearest.
Tenths(us) == (us + 50) \div 100

\* The server's MSS hides the legacy header even when it is malformed; 0 is none.
ParseTcpInfo(tcp) ==
  LET rtt == ParsePositiveInt(tcp.rtt)
      rttvar == ParsePositiveInt(tcp.rttvar)
      mss == ParsePositiveInt(IF tcp.mss_server = None THEN tcp.mss ELSE tcp.mss_server)
  IN IF None \in {rtt, rttvar} THEN None
     ELSE <<[rtt |-> Tenths(rtt[1]), rttvar |-> Tenths(rttvar[1]),
             mss |-> IF mss = <<0>> THEN None ELSE mss]>>

\* A version is the sequence of its numbers; a trailing 0 is dropped.
NormaliseVersion(v) ==
  IF v = <<>> THEN <<1, 1>> ELSE IF Len(v) > 1 /\ v[Len(v)] = 0 THEN SubSeq(v, 1, Len(v) - 1) ELSE v

Scheme(conn) == OrElse(conn.forwarded_proto, conn.scheme)

FromRequest(conn) ==
  [http_version |-> NormaliseVersion(OrElse(conn.forwarded_version, conn.scope_version)),
   tls_version |-> conn.tls_version, tls_cipher |-> conn.tls_cipher, alpn |-> conn.alpn,
   is_encrypted |-> Scheme(conn) = "https"]

-------------------------------------------------------------------------------
(* What the site knows of the client.                                      *)

GeoLookup(a) == IF a = None THEN None ELSE IF a[1] \in Private THEN None ELSE GeoDb[a[1]]

ClassifyResolver(ip) ==
  [resolver_ip |-> ip,
   resolver_name |-> IF ip = None THEN None ELSE Known[ip[1]],
   is_known_public |-> ip # None /\ Known[ip[1]] # None]

\* The host of a referrer: lower case, without port; what urlparse rejects or
\* finds no host in is nobody's.
SafeHost(referer) ==
  IF referer = None \/ referer[1].site = "unparsable" THEN None
  ELSE <<Drop(referer[1], {"caps", "port"})>>

\* Mutant of External: only the base domain itself is the site's own.
ExternalSubdomains(host, own) == host # None /\ host[1] # own

External(host, own) == host # None /\ host[1] # [own EXCEPT !.sub = host[1].sub]

Redirect(q, own) ==
  LET host == SafeHost(q.referer)
  IN [referrer |-> q.referer, referrer_host |-> host, via_header |-> q.via,
      looks_like_captive_portal |-> q.via # None \/ External(host, Drop(own, {"caps"}))]

-------------------------------------------------------------------------------
(* Pages.  A page is what respond is given: the JSON, the text, whether     *)
(* there is a template, whether the text may carry the "tip" line, and     *)
(* whether the response is marked public.                                  *)

Page(data, text, hint, public) ==
  [data |-> <<data>>, text |-> <<text>>, html |-> TRUE, hint |-> hint, public |-> public]

IpPage(q) ==
  LET a == ClientIp(q) IN
  Page([ip |-> a, protocol |-> IF a = None THEN None ELSE <<Protocol(a[1])>>], a, FALSE, TRUE)

SingleStackPage(q, family) ==
  LET a == SingleStack(q, family) IN Page([value |-> a], a, FALSE, TRUE)

AsnData(found) ==
  IF found = None THEN [asn |-> None, name |-> None, prefix |-> None]
  ELSE [asn |-> <<found[1].number>>, name |-> found[1].name, prefix |-> found[1].prefix]

AsnPage(q) ==
  LET data == AsnData(AsnLookup(ClientIp(q))) IN Page(data, data, TRUE, TRUE)

IspPage(q) ==
  LET data == AsnData(AsnLookup(ClientIp(q)))
      isp == [isp |-> data.name, asn |-> data.asn]
  IN Page(isp, isp, FALSE, TRUE)

GeoData(found) ==
  IF found = None
  THEN [country |-> None, region |-> None, city |-> None, lat |-> None, lon |-> None]
  ELSE found[1]

\* Coordinates are shown in pairs.
Coords(data) == IF None \in {data.lat, data.lon} THEN None ELSE data.lat \o data.lon

GeoText(data) == [country |-> data.country, region |-> data.region, city |-> data.city,
                  coords |-> Coords(data)]

GeoPage(q) ==
  LET data == GeoData(GeoLookup(ClientIp(q))) IN Page(data, GeoText(data), TRUE, TRUE)

\* A blank ?resolver= is none.
DnsPage(q) ==
  LET data == ClassifyResolver(IF q.resolver = <<"">> THEN None ELSE q.resolver)
  IN Page(data, [ip |-> data.resolver_ip, known |-> data.resolver_name], TRUE, TRUE)

ProtocolPage(q) ==
  LET data == FromRequest(q.conn)
  IN Page(data, [version |-> data.http_version, tls |-> data.tls_version,
                 alpn |-> data.alpn, encrypted |-> data.is_encrypted], TRUE, TRUE)

\* The lookup's reply is RdnsCache's subject.
RdnsPage(a) ==
  LET data == [ip |-> a, hostname |-> Ptr[a]] IN Page(data, data.hostname, TRUE, TRUE)

TimingEcho == [Page([ok |-> TRUE], "ok", FALSE, TRUE) EXCEPT !.html = FALSE]

HelpPage(q) == Page([help |-> GetBaseDomain(q)], GetBaseDomain(q), TRUE, FALSE)

Collect(q) ==
  LET a == ClientIp(q)
      class == IF a = None THEN None ELSE <<Classify(a[1])>>
      own == GetBaseDomain(q)
      tcp == ParseTcpInfo(q.tcp)
  IN [ip |-> [current |-> a, class |-> class,
              ipv4 |-> SingleStack(q, "IPv4"), ipv6 |-> SingleStack(q, "IPv6"),
              rdns |-> IF a = None THEN None ELSE Ptr[a[1]]],
      geoip |-> GeoLookup(a), asn |-> AsnLookup(a),
      dns |-> ClassifyResolver(q.resolver),
      tcp |-> tcp,
      http |-> [version |-> q.conn.scope_version, protocol |-> Scheme(q.conn)],
      protocol |-> FromRequest(q.conn),
      redirect_origin |-> Redirect(q, own),
      server |-> own,
      request |-> [path |-> q.path, client |-> q.peer, tcp |-> q.tcp, xff |-> q.xff]]

\* The aggregated text leaves out the resolver, the region and the server.
TextAggregated(data) ==
  [ip |-> data.ip.current, rdns |-> data.ip.rdns,
   protocol |-> IF data.ip.class = None THEN None ELSE <<data.ip.class[1].protocol>>,
   version |-> data.protocol.http_version, tls |-> data.protocol.tls_version,
   alpn |-> data.protocol.alpn,
   geo |-> IF data.geoip = None THEN None
           ELSE <<[country |-> data.geoip[1].country, city |-> data.geoip[1].city,
                   coords |-> Coords(data.geoip[1])]>>,
   asn |-> data.asn, tcp |-> data.tcp]

HomePage(q) == LET data == Collect(q) IN Page(data, TextAggregated(data), TRUE, FALSE)

-------------------------------------------------------------------------------
(* Negotiation.                                                            *)

\* Mutant of ChooseFormat: curl is recognised before an explicit text/html.
ChooseFormatAgentFirst(q, html) ==
  IF q.format \in {"json", "text", "html"} THEN q.format
  ELSE IF "application/json" \in q.accept THEN "json"
  ELSE IF q.agent = "curl" \/ ("text/plain" \in q.accept /\ "text/html" \notin q.accept) THEN "text"
  ELSE IF html /\ ("text/html" \in q.accept \/ q.accept \in {{}, {"*/*"}}) THEN "html"
  ELSE "json"

ChooseFormat(q, html) ==
  IF q.format \in {"json", "text", "html"} THEN q.format
  ELSE IF "application/json" \in q.accept THEN "json"
  ELSE IF "text/plain" \in q.accept /\ "text/html" \notin q.accept THEN "text"
  ELSE IF html /\ "text/html" \in q.accept THEN "html"
  ELSE IF q.agent = "curl" THEN "text"
  ELSE IF html /\ q.accept \in {{}, {"*/*"}} THEN "html"
  ELSE "json"

Bare(status, form, body) ==
  [status |-> status, form |-> form, body |-> body, hint |-> FALSE, headers |-> {},
   trace |-> None]

\* An HTTPException, in the application's own shape.
HttpError(status, detail) == Bare(status, "json", [detail |-> detail])

Public == {"Access-Control-Allow-Origin", "Cache-Control", "Access-Control-Expose-Headers"}

\* respond and add_public_cors.  Every page has JSON, so the fallback for a
\* format without a payload is JSON.
Respond(q, page) ==
  LET format == ChooseFormat(q, page.html)
      form == IF format = "html" /\ ~page.html THEN "json" ELSE format
  IN [Bare(200, form, IF form = "text" THEN page.text[1] ELSE page.data[1])
       EXCEPT !.hint = form = "text" /\ page.hint,
              !.headers = IF page.public THEN Public ELSE {}]

-------------------------------------------------------------------------------
(* The traceroute routes.                                                  *)

\* An error keeps its status only where the path names the format.
ErrorResponse(q, message, status) ==
  CASE q.path = "/traceroute.json" -> Bare(status, "json", [error |-> message])
    [] q.path = "/traceroute.txt"  -> Bare(status, "text", [error |-> message])
    [] OTHER -> Respond(q, Page([error |-> message], [error |-> message], TRUE, FALSE))

\* What the service returned: a result, just run or read back from the entry
\* that was found, and its age.
Result(q, found) == IF q.trace.kind = "hit" THEN ResultOfHit(found[1].dict)
                    ELSE RunMtr(ClientIp(q)[1], q.trace.hubs)
Meta(q) == IF q.trace.kind = "hit" THEN MetaOfHit(q.trace.remaining) ELSE MetaOfRun

\* What nobody catches, in Starlette's own words.
Unhandled == Bare(500, "text", [error |-> "internal"])

\* A hit whose entry this version cannot read back.
Unreadable(q, found) == q.trace.kind = "hit" /\ ~Readable(found[1].dict)

ResultResponse(q, found) ==
  LET r == Result(q, found) IN
  [ CASE q.path = "/traceroute.json" -> Bare(200, "json", r)
      [] q.path = "/traceroute.txt"  -> Bare(200, "text", FormatText(r))
      [] OTHER -> Respond(q, Page(r, FormatText(r), TRUE, FALSE))
    EXCEPT !.trace = <<Meta(q)>> ]

\* Mutant of Traceroute: TracerouteBusyError, which is no TracerouteError, is
\* not caught.
TracerouteBusyUncaught(q, found) ==
  IF ClientIp(q) = None THEN ErrorResponse(q, "no_address", 200)
  ELSE CASE q.trace.kind = "limited" -> ErrorResponse(q, "in_progress", 429)
         [] q.trace.kind = "busy"    -> Unhandled
         [] q.trace.kind = "exit"    -> ErrorResponse(q, TranslateError(q.trace.ended), 200)
         [] Unreadable(q, found)     -> Unhandled
         [] OTHER                    -> ResultResponse(q, found)

Traceroute(q, found) ==
  IF ClientIp(q) = None THEN ErrorResponse(q, "no_address", 200)
  ELSE CASE q.trace.kind = "limited" -> ErrorResponse(q, "in_progress", 429)
         [] q.trace.kind = "busy"    -> ErrorResponse(q, "busy", 503)
         [] q.trace.kind = "exit"    -> ErrorResponse(q, TranslateError(q.trace.ended), 200)
         [] Unreadable(q, found)     -> Unhandled
         [] OTHER                    -> ResultResponse(q, found)

\* The rows of a live run as mtr's lines complete them, several per hop.  The
\* address is the last that is known; the name and the ASN are looked up once
\* and stay those of the first.
Events(q) ==
  LET lines == q.trace.events
      known(i) == {j \in 1..i : lines[j].hop = lines[i].hop /\ lines[j].hub.host # None}
      first(i) == CHOOSE j \in known(i) : \A k \in known(i) : j <= k
      last(i) == CHOOSE j \in known(i) : \A k \in known(i) : k <= j
      row(i, host) == EnrichHop(lines[i].hop, [lines[i].hub EXCEPT !.host = host])
  IN [i \in DOMAIN lines |->
       IF known(i) = {} THEN row(i, None)
       ELSE [row(i, lines[first(i)].hub.host) EXCEPT !.ip = lines[last(i)].hub.host]]

\* The stream: every outcome is a sequence of frames with status 200.
StreamFrames(q, found) ==
  LET a == ClientIp(q) IN
  IF a = None THEN <<ErrorFrame("no_address")>>
  ELSE CASE q.trace.kind = "hit"     -> ReplayFrames(found[1].dict, q.trace.remaining)
         [] q.trace.kind = "limited" -> <<ErrorFrame("in_progress")>>
         [] q.trace.kind = "live"    -> LiveFrames(a[1], Events(q))
         [] q.trace.kind = "busy"    -> BrokenFrames(a[1], <<>>, "busy")
         [] OTHER                    -> BrokenFrames(a[1], <<>>, TranslateError(q.trace.ended))

TracerouteStream(q, found) ==
  [Bare(200, "event-stream", StreamFrames(q, found))
    EXCEPT !.headers = {"Access-Control-Allow-Origin"} \union
                       (IF ClientIp(q) = None THEN {} ELSE {"Cache-Control"})]

-------------------------------------------------------------------------------
(* The routes.                                                             *)

\* The request's own address, or the one in the path.
Rdns(q) ==
  LET a == IF q.path = "/rdns" THEN ClientIp(q) ELSE q.arg IN
  IF a # None THEN Respond(q, RdnsPage(a[1]))
  ELSE HttpError(400, IF q.path = "/rdns" THEN "no_client_ip" ELSE "invalid_ip")

TracePaths == {"/traceroute", "/traceroute.json", "/traceroute.txt"}
Pages == {"/", "/ip", "/ipv4", "/ipv6", "/asn", "/isp", "/geoip", "/dns", "/protocol",
          "/timing/echo", "/help"}

PageOf(path, q) ==
  CASE path = "/"            -> HomePage(q)
    [] path = "/ip"          -> IpPage(q)
    [] path = "/ipv4"        -> SingleStackPage(q, "IPv4")
    [] path = "/ipv6"        -> SingleStackPage(q, "IPv6")
    [] path = "/asn"         -> AsnPage(q)
    [] path = "/isp"         -> IspPage(q)
    [] path = "/geoip"       -> GeoPage(q)
    [] path = "/dns"         -> DnsPage(q)
    [] path = "/protocol"    -> ProtocolPage(q)
    [] path = "/timing/echo" -> TimingEcho
    [] path = "/help"        -> HelpPage(q)

Route(q, found) ==
  CASE q.path \in Pages -> Respond(q, PageOf(q.path, q))
    [] q.path \in {"/rdns", "/rdns/{ip}"} -> Rdns(q)
    [] q.path \in TracePaths -> Traceroute(q, found)
    [] q.path = "/traceroute/stream" -> TracerouteStream(q, found)
    [] OTHER -> HttpError(404, "not_found")

-------------------------------------------------------------------------------
(* The pipeline.                                                           *)

NoState == [stamped |-> FALSE, subdomain |-> None]
NoResponse == Bare(0, "none", <<>>)

\* A hit needs an entry under the client's key.
Possible(q) == q.trace.kind = "hit" /\ ClientIp(q) # None
                 => entry # None /\ entry[1].key = CacheKey(ClientIp(q)[1])

\* The bound: one entry is followed at a time, and while it is there only the
\* hits that read it come.
OneEntry(q) == entry # None => q.trace.kind = "hit"

Arrive ==
  /\ stage = "idle"
  /\ stage' = "timing"
  /\ \E i \in DOMAIN Views : \E q \in Views[i] :
       Possible(q) /\ OneEntry(q) /\ sent' = q /\ req' = q
  /\ UNCHANGED <<state, resp, entry>>

\* Mutant of StripUntrustedHeaders: the second name for the MSS is missing.
StripUntrustedHeadersOldNames(q) ==
  IF q.peer # None /\ q.peer[1] \in Loopback THEN q
  ELSE [q EXCEPT !.tcp = [h \in DOMAIN @ |-> IF h = "mss" THEN @[h] ELSE None]]

StripUntrustedHeaders(q) ==
  IF q.peer # None /\ q.peer[1] \in Loopback THEN q
  ELSE [q EXCEPT !.tcp = [h \in DOMAIN @ |-> IF h \in TrustedUpstreamHeaders THEN None ELSE @[h]]]

RequestTiming ==
  /\ stage = "timing"
  /\ stage' = "subdomain"
  /\ req' = StripUntrustedHeaders(req)
  /\ state' = [state EXCEPT !.stamped = TRUE]
  /\ UNCHANGED <<sent, resp, entry>>

\* The root of the two bare hosts becomes their echo page.
Subdomain ==
  /\ stage = "subdomain"
  /\ stage' = "handler"
  /\ LET tag == DetectSubdomain(req.host, MiddlewareBase(req)) IN
     /\ state' = [state EXCEPT !.subdomain = tag]
     /\ req' = IF tag \in {<<"ipv4">>, <<"ipv6">>} /\ req.path = "/"
               THEN [req EXCEPT !.path = IF tag = <<"ipv4">> THEN "/ipv4" ELSE "/ipv6"]
               ELSE req
  /\ UNCHANGED <<sent, resp, entry>>

\* The results a request has the service store: of its own run, if any.
Stored(q) ==
  LET a == ClientIp(q) IN
  IF a = None \/ q.trace.kind # "live" THEN {}
  ELSE IF q.path \in TracePaths THEN {RunMtr(a[1], q.trace.hubs)}
  ELSE IF q.path = "/traceroute/stream" THEN {StreamStored(a[1], Events(q))}
  ELSE {}

EntryOf(run) == [key |-> CacheKey(run.target), dict |-> run, run |-> run]

\* What GET gave the service.
Found(q) == IF q.trace.kind = "hit" THEN entry ELSE None

\* Without Valkey nothing is stored.
Handle ==
  /\ stage = "handler"
  /\ stage' = "leaving"
  /\ resp' = Route(req, Found(req))
  /\ entry' \in {entry} \union {<<EntryOf(run)>> : run \in Stored(req)}
  /\ UNCHANGED <<sent, req, state>>

\* What was not handled passes the middlewares by.
Leave ==
  /\ stage = "leaving"
  /\ stage' = "answered"
  /\ resp' = IF resp.status = 500 THEN resp
             ELSE [resp EXCEPT !.headers = @ \union {"X-Response-Time-Ms"}]
  /\ UNCHANGED <<sent, req, state, entry>>

\* Nothing of a request outlives it but what it had stored.
Close ==
  /\ stage = "answered"
  /\ stage' = "idle"
  /\ sent' = NoRequest /\ req' = NoRequest
  /\ state' = NoState /\ resp' = NoResponse
  /\ UNCHANGED entry

Expire ==
  /\ stage = "idle" /\ entry # None
  /\ entry' = None
  /\ UNCHANGED <<stage, sent, req, state, resp>>

\* What another version would have stored of the same run.
Reshaped(dict, version) ==
  LET hop(h) == [f \in (DOMAIN h \ version.hopLacks) \union version.hopMore |-> Field(h, f, "other")]
  IN [f \in DOMAIN dict \ version.lacks |->
       IF f = "hops" THEN [n \in DOMAIN dict.hops |-> hop(dict.hops[n])] ELSE dict[f]]

\* The entry is from before a restart, and the version that stored it another.
OtherVersion ==
  /\ stage = "idle" /\ entry # None /\ entry[1].dict = entry[1].run
  /\ \E v \in Versions : entry' = <<[entry[1] EXCEPT !.dict = Reshaped(@, v)]>>
  /\ UNCHANGED <<stage, sent, req, state, resp>>

Init ==
  /\ stage = "idle"
  /\ sent = NoRequest /\ req = NoRequest
  /\ state = NoState /\ resp = NoResponse
  /\ entry = None

Next == \/ Arrive \/ RequestTiming \/ Subdomain \/ Handle \/ Leave \/ Close
        \/ Expire \/ OtherVersion

Spec == Init /\ [][Next]_vars

-------------------------------------------------------------------------------
(* Properties.                                                             *)

Answered == stage = "answered"

Structured == resp.form \in {"json", "html"}

\* However Host is spelt, and whatever its port, the root of ipv4.<base> and
\* ipv6.<base> gives a script the client's bare address of that family, or
\* nothing, and the home page on another host may read it.  A base domain with
\* a port, which is not the default, is excepted: Host is compared without one.
BareHostEchoes ==
  Answered /\ sent.path = "/" /\ sent.host # None =>
    \A family \in {"ipv4", "ipv6"} :
      LET base == OrElse(sent.base, Fallback)
          own == SingleStack(sent, IF family = "ipv4" THEN "IPv4" ELSE "IPv6")
      IN /\ sent.host[1].sub = family
         /\ sent.host[1].site = base.site
         /\ "port" \notin base.form
         => /\ resp.status = 200 /\ ~resp.hint /\ Public \subseteq resp.headers
            /\ IF Structured THEN resp.body = [value |-> own] ELSE resp.body = own

\* A TCP reading on the home page, or a header of one in its inspection panel,
\* was set by a proxy on this host, and a reading is within its range.
ReadingsFromProxyOnly ==
  Answered /\ req.path = "/" /\ Structured =>
    /\ resp.body.tcp # None \/ (\E h \in DOMAIN sent.tcp : resp.body.request.tcp[h] # None)
         => sent.peer # None /\ sent.peer[1] \in Loopback
    /\ resp.body.tcp # None =>
         /\ resp.body.tcp[1].rtt \in 0..(MaxReading \div 100)
         /\ OrElse(resp.body.tcp[1].mss, 1) \in 1..MaxReading

\* A client that asks for one type, by ?format= or by naming it alone among
\* the three in Accept, gets it wherever the page has it; that it is curl, or
\* that it takes other things too, does not matter.
NamedTypeHonoured ==
  LET type(form) == CASE form = "json" -> "application/json"
                      [] form = "text" -> "text/plain"
                      [] form = "html" -> "text/html"
      named == {form \in {"json", "text", "html"} : type(form) \in sent.accept}
      wanted == IF sent.format \in {"json", "text", "html"} THEN {sent.format} ELSE named
  IN Answered /\ req.path \in Pages \ {"/timing/echo"} =>
       \A form \in wanted : wanted = {form} => resp.form = form

LooksLikePortal == resp.body.redirect_origin.looks_like_captive_portal

BaseSent == OrElse(sent.base, Fallback)

\* A visit that a page of the site itself refers to, under the base domain or
\* any subdomain of it, never looks like a captive portal's (PLAN.md:244-245).
\* It does when one of the names has a trailing dot or the base domain a port.
SelfReferrersIgnored ==
  Answered /\ req.path = "/" /\ Structured
  /\ sent.via = None /\ sent.referer # None /\ sent.referer[1].site = BaseSent.site
  => ~LooksLikePortal

\* A visit with a hint of the proxy's, or from a page of another site, always
\* looks like a captive portal's; any other does not, whichever subdomain it
\* comes from, however it spells the case and the port, and whether the base
\* domain is the proxy's or the fallback, as long as no name has a trailing dot
\* and the base domain no port.
ReferrersToldApart ==
  Answered /\ req.path = "/" /\ Structured =>
    LET foreign == sent.referer # None /\ sent.referer[1].site \notin {BaseSent.site, "unparsable"}
        undotted == /\ sent.referer # None => "dot" \notin sent.referer[1].form
                    /\ BaseSent.form \subseteq {"caps"}
    IN /\ sent.via # None \/ foreign => LooksLikePortal
       /\ LooksLikePortal /\ undotted => sent.via # None \/ foreign

Traced == Answered /\ sent.trace.kind = "hit" /\ ClientIp(sent) # None

\* A cached result is told as the run it was stored from: of an entry of this
\* version everything, of another's all that the entry has, in the structured
\* forms and in the replayed stream.  Where this version cannot tell it in full
\* the request fails, and it never fails over an entry of its own.
HitRetold ==
  LET run == entry[1].run
      dict == entry[1].dict
      hops == IF "hops" \in DOMAIN dict THEN DOMAIN run.hops ELSE {}
      rows == {i \in DOMAIN resp.body : resp.body[i].event = "hop"}
      tells(n, row) == /\ row.hop = run.hops[n].hop /\ row.ip = run.hops[n].ip
                       /\ DOMAIN dict.hops[n] = HopFields => row = HopRow(run.hops[n])
  IN Traced =>
     /\ resp.status = 500 \/ (resp.form = "event-stream" /\ resp.body = <<>>) => dict # run
     /\ resp.trace # None /\ Structured =>
          /\ \A f \in DOMAIN dict \ {"hops", "cached"} : resp.body[f] = run[f]
          /\ DOMAIN resp.body.hops = hops
          /\ \A n \in hops : \A f \in DOMAIN dict.hops[n] :
               f \in DOMAIN resp.body.hops[n] /\ resp.body.hops[n][f] = run.hops[n][f]
     /\ resp.form = "event-stream" /\ resp.body # <<>> =>
          /\ rows = {n + 1 : n \in hops}
          /\ \A n \in hops : tells(n, resp.body[n + 1].row)
          /\ "nat_warning" \in DOMAIN dict => resp.body[1].warning = run.nat_warning

\* The age of a cached result and the time to its refresh add up to its life,
\* also when the key expired between GET and TTL; body and headers agree on
\* whether it is cached.
AgeAddsUp ==
  Answered /\ resp.trace # None =>
    LET meta == resp.trace[1] IN
    /\ meta.age \in 0..Ttl /\ meta.refreshes = Ttl - meta.age
    /\ Structured => resp.body.cached = meta.cached

\* Whoever ran the trace that was stored, a client whom it answers is shown one
\* to its own address, or to one in its own /64, and warned of its own address.
\* Of the IPv4-mapped addresses, :: and ::1, which share a /64 although some are
\* private, the warning may be another's.
WarningIsTheClients ==
  Traced /\ resp.trace # None /\ Structured =>
    LET c == ClientIp(sent)[1]
        target == resp.body.target
    IN /\ IF c \in V4 THEN target = c ELSE target \notin V4 /\ Net64[target] = Net64[c]
       /\ c \notin Mixed /\ "nat_warning" \in DOMAIN entry[1].dict
            => resp.body.nat_warning = NatWarning(c)

\* What a live stream stores replays as the last row the client was shown of
\* each hop, in the order of the hops.
ReplayShowsLastRows ==
  Answered /\ req.path = "/traceroute/stream" /\ sent.trace.kind = "live"
  /\ ClientIp(sent) # None =>
    LET rowsOf(frames) == {i \in DOMAIN frames : frames[i].event = "hop"}
        shown == resp.body
        replayed == ReplayFrames(StreamStored(ClientIp(sent)[1], Events(sent)), Ttl)
        last(n) == CHOOSE i \in rowsOf(shown) :
                     shown[i].row.hop = n /\ \A j \in rowsOf(shown) :
                                               shown[j].row.hop = n => j <= i
    IN /\ {replayed[i].row.hop : i \in rowsOf(replayed)} = {shown[i].row.hop : i \in rowsOf(shown)}
       /\ \A i \in rowsOf(replayed) : replayed[i] = shown[last(replayed[i].row.hop)]
       /\ \A i, j \in rowsOf(replayed) : i < j => replayed[i].row.hop < replayed[j].row.hop
===============================================================================
