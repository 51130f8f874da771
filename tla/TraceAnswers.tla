----------------------------- MODULE TraceAnswers -----------------------------
(***************************************************************************)
(* What a traceroute is told as: from mtr's report to a result, through    *)
(* the cache and back, and to the text, the JSON and the stream of events. *)
(* Who runs mtr and when is TracerouteService's subject; here the outcome  *)
(* of run_mtr_cached is given.                                             *)
(*                                                                         *)
(* An optional value is <<>> (None) or <<v>>.                              *)
(***************************************************************************)
EXTENDS Integers, Sequences, FiniteSets

CONSTANTS
  Addr,      \* IP addresses, by what the code tells apart
  V4,        \* the IPv4 ones
  Private,   \* is_private
  Cgnat,     \* the IPv4 addresses in 100.64.0.0/10
  Mixed,     \* the IPv6 addresses whose /64 holds private and public ones: ::/64
             \* with the IPv4-mapped addresses, ::1 and ::
  Net64,     \* [Addr \ V4 -> network]: the /64 of an IPv6 address
  Ptr,       \* [Addr -> optional name]: reverse DNS
  AsnDb,     \* [Addr -> optional [number, name, prefix]]: GeoLite2-ASN
  Ttl,       \* settings.traceroute_cache_ttl
  MaxHops    \* _MAX_HOPS

ASSUME AddressAssumption ==
  /\ V4 \subseteq Addr /\ Private \subseteq Addr
  /\ Cgnat \subseteq V4 \ Private /\ Mixed \subseteq Addr \ V4
  /\ Ttl \in Nat \ {0} /\ MaxHops \in Nat \ {0}

\* A network is not an address, and those in it are private alike but in Mixed.
ASSUME NetworkAssumption ==
  \A a, b \in Addr \ V4 :
    /\ Net64[a] \notin V4
    /\ Net64[a] = Net64[b] /\ a \notin Mixed => (a \in Private <=> b \in Private)

None == <<>>
Opt(S) == {None} \union {<<v>> : v \in S}
OrElse(option, default) == IF option = None THEN default ELSE option[1]

\* geoip2's ASN database, read by the lookups of hops and of visitors alike.
AsnLookup(a) == IF a = None THEN None ELSE IF a[1] \in Private THEN None ELSE AsnDb[a[1]]

NatWarning(a) ==
  CASE a \in Private -> <<"private">>
    [] a \in Cgnat   -> <<"cgnat">>
    [] OTHER         -> None

\* Mutant of CacheKey: every IPv6 address has the same key.
CacheKeyFamily(a) == IF a \in V4 THEN a ELSE "v6"

CacheKey(a) == IF a \in V4 THEN a ELSE Net64[a]

-------------------------------------------------------------------------------
(* run_mtr, after mtr has exited.                                          *)

\* A hub of mtr's report: host, loss and average are optional, mpls a sequence.
EnrichHop(n, hub) ==
  IF hub.host = None
  THEN [hop |-> n, ip |-> None, rdns |-> None, asn |-> None, asn_name |-> None,
        loss_pct |-> OrElse(hub.loss, 100), avg_ms |-> None, mpls |-> <<>>]
  ELSE LET found == AsnLookup(hub.host) IN
       [hop |-> n, ip |-> hub.host, rdns |-> Ptr[hub.host[1]],
        asn |-> IF found = None THEN None ELSE <<found[1].number>>,
        asn_name |-> IF found = None THEN None ELSE found[1].name,
        loss_pct |-> OrElse(hub.loss, 0), avg_ms |-> hub.avg, mpls |-> hub.mpls]

Shorter(n, limit) == IF n < limit THEN n ELSE limit

RunMtr(a, hubs) ==
  [target |-> a, cached |-> FALSE, nat_warning |-> NatWarning(a),
   hops |-> [n \in 1..Shorter(Len(hubs), MaxHops) |-> EnrichHop(n, hubs[n])]]

\* Without a route the caller learns so; everything else is one error.
TranslateError(ended) == IF ended = "noroute" THEN "unreachable" ELSE "failed"

-------------------------------------------------------------------------------
(* The cache.  A stored dict is the record json.dumps(asdict(result)) has;  *)
(* an entry that another version of the program wrote may lack fields or   *)
(* have others.  target stands for ran_at too, and mpls for its labels.    *)

Field(dict, name, default) == IF name \in DOMAIN dict THEN dict[name] ELSE default

NeededHopFields == {"hop", "ip"}
HopFields == NeededHopFields \union {"rdns", "asn", "asn_name", "loss_pct", "avg_ms", "mpls"}

HopOf(dict) ==
  [hop |-> dict.hop, ip |-> dict.ip, rdns |-> Field(dict, "rdns", None),
   asn |-> Field(dict, "asn", None), asn_name |-> Field(dict, "asn_name", None),
   loss_pct |-> Field(dict, "loss_pct", 0), avg_ms |-> Field(dict, "avg_ms", None),
   mpls |-> Field(dict, "mpls", <<>>)]

\* Hop(**h) takes no other field and insists on the first two, and so does
\* data["target"]; what is not readable raises an error nobody catches.
Readable(dict) ==
  /\ "target" \in DOMAIN dict
  /\ \A n \in DOMAIN Field(dict, "hops", <<>>) :
       NeededHopFields \subseteq DOMAIN dict.hops[n] /\ DOMAIN dict.hops[n] \subseteq HopFields

\* Mutant of Deserialize: an optional field is forgotten.
DeserializeForgets(dict) ==
  [target |-> dict.target, cached |-> Field(dict, "cached", FALSE), nat_warning |-> None,
   hops |-> [n \in DOMAIN Field(dict, "hops", <<>>) |-> HopOf(dict.hops[n])]]

Deserialize(dict) ==
  [target |-> dict.target, cached |-> Field(dict, "cached", FALSE),
   nat_warning |-> Field(dict, "nat_warning", None),
   hops |-> [n \in DOMAIN Field(dict, "hops", <<>>) |-> HopOf(dict.hops[n])]]

\* A hit: GET gave dict, and a TTL command after it gave remaining, which is
\* negative when the key has expired in between.
\* Mutant of MetaOfHit: the answer of TTL is used as it is.
MetaOfHitUnclamped(remaining) ==
  [cached |-> TRUE, age |-> Ttl - remaining, refreshes |-> remaining]

MetaOfHit(remaining) ==
  LET life == IF remaining < 0 THEN 0 ELSE remaining IN
  [cached |-> TRUE, age |-> Ttl - life, refreshes |-> life]

MetaOfRun == [cached |-> FALSE, age |-> 0, refreshes |-> Ttl]

ResultOfHit(dict) == [Deserialize(dict) EXCEPT !.cached = TRUE]

-------------------------------------------------------------------------------
(* The three shapes of an answer.                                          *)

\* What a line of the text shows of a hop.
HopLine(h) ==
  IF h.ip = None THEN [hop |-> h.hop, ip |-> None]
  ELSE [hop |-> h.hop, ip |-> h.ip, rdns |-> h.rdns, asn |-> h.asn,
        asn_name |-> IF h.asn = None THEN None ELSE h.asn_name,
        loss_pct |-> h.loss_pct, avg_ms |-> h.avg_ms, mpls |-> h.mpls]

FormatText(r) == [target |-> r.target, warning |-> r.nat_warning,
                  lines |-> [n \in DOMAIN r.hops |-> HopLine(r.hops[n])]]

\* The rendered table row of a hop event; MPLS labels have no column.
HopRow(h) ==
  IF h.ip = None THEN [hop |-> h.hop, ip |-> None]
  ELSE [hop |-> h.hop, ip |-> h.ip, rdns |-> h.rdns, asn |-> h.asn,
        asn_name |-> IF h.asn = None THEN None ELSE h.asn_name,
        loss_pct |-> h.loss_pct, avg_ms |-> h.avg_ms]

\* A frame of the event stream; the banner says either how old the result is
\* or that it is live.
Banner(meta, warning) ==
  [event |-> "status", warning |-> warning,
   age |-> IF meta.cached THEN <<meta.age, meta.refreshes>> ELSE <<>>]
HopFrame(h) == [event |-> "hop", row |-> HopRow(h)]
DoneFrame == [event |-> "done"]
ErrorFrame(message) == [event |-> "error", error |-> message]

\* A hit is replayed from the stored result; of one that is not readable the
\* stream breaks off before its first frame.
ReplayFrames(dict, remaining) ==
  LET r == ResultOfHit(dict) IN
  IF ~Readable(dict) THEN <<>>
  ELSE <<Banner(MetaOfHit(remaining), r.nat_warning)>>
         \o [n \in DOMAIN r.hops |-> HopFrame(r.hops[n])]
         \o <<DoneFrame>>

\* A live run: hop events as stream_mtr_live gives them, several per hop.
LiveFrames(a, hops) ==
  <<Banner(MetaOfRun, NatWarning(a))>>
    \o [n \in DOMAIN hops |-> HopFrame(hops[n])]
    \o <<DoneFrame>>

\* A live run that ends early: the events so far and an error.
BrokenFrames(a, hops, message) ==
  <<Banner(MetaOfRun, NatWarning(a))>>
    \o [n \in DOMAIN hops |-> HopFrame(hops[n])]
    \o <<ErrorFrame(message)>>

\* Mutant of LatestHops: the first event of a hop is kept.
LatestHopsFirst(hops) ==
  SelectSeq(hops, LAMBDA h : \A i \in DOMAIN hops :
                               hops[i].hop = h.hop => \E j \in 1..i : hops[j] = h)

\* What a live stream stores: the last event of each hop, in hop order.
LatestHops(hops) ==
  LET last(n) == CHOOSE i \in DOMAIN hops :
                   hops[i].hop = n /\ \A j \in DOMAIN hops : hops[j].hop = n => j <= i
      nums == {hops[i].hop : i \in DOMAIN hops}
      nth(k) == CHOOSE n \in nums : Cardinality({m \in nums : m < n}) = k - 1
  IN [k \in 1..Cardinality(nums) |-> hops[last(nth(k))]]

StreamStored(a, hops) ==
  [target |-> a, cached |-> FALSE, nat_warning |-> NatWarning(a), hops |-> LatestHops(hops)]
===============================================================================
