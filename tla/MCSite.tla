-------------------------------- MODULE MCSite --------------------------------
(* Every kind of address the code tells apart, two of them in one /64 and    *)
(* one in another, and requests in views: each view varies the fields that   *)
(* one concern of the code reads, and leaves the others at a plain visit to  *)
(* the home page.                                                            *)
EXTENDS Site, TLC

Addrs == {"v4", "v4private", "cgnat", "v6", "v6b", "v6c", "v6private", "mapped", "mapped_private",
          "v6loopback", "loopback"}
V4s == {"v4", "v4private", "cgnat", "loopback"}
Privates == {"v4private", "v6private", "mapped_private", "v6loopback", "loopback"}
Cgnats == {"cgnat"}
Mixeds == {"mapped", "mapped_private", "v6loopback"}
Net64s == [a \in Addrs \ V4s |-> CASE a \in {"v6", "v6b"} -> "net"
                                   [] a = "v6c"           -> "net2"
                                   [] a = "v6private"     -> "ula"
                                   [] OTHER               -> "zero"]
Ptrs == [a \in Addrs |-> IF a \in {"v4", "v6", "v4private"} THEN <<"host">> ELSE None]
Asns == [a \in Addrs |->
          CASE a \in {"v4", "v6"} -> <<[number |-> 64500, name |-> <<"net">>, prefix |-> <<"p">>]>>
            [] a = "v6b"          -> <<[number |-> 64501, name |-> None, prefix |-> None]>>
            [] OTHER              -> None]
Geos == [a \in Addrs |->
          IF a \in {"v4", "v6b"}
          THEN <<[country |-> <<"cz">>, region |-> None, city |-> <<"brno">>, lat |-> <<49>>,
                  lon |-> IF a = "v4" THEN <<16>> ELSE None]>>
          ELSE None]
Resolvers == [r \in {"", "quad9", "isp"} |-> IF r = "quad9" THEN <<"Quad9">> ELSE None]
Fallbacks == [sub |-> "", site |-> "own", form |-> {"caps"}]

NoTcp == [h \in TrustedUpstreamHeaders |-> None]
Behind == [forwarded_proto |-> <<"https">>, scheme |-> "http", forwarded_version |-> <<<<2, 0>>>>,
           scope_version |-> <<1, 1>>, tls_version |-> <<"TLSv1.3">>, tls_cipher |-> None,
           alpn |-> <<"h2">>]
Direct == [Behind EXCEPT !.forwarded_proto = None, !.forwarded_version = None,
                         !.tls_version = None, !.alpn = None]
Plain == [peer |-> <<"loopback">>, xff |-> <<"v4">>, host |-> None, base |-> None, path |-> "/", arg |-> None,
          format |-> "", accept |-> {"text/html", "*/*"}, agent |-> "browser", tcp |-> NoTcp,
          conn |-> Behind, resolver |-> None, referer |-> None, via |-> None,
          trace |-> [kind |-> "limited"]]

Named(subs, sites, forms) == [sub : subs, site : sites, form : forms]

Naming ==
  {[Plain EXCEPT !.peer = p, !.xff = x, !.host = h, !.base = b, !.path = pt, !.format = f] :
     p \in Opt({"loopback", "v4", "v6"}),
     x \in {<<>>, <<"blank", "v4">>, <<"v4", "v6">>, <<"v6">>, <<"garbage">>},
     h \in Opt(Named({"", "ipv4", "ipv6", "secure"}, {"own", "other"}, {{}, {"caps", "port", "dot"}})),
     b \in Opt(Named({""}, {"own", "other"}, {{}, {"caps"}, {"port"}})),
     pt \in {"/", "/ip"}, f \in {"json", "text"}}

Readings ==
  {[Plain EXCEPT !.peer = p, !.tcp = [rtt |-> r, rttvar |-> v, mss |-> m, mss_server |-> s],
                 !.format = f] :
     p \in Opt({"loopback", "v4"}), r \in Opt({-1, 0, 1230, MaxReading + 1}),
     v \in Opt({40}), m \in Opt({0, 1460}), s \in Opt({-1, 1440}), f \in {"json", "text"}}

Negotiating ==
  {[Plain EXCEPT !.path = pt, !.format = f, !.accept = a, !.agent = g] :
     pt \in Pages \union {"/rdns", "/traceroute", "/nowhere"},
     f \in {"", "json", "text", "html", "other"},
     a \in SUBSET {"application/json", "text/plain", "text/html", "*/*"},
     g \in {"curl", "browser"}}

Arriving ==
  {[Plain EXCEPT !.base = b, !.referer = r, !.via = v] :
     b \in Opt(Named({""}, {"own"}, {{}, {"caps"}, {"port"}})),
     r \in Opt(Named({"", "www"}, {"own", "portal", "unparsable"}, SUBSET {"caps", "port", "dot"})),
     v \in Opt({"x-original-url"})}

Asking ==
  {[Plain EXCEPT !.xff = <<a>>, !.path = pt, !.conn = c, !.resolver = r, !.format = f] :
     a \in Addrs, pt \in Pages \union {"/rdns"}, c \in {Behind, Direct},
     r \in Opt({"", "quad9", "isp"}), f \in {"json", "text"}}
    \union {[Plain EXCEPT !.path = "/rdns/{ip}", !.arg = a, !.format = f] :
              a \in Opt(Addrs), f \in {"json", "text"}}

Silent == [host |-> None, loss |-> None, avg |-> None, mpls |-> <<>>]
Answering(a) == [host |-> <<a>>, loss |-> <<20>>, avg |-> <<3>>, mpls |-> <<"label">>]
Reports == {<<>>, <<Silent, Answering("v4")>>, <<Answering("v6"), Silent, Answering("v4private")>>}
EventSeqs == {<<>>, <<[hop |-> 2, hub |-> Silent], [hop |-> 1, hub |-> Answering("v4")],
                      [hop |-> 2, hub |-> Answering("v6")], [hop |-> 1, hub |-> Answering("v6b")]>>}
Outcomes ==
  [kind : {"hit"}, remaining : {-2, 0, 2}]
    \union [kind : {"live"}, hubs : Reports, events : EventSeqs]
    \union [kind : {"limited", "busy"}]
    \union [kind : {"exit"}, ended : {"noroute", "timeout"}]

OtherVersions ==
  {[lacks |-> l, hopLacks |-> h, hopMore |-> m] :
     l \in {{}, {"nat_warning"}, {"target"}, {"hops", "cached"}},
     h \in {{}, {"rdns", "asn"}, {"ip"}}, m \in {{}, {"jitter"}}}

Tracing ==
  {[Plain EXCEPT !.xff = x, !.path = pt, !.trace = o, !.format = f] :
     x \in {<<a>> : a \in Addrs} \union {<<"garbage">>},
     pt \in {"/traceroute", "/traceroute.json", "/traceroute.txt", "/traceroute/stream"},
     o \in Outcomes, f \in {"", "text"}}

Visits == <<Arriving>>
AllViews == <<Naming, Readings, Negotiating, Arriving, Asking, Tracing>>
===============================================================================
