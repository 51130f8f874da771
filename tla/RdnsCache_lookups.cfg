\* Two requests, lookups or health checks, for one address with one possible name.
CONSTANTS
  t1 = t1  t2 = t2  a1 = a1  n1 = n1  NoName = NoName
  Task <- Tasks2  Addr <- Addrs1  Name <- Names1
  RdnsTtl = 1  DnsWait = 1  Delay = 1  MtrWait = 1  CapWait = 2
SPECIFICATION Spec
INVARIANTS TypeOK OnePublisher
PROPERTIES RepliesFresh FaultsSwallowed HealthSeesOutage EveryRequestEnds
