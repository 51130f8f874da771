\* Visits that a page of the site itself refers to, under any spelling of its name.
CONSTANTS
  Addr <- Addrs  V4 <- V4s  Private <- Privates  Cgnat <- Cgnats  Mixed <- Mixeds
  Net64 <- Net64s  Ptr <- Ptrs  AsnDb <- Asns  GeoDb <- Geos  Known <- Resolvers
  Ttl = 3  MaxHops = 2
  Loopback = {"loopback"}  Fallback <- Fallbacks  Views <- Visits  Versions <- OtherVersions  NoRequest = NoRequest
SPECIFICATION Spec
INVARIANTS SelfReferrersIgnored
