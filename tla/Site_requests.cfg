\* Every request of the views, from the client to the answer.
CONSTANTS
  Addr <- Addrs  V4 <- V4s  Private <- Privates  Cgnat <- Cgnats  Mixed <- Mixeds
  Net64 <- Net64s  Ptr <- Ptrs  AsnDb <- Asns  GeoDb <- Geos  Known <- Resolvers
  Ttl = 3  MaxHops = 2
  Loopback = {"loopback"}  Fallback <- Fallbacks  Views <- AllViews  Versions <- OtherVersions  NoRequest = NoRequest
SPECIFICATION Spec
INVARIANTS
  TypeOK BareHostEchoes ReadingsFromProxyOnly NamedTypeHonoured ReferrersToldApart
  HitRetold AgeAddsUp WarningIsTheClients ReplayShowsLastRows
