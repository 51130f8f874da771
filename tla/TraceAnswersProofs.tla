-------------------------- MODULE TraceAnswersProofs --------------------------
(* What the operators of TraceAnswers return for every report, entry and     *)
(* sequence of events: the round trip through the cache, the age, the key    *)
(* and the warning, and the last rows of a live run.                         *)
EXTENDS TraceAnswers, FiniteSetTheorems, TLAPS

(***************************************************************************)
(* The round trip through the cache.                                       *)
(***************************************************************************)

\* A hop as this version has it, which is read back as it was.
IsHop(h) == DOMAIN h = HopFields /\ HopOf(h) = h

\* A run as this version stores it.
IsRun(r) ==
  /\ r = [target |-> r.target, cached |-> FALSE, nat_warning |-> NatWarning(r.target),
          hops |-> r.hops]
  /\ r.target \in Addr
  /\ \E k \in Nat : r.hops = [n \in 1..k |-> r.hops[n]]
  /\ \A n \in DOMAIN r.hops : IsHop(r.hops[n])

\* A hop of a report is one, and so it is under another address.
LEMMA HopKept ==
  ASSUME NEW n, NEW hub
  PROVE  /\ IsHop(EnrichHop(n, hub))
         /\ \A host : IsHop([EnrichHop(n, hub) EXCEPT !.ip = host])
  <1>1. PICK rdns, asn, name, loss, avg, mpls, ip :
          EnrichHop(n, hub) = [hop |-> n, ip |-> ip, rdns |-> rdns, asn |-> asn, asn_name |-> name,
                               loss_pct |-> loss, avg_ms |-> avg, mpls |-> mpls]
    BY DEF EnrichHop
  <1>2. ASSUME NEW host
        PROVE  IsHop([hop |-> n, ip |-> host, rdns |-> rdns, asn |-> asn, asn_name |-> name,
                      loss_pct |-> loss, avg_ms |-> avg, mpls |-> mpls])
    BY DEF IsHop, HopOf, HopFields, NeededHopFields, Field
  <1> QED
    BY <1>1, <1>2

\* The report's number of hops is cut off, never extended.
LEMMA HopNumbers ==
  ASSUME NEW a, NEW S, NEW hubs \in Seq(S)
  PROVE  \E k \in Nat : DOMAIN RunMtr(a, hubs).hops = 1..k
  <1>1. Len(hubs) \in Nat /\ MaxHops \in Nat
    BY AddressAssumption
  <1>2. Shorter(Len(hubs), MaxHops) \in Nat
    BY <1>1 DEF Shorter
  <1>3. DOMAIN RunMtr(a, hubs).hops = 1..Shorter(Len(hubs), MaxHops)
    BY DEF RunMtr
  <1> QED
    BY <1>2, <1>3

\* What run_mtr returns is a run.
LEMMA RunIsRun ==
  ASSUME NEW a \in Addr, NEW S, NEW hubs \in Seq(S)
  PROVE  IsRun(RunMtr(a, hubs)) /\ RunMtr(a, hubs).target = a
  <1> DEFINE run == RunMtr(a, hubs)
             N == 1..Shorter(Len(hubs), MaxHops)
  <1>1. run = [target |-> a, cached |-> FALSE, nat_warning |-> NatWarning(a),
               hops |-> [n \in N |-> EnrichHop(n, hubs[n])]]
    BY DEF RunMtr
  <1>2. \E k \in Nat : run.hops = [n \in 1..k |-> run.hops[n]]
    <2>1. PICK k \in Nat : DOMAIN run.hops = 1..k
      BY HopNumbers
    <2>2. run.hops = [n \in DOMAIN run.hops |-> run.hops[n]]
      BY <1>1
    <2> HIDE DEF run
    <2> QED
      BY <2>1, <2>2
  <1> HIDE DEF run, N
  <1>3. \A n \in DOMAIN run.hops : run.hops[n] = EnrichHop(n, hubs[n])
    BY <1>1
  <1>4. \A n \in DOMAIN run.hops : IsHop(run.hops[n])
    BY <1>3, HopKept
  <1>5. /\ run.target = a
        /\ run = [target |-> run.target, cached |-> FALSE, nat_warning |-> NatWarning(run.target),
                  hops |-> run.hops]
    BY <1>1
  <1> QED
    BY <1>2, <1>4, <1>5 DEF IsRun, run

\* A stored run can be read back, and is as it was.
THEOREM RunKept ==
  ASSUME NEW r, IsRun(r)
  PROVE  Readable(r) /\ Deserialize(r) = r
  <1>1. r = [target |-> r.target, cached |-> FALSE, nat_warning |-> NatWarning(r.target),
             hops |-> r.hops]
    BY DEF IsRun
  <1>2. /\ DOMAIN r = {"target", "cached", "nat_warning", "hops"}
        /\ r.cached = FALSE /\ r.nat_warning = NatWarning(r.target)
    BY <1>1
  <1>3. r.hops = [n \in DOMAIN r.hops |-> r.hops[n]]
    BY DEF IsRun
  <1>4. /\ Field(r, "hops", <<>>) = r.hops /\ Field(r, "cached", FALSE) = FALSE
        /\ Field(r, "nat_warning", None) = NatWarning(r.target)
    BY <1>2 DEF Field
  <1>5. \A n \in DOMAIN r.hops : HopOf(r.hops[n]) = r.hops[n] /\ DOMAIN r.hops[n] = HopFields
    BY DEF IsRun, IsHop
  <1>6. Readable(r)
    BY <1>2, <1>4, <1>5 DEF Readable, HopFields
  <1>7. [n \in DOMAIN r.hops |-> HopOf(r.hops[n])] = r.hops
    <2>1. [n \in DOMAIN r.hops |-> HopOf(r.hops[n])] = [n \in DOMAIN r.hops |-> r.hops[n]]
      BY <1>5
    <2> QED
      BY <1>3, <2>1
  <1>8. Deserialize(r) = [target |-> r.target, cached |-> FALSE, nat_warning |-> NatWarning(r.target),
                          hops |-> [n \in DOMAIN r.hops |-> HopOf(r.hops[n])]]
    BY <1>4 DEF Deserialize
  <1> QED
    BY <1>1, <1>6, <1>7, <1>8

(***************************************************************************)
(* Entries of any version.                                                 *)
(***************************************************************************)

\* What an entry has of a run it has unchanged.
HeldFrom(dict, run) ==
  /\ DOMAIN dict \subseteq DOMAIN run
  /\ \A f \in DOMAIN dict \ {"hops"} : dict[f] = run[f]
  /\ "hops" \in DOMAIN dict => DOMAIN dict.hops = DOMAIN run.hops
  /\ "hops" \in DOMAIN dict =>
       \A n \in DOMAIN run.hops : \A f \in DOMAIN dict.hops[n] \intersect HopFields :
         dict.hops[n][f] = run.hops[n][f]

\* A field that the entry has is read as it is.
LEMMA HopTold ==
  ASSUME NEW h, NEW was, NeededHopFields \subseteq DOMAIN h, DOMAIN h \subseteq HopFields,
         \A f \in DOMAIN h : h[f] = was[f]
  PROVE  LET told == HopOf(h) IN
         /\ DOMAIN told = HopFields /\ told.hop = was.hop /\ told.ip = was.ip
         /\ \A f \in DOMAIN h : told[f] = was[f]
  <1> DEFINE told == HopOf(h)
  <1>1. DOMAIN told = HopFields
    BY DEF HopOf, HopFields, NeededHopFields
  <1>2. told.hop = was.hop /\ told.ip = was.ip
    BY DEF HopOf, NeededHopFields
  <1>3. ASSUME NEW f \in DOMAIN h
        PROVE  told[f] = h[f]
    <2>1. f \in HopFields
      OBVIOUS
    <2>2. /\ f = "hop" => told[f] = h[f]
          /\ f = "ip" => told[f] = h[f]
          /\ f = "rdns" => told[f] = h[f]
          /\ f = "asn" => told[f] = h[f]
          /\ f = "asn_name" => told[f] = h[f]
          /\ f = "loss_pct" => told[f] = h[f]
          /\ f = "avg_ms" => told[f] = h[f]
          /\ f = "mpls" => told[f] = h[f]
      BY DEF HopOf, Field
    <2> QED
      BY <2>1, <2>2 DEF HopFields, NeededHopFields
  <1> QED
    BY <1>1, <1>2, <1>3

\* A result tells all that an entry has of a run.
Tells(hit, dict, run) ==
  LET hops == IF "hops" \in DOMAIN dict THEN DOMAIN run.hops ELSE {}
  IN /\ hit.cached = TRUE /\ hit.target = run.target /\ DOMAIN hit.hops = hops
     /\ "nat_warning" \in DOMAIN dict => hit.nat_warning = run.nat_warning
     /\ \A n \in hops :
          /\ DOMAIN hit.hops[n] = HopFields /\ DOMAIN dict.hops[n] \subseteq HopFields
          /\ hit.hops[n].hop = run.hops[n].hop /\ hit.hops[n].ip = run.hops[n].ip
          /\ \A f \in DOMAIN dict.hops[n] : hit.hops[n][f] = run.hops[n][f]

\* A hit that can be read does.
LEMMA HitTold ==
  ASSUME NEW run, IsRun(run), NEW dict, HeldFrom(dict, run), Readable(dict)
  PROVE  Tells(ResultOfHit(dict), dict, run)
  <1> DEFINE hops == IF "hops" \in DOMAIN dict THEN DOMAIN run.hops ELSE {}
             read == Deserialize(dict)
             hit == ResultOfHit(dict)
  <1>1. hops = DOMAIN Field(dict, "hops", <<>>)
    BY DEF HeldFrom, Field
  <1>2. read = [target |-> dict.target, cached |-> Field(dict, "cached", FALSE),
                nat_warning |-> Field(dict, "nat_warning", None),
                hops |-> [n \in hops |-> HopOf(dict.hops[n])]]
    BY <1>1 DEF Deserialize
  <1>3. hit = [read EXCEPT !.cached = TRUE]
    BY DEF ResultOfHit
  <1>4. /\ \A n \in hops : /\ NeededHopFields \subseteq DOMAIN dict.hops[n]
                           /\ DOMAIN dict.hops[n] \subseteq HopFields
        /\ "target" \in DOMAIN dict
    BY <1>1 DEF Readable
  <1>5. \A n \in hops : \A f \in DOMAIN dict.hops[n] : dict.hops[n][f] = run.hops[n][f]
    BY <1>4 DEF HeldFrom
  <1>6. /\ dict.target = run.target
        /\ "nat_warning" \in DOMAIN dict => dict.nat_warning = run.nat_warning
    BY <1>4 DEF HeldFrom
  <1> HIDE DEF hops, read, hit
  <1>7. /\ hit.cached = TRUE /\ hit.target = dict.target
        /\ hit.nat_warning = Field(dict, "nat_warning", None)
        /\ hit.hops = [n \in hops |-> HopOf(dict.hops[n])]
    BY <1>2, <1>3
  <1>8. "nat_warning" \in DOMAIN dict => hit.nat_warning = run.nat_warning
    BY <1>6, <1>7 DEF Field
  <1>9. ASSUME NEW n \in hops
        PROVE  /\ DOMAIN hit.hops[n] = HopFields /\ DOMAIN dict.hops[n] \subseteq HopFields
               /\ hit.hops[n].hop = run.hops[n].hop /\ hit.hops[n].ip = run.hops[n].ip
               /\ \A f \in DOMAIN dict.hops[n] : hit.hops[n][f] = run.hops[n][f]
    <2>1. hit.hops[n] = HopOf(dict.hops[n])
      BY <1>7
    <2> QED
      BY <1>4, <1>5, <2>1, HopTold
  <1>10. DOMAIN hit.hops = hops
    BY <1>7
  <1> QED
    BY <1>6, <1>7, <1>8, <1>9, <1>10 DEF Tells, hops, hit

\* A hop that lacks nothing has the same row.
LEMMA FullRow ==
  ASSUME NEW h, NEW was, \A f \in HopFields : h[f] = was[f]
  PROVE  HopRow(h) = HopRow(was)
  BY DEF HopRow, HopFields, NeededHopFields

\* The age of a hit and the time to its refresh.
LEMMA HitMeta ==
  ASSUME NEW remaining \in Int, remaining <= Ttl
  PROVE  LET meta == MetaOfHit(remaining) IN
         /\ meta.age \in 0..Ttl /\ meta.refreshes = Ttl - meta.age /\ meta.cached = TRUE
  BY AddressAssumption DEF MetaOfHit

(***************************************************************************)
(* The key and the warning.                                                *)
(***************************************************************************)

\* Clients with one key share an address or a network, and but for the mixed
\* ones are warned alike.
LEMMA SharedKey ==
  ASSUME NEW a \in Addr, NEW b \in Addr, CacheKey(a) = CacheKey(b)
  PROVE  /\ b \in V4 => a = b
         /\ b \notin V4 => a \notin V4 /\ Net64[a] = Net64[b]
         /\ b \notin Mixed => NatWarning(a) = NatWarning(b)
  <1>1. CASE a \in V4 \/ b \in V4
    <2>1. a = b
      BY <1>1, NetworkAssumption DEF CacheKey
    <2> QED
      BY <1>1, <2>1
  <1>2. CASE a \notin V4 /\ b \notin V4
    <2>1. Net64[a] = Net64[b]
      BY <1>2 DEF CacheKey
    <2>2. b \notin Mixed => (a \in Private <=> b \in Private)
      BY <1>2, <2>1, NetworkAssumption
    <2>3. a \notin Cgnat /\ b \notin Cgnat
      BY <1>2, AddressAssumption
    <2>4. b \notin Mixed => NatWarning(a) = NatWarning(b)
      BY <2>2, <2>3 DEF NatWarning
    <2> QED
      BY <1>2, <2>1, <2>4
  <1> QED
    BY <1>1, <1>2

(***************************************************************************)
(* The rank of a number in a finite set.                                   *)
(***************************************************************************)

Below(S, n) == {m \in S : m < n}

\* A larger number has more numbers below it, though not the whole set.
LEMMA BelowGrows ==
  ASSUME NEW S, S \subseteq Int, IsFiniteSet(S), NEW n \in S
  PROVE  /\ Cardinality(Below(S, n)) \in 0..(Cardinality(S) - 1)
         /\ \A m \in S : m < n => Cardinality(Below(S, m)) < Cardinality(Below(S, n))
  <1>1. IsFiniteSet(S \ {n}) /\ Cardinality(S \ {n}) = Cardinality(S) - 1
    BY FS_RemoveElement
  <1>2. Below(S, n) \in SUBSET (S \ {n})
    BY DEF Below
  <1>3. IsFiniteSet(Below(S, n)) /\ Cardinality(Below(S, n)) <= Cardinality(S) - 1
    BY <1>1, <1>2, FS_Subset
  <1>4. Cardinality(S) \in Nat /\ Cardinality(Below(S, n)) \in Nat
    BY <1>3, FS_CardinalityType
  <1>5. ASSUME NEW m \in S, m < n
        PROVE  Cardinality(Below(S, m)) < Cardinality(Below(S, n))
    <2>1. Below(S, m) \in SUBSET Below(S, n)
      <3>1. ASSUME NEW x \in Below(S, m)
            PROVE  x \in Below(S, n)
        <4>1. x \in S /\ x < m /\ x \in Int /\ m \in Int /\ n \in Int
          BY <3>1 DEF Below
        <4>2. x < n
          BY <1>5, <4>1
        <4> QED
          BY <4>1, <4>2 DEF Below
      <3> QED
        BY <3>1
    <2>2. Below(S, m) # Below(S, n)
      BY <1>5 DEF Below
    <2>3. /\ Cardinality(Below(S, m)) <= Cardinality(Below(S, n))
          /\ Cardinality(Below(S, m)) # Cardinality(Below(S, n))
          /\ Cardinality(Below(S, m)) \in Nat
      BY <1>3, <2>1, <2>2, FS_Subset, FS_CardinalityType
    <2> QED
      BY <1>4, <2>3
  <1> QED
    BY <1>3, <1>4, <1>5

\* Every rank below the size of the set is taken.
LEMMA RankTaken ==
  ASSUME NEW S, S \subseteq Int, IsFiniteSet(S), NEW k \in 0..(Cardinality(S) - 1)
  PROVE  \E n \in S : Cardinality(Below(S, n)) = k
  <1> DEFINE c == Cardinality(S)
             T == 0..(c - 1)
             rank == [n \in S |-> Cardinality(Below(S, n))]
  <1>1. c \in Nat
    BY FS_CardinalityType
  <1>2. IsFiniteSet(T) /\ Cardinality(T) = c
    BY <1>1, FS_Interval
  <1>3. rank \in [S -> T]
    BY BelowGrows
  <1>4. ASSUME NEW m \in S, NEW n \in S, m # n
        PROVE  rank[m] # rank[n]
    <2>1. m \in Int /\ n \in Int
      OBVIOUS
    <2>2. m < n \/ n < m
      BY <1>4, <2>1
    <2>3. rank[m] \in Int /\ rank[n] \in Int
      BY <1>1, <1>3
    <2>4. rank[m] < rank[n] \/ rank[n] < rank[m]
      BY <2>2, BelowGrows
    <2> QED
      BY <2>3, <2>4
  <1>5. rank \in Injection(S, T)
    BY <1>3, <1>4 DEF Injection, IsInjective
  <1>6. rank \in Surjection(S, T)
    BY <1>2, <1>5, FS_Injection
  <1> QED
    BY <1>6 DEF Surjection

\* A finite set of integers that is not empty has a largest element.
LEMMA LargestExists ==
  ASSUME NEW S, S \subseteq Int, IsFiniteSet(S), S # {}
  PROVE  \E n \in S : \A m \in S : m <= n
  <1>1. Cardinality(S) \in Nat /\ Cardinality(S) # 0
    BY FS_CardinalityType, FS_EmptySet
  <1>2. PICK n \in S : Cardinality(Below(S, n)) = Cardinality(S) - 1
    <2>1. Cardinality(S) - 1 \in 0..(Cardinality(S) - 1)
      BY <1>1
    <2> QED
      BY <2>1, RankTaken
  <1>3. ASSUME NEW m \in S, n < m
        PROVE  FALSE
    <2>1. Cardinality(Below(S, n)) < Cardinality(Below(S, m))
      BY <1>3, BelowGrows
    <2>2. Cardinality(Below(S, m)) \in 0..(Cardinality(S) - 1)
      BY BelowGrows
    <2> QED
      BY <1>1, <1>2, <2>1, <2>2
  <1> QED
    BY <1>3

(***************************************************************************)
(* The last rows of a live run.                                            *)
(***************************************************************************)

IsLastOf(hops, i) ==
  i \in DOMAIN hops /\ \A j \in DOMAIN hops : hops[j].hop = hops[i].hop => j <= i

HopsOf(hops) == {hops[i].hop : i \in DOMAIN hops}

\* Every hop has a last event.
LEMMA LastExists ==
  ASSUME NEW S, NEW hops \in Seq(S), NEW n \in HopsOf(hops)
  PROVE  \E i \in DOMAIN hops : hops[i].hop = n /\ IsLastOf(hops, i)
  <1> DEFINE I == {i \in DOMAIN hops : hops[i].hop = n}
  <1>1. IsFiniteSet(1..Len(hops)) /\ DOMAIN hops = 1..Len(hops) /\ Len(hops) \in Nat
    BY FS_Interval
  <1>2. IsFiniteSet(I)
    BY <1>1, FS_Subset
  <1>3. I # {} /\ I \subseteq Int
    BY <1>1 DEF HopsOf
  <1>4. PICK i \in I : \A j \in I : j <= i
    BY <1>2, <1>3, LargestExists
  <1> QED
    BY <1>4 DEF IsLastOf

\* The hops of finitely many events are finitely many.
LEMMA HopsFinite ==
  ASSUME NEW S, NEW hops \in Seq(S)
  PROVE  IsFiniteSet(HopsOf(hops)) /\ Cardinality(HopsOf(hops)) \in Nat
  <1> DEFINE f == [i \in DOMAIN hops |-> hops[i].hop]
  <1>1. IsFiniteSet(DOMAIN hops)
    BY FS_Interval
  <1>2. f \in Surjection(DOMAIN hops, HopsOf(hops))
    BY DEF Surjection, HopsOf
  <1>3. IsFiniteSet(HopsOf(hops))
    BY <1>1, <1>2, FS_Surjection
  <1> QED
    BY <1>3, FS_CardinalityType

\* LatestHops gives the last event of every hop once, in the order of the hops.
THEOREM LatestHopsRight ==
  ASSUME NEW S, NEW hops \in Seq(S), \A i \in DOMAIN hops : hops[i].hop \in Nat
  PROVE  LET latest == LatestHops(hops)
             c == Cardinality(HopsOf(hops))
         IN /\ c \in Nat /\ DOMAIN latest = 1..c
            /\ \A k \in 1..c : \E i \in DOMAIN hops : IsLastOf(hops, i) /\ latest[k] = hops[i]
            /\ \A n \in HopsOf(hops) : \E k \in 1..c : latest[k].hop = n
            /\ \A k, l \in 1..c : k < l => latest[k].hop < latest[l].hop
  <1> DEFINE nums == {hops[i].hop : i \in DOMAIN hops}
             last(n) == CHOOSE i \in DOMAIN hops :
                          hops[i].hop = n /\ \A j \in DOMAIN hops : hops[j].hop = n => j <= i
             nth(k) == CHOOSE n \in nums : Cardinality({m \in nums : m < n}) = k - 1
             c == Cardinality(nums)
             latest == [k \in 1..c |-> hops[last(nth(k))]]
  <1>1. nums = HopsOf(hops) /\ LatestHops(hops) = latest
    BY DEF HopsOf, LatestHops
  <1>2. IsFiniteSet(nums) /\ c \in Nat /\ nums \subseteq Int
    <2>1. IsFiniteSet(nums) /\ c \in Nat
      BY <1>1, HopsFinite
    <2>2. nums \subseteq Int
      OBVIOUS
    <2> QED
      BY <2>1, <2>2
  <1>3. ASSUME NEW k \in 1..c
        PROVE  nth(k) \in nums /\ Cardinality(Below(nums, nth(k))) = k - 1
    <2>1. k - 1 \in 0..(c - 1)
      BY <1>2
    <2>2. \E n \in nums : Cardinality(Below(nums, n)) = k - 1
      BY <1>2, <2>1, RankTaken
    <2>3. \E n \in nums : Cardinality({m \in nums : m < n}) = k - 1
      BY <2>2 DEF Below
    <2>4. nth(k) \in nums /\ Cardinality({m \in nums : m < nth(k)}) = k - 1
      BY <2>3
    <2> QED
      BY <2>4 DEF Below
  <1>4. ASSUME NEW n \in nums
        PROVE  /\ last(n) \in DOMAIN hops /\ hops[last(n)].hop = n
               /\ IsLastOf(hops, last(n))
    <2>1. \E i \in DOMAIN hops : hops[i].hop = n /\ IsLastOf(hops, i)
      BY <1>1, LastExists
    <2>2. \E i \in DOMAIN hops :
            hops[i].hop = n /\ \A j \in DOMAIN hops : hops[j].hop = n => j <= i
      BY <2>1 DEF IsLastOf
    <2>3. /\ last(n) \in DOMAIN hops /\ hops[last(n)].hop = n
          /\ \A j \in DOMAIN hops : hops[j].hop = n => j <= last(n)
      BY <2>2
    <2> QED
      BY <2>3 DEF IsLastOf
  <1> HIDE DEF nums, last, nth, c
  <1>5. \A k \in 1..c : latest[k].hop = nth(k)
    BY <1>3, <1>4
  <1>6. ASSUME NEW k \in 1..c
        PROVE  \E i \in DOMAIN hops : IsLastOf(hops, i) /\ latest[k] = hops[i]
    BY <1>3, <1>4
  <1>7. ASSUME NEW n \in nums
        PROVE  \E k \in 1..c : latest[k].hop = n
    <2>1. Cardinality(Below(nums, n)) \in 0..(c - 1)
      BY <1>2, BelowGrows DEF c
    <2> DEFINE k == Cardinality(Below(nums, n)) + 1
    <2>2. k \in 1..c /\ k - 1 = Cardinality(Below(nums, n))
      BY <1>2, <2>1
    <2>3. nth(k) \in nums /\ Cardinality(Below(nums, nth(k))) = Cardinality(Below(nums, n))
      BY <1>3, <2>2
    <2>4. nth(k) \in Int /\ n \in Int
      BY <1>2, <2>3
    <2>5. ~(nth(k) < n) /\ ~(n < nth(k))
      <3>1. nth(k) < n => Cardinality(Below(nums, nth(k))) < Cardinality(Below(nums, n))
        BY <1>2, <2>3, BelowGrows
      <3>2. n < nth(k) => Cardinality(Below(nums, n)) < Cardinality(Below(nums, nth(k)))
        BY <1>2, <2>3, BelowGrows
      <3>3. Cardinality(Below(nums, n)) \in Int
        BY <2>1
      <3> HIDE DEF k
      <3> QED
        BY <2>3, <3>1, <3>2, <3>3
    <2>6. nth(k) = n
      BY <2>4, <2>5
    <2> QED
      BY <1>5, <2>2, <2>6
  <1>8. ASSUME NEW k \in 1..c, NEW l \in 1..c, k < l
        PROVE  latest[k].hop < latest[l].hop
    <2>1. /\ nth(k) \in nums /\ Cardinality(Below(nums, nth(k))) = k - 1
          /\ nth(l) \in nums /\ Cardinality(Below(nums, nth(l))) = l - 1
      BY <1>3
    <2>2. nth(k) \in Int /\ nth(l) \in Int
      BY <1>2, <2>1
    <2>3. nth(k) # nth(l)
      BY <1>2, <1>8, <2>1
    <2>4. ~(nth(l) < nth(k))
      <3>1. SUFFICES ASSUME nth(l) < nth(k) PROVE FALSE
        OBVIOUS
      <3>2. Cardinality(Below(nums, nth(l))) < Cardinality(Below(nums, nth(k)))
        BY <1>2, <2>1, <3>1, BelowGrows
      <3> QED
        BY <1>2, <1>8, <2>1, <3>2
    <2> QED
      BY <1>5, <2>2, <2>3, <2>4
  <1> QED
    BY <1>1, <1>2, <1>6, <1>7, <1>8 DEF c

(***************************************************************************)
(* The frames of a stream.                                                 *)
(***************************************************************************)

Framed(first, rows, last) ==
  <<first>> \o [n \in DOMAIN rows |-> HopFrame(rows[n])] \o <<last>>

RowsOf(frames) == {i \in DOMAIN frames : frames[i].event = "hop"}

\* Between the banner and the last frame, frame n + 1 is row n.
LEMMA FramesAre ==
  ASSUME NEW first, NEW rows, NEW last, NEW k \in Nat, DOMAIN rows = 1..k
  PROVE  LET frames == Framed(first, rows, last) IN
         /\ DOMAIN frames = 1..(k + 2)
         /\ frames[1] = first /\ frames[k + 2] = last
         /\ \A n \in 1..k : frames[n + 1] = HopFrame(rows[n])
  <1> DEFINE F == {first, last} \union {HopFrame(rows[n]) : n \in 1..k}
             middle == [n \in 1..k |-> HopFrame(rows[n])]
  <1>1. middle \in Seq(F) /\ Len(middle) = k
    <2>1. middle \in [1..k -> F]
      OBVIOUS
    <2> QED
      BY <2>1
  <1>2. <<first>> \in Seq(F) /\ <<last>> \in Seq(F)
    OBVIOUS
  <1> HIDE DEF middle
  <1>3. /\ <<first>> \o middle \in Seq(F) /\ Len(<<first>> \o middle) = k + 1
        /\ (<<first>> \o middle)[1] = first
        /\ \A n \in 1..k : (<<first>> \o middle)[n + 1] = middle[n]
    BY <1>1, <1>2
  <1> DEFINE start == <<first>> \o middle
  <1> HIDE DEF start
  <1>4. /\ Len(start \o <<last>>) = k + 2 /\ (start \o <<last>>)[k + 2] = last
        /\ start \o <<last>> \in Seq(F)
        /\ \A n \in 1..(k + 1) : (start \o <<last>>)[n] = start[n]
    BY <1>2, <1>3 DEF start
  <1>5. Framed(first, rows, last) = start \o <<last>>
    BY DEF Framed, start, middle
  <1>6. DOMAIN (start \o <<last>>) = 1..(k + 2)
    BY <1>4
  <1>7. (start \o <<last>>)[1] = first
    BY <1>3, <1>4 DEF start
  <1>8. ASSUME NEW n \in 1..k
        PROVE  (start \o <<last>>)[n + 1] = HopFrame(rows[n])
    <2>1. n + 1 \in 1..(k + 1)
      OBVIOUS
    <2>2. (start \o <<last>>)[n + 1] = start[n + 1]
      BY <1>4, <2>1
    <2> QED
      BY <1>3, <2>2 DEF start, middle
  <1> QED
    BY <1>4, <1>5, <1>6, <1>7, <1>8

\* Only the frames between the banner and the last one are rows.
LEMMA RowFrames ==
  ASSUME NEW first, NEW rows, NEW last, NEW k \in Nat, DOMAIN rows = 1..k,
         first.event # "hop", last.event # "hop"
  PROVE  /\ RowsOf(Framed(first, rows, last)) = {n + 1 : n \in 1..k}
         /\ RowsOf(Framed(first, rows, last)) = 2..(k + 1)
  <1> DEFINE frames == Framed(first, rows, last)
  <1>1. /\ DOMAIN frames = 1..(k + 2)
        /\ frames[1] = first /\ frames[k + 2] = last
        /\ \A n \in 1..k : frames[n + 1] = HopFrame(rows[n])
    BY FramesAre
  <1> HIDE DEF frames
  <1>2. \A i \in 2..(k + 1) : i - 1 \in 1..k /\ (i - 1) + 1 = i /\ i \in 1..(k + 2)
    OBVIOUS
  <1>3. \A n \in 1..k : n + 1 \in 2..(k + 1)
    OBVIOUS
  <1>4. \A i \in 2..(k + 1) : i \in RowsOf(frames)
    <2>1. ASSUME NEW i \in 2..(k + 1)
          PROVE  i \in RowsOf(frames)
      <3>1. frames[i] = HopFrame(rows[i - 1])
        BY <1>1, <1>2
      <3>2. frames[i].event = "hop"
        BY <3>1 DEF HopFrame
      <3>3. i \in DOMAIN frames
        BY <1>1, <1>2
      <3> QED
        BY <3>2, <3>3 DEF RowsOf
    <2> QED
      BY <2>1
  <1>5. \A i \in RowsOf(frames) : i \in 2..(k + 1)
    BY <1>1 DEF RowsOf
  <1>6. RowsOf(frames) = 2..(k + 1)
    BY <1>4, <1>5
  <1>7. 2..(k + 1) = {n + 1 : n \in 1..k}
    BY <1>2, <1>3
  <1> QED
    BY <1>6, <1>7 DEF frames

\* A replay is the banner with the warning, the rows that are read and the end.
LEMMA ReplayIs ==
  ASSUME NEW dict, NEW k \in Nat, DOMAIN ResultOfHit(dict).hops = 1..k, Readable(dict),
         NEW remaining
  PROVE  LET hit == ResultOfHit(dict)
             frames == ReplayFrames(dict, remaining)
         IN /\ RowsOf(frames) = {n + 1 : n \in 1..k}
            /\ \A n \in 1..k : frames[n + 1] = HopFrame(hit.hops[n])
            /\ frames[1].warning = hit.nat_warning /\ frames # <<>>
  <1> DEFINE hit == ResultOfHit(dict)
             first == Banner(MetaOfHit(remaining), hit.nat_warning)
  <1>1. ReplayFrames(dict, remaining) = Framed(first, hit.hops, DoneFrame)
    BY DEF ReplayFrames, Framed
  <1>2. /\ first.event # "hop" /\ first.warning = hit.nat_warning
        /\ DoneFrame.event # "hop"
    BY DEF Banner, DoneFrame
  <1>3. DOMAIN hit.hops = 1..k
    OBVIOUS
  <1> HIDE DEF hit, first
  <1>4. /\ Framed(first, hit.hops, DoneFrame)[1] = first
        /\ DOMAIN Framed(first, hit.hops, DoneFrame) = 1..(k + 2)
        /\ \A n \in 1..k : Framed(first, hit.hops, DoneFrame)[n + 1] = HopFrame(hit.hops[n])
    BY <1>3, FramesAre
  <1>5. RowsOf(Framed(first, hit.hops, DoneFrame)) = {n + 1 : n \in 1..k}
    BY <1>2, <1>3, RowFrames
  <1>6. Framed(first, hit.hops, DoneFrame) # <<>>
    <2>1. 1 \in 1..(k + 2) /\ DOMAIN <<>> = {}
      OBVIOUS
    <2> QED
      BY <1>4, <2>1
  <1>7. /\ RowsOf(ReplayFrames(dict, remaining)) = {n + 1 : n \in 1..k}
        /\ \A n \in 1..k : ReplayFrames(dict, remaining)[n + 1] = HopFrame(hit.hops[n])
        /\ ReplayFrames(dict, remaining)[1].warning = hit.nat_warning
        /\ ReplayFrames(dict, remaining) # <<>>
    BY <1>1, <1>2, <1>4, <1>5, <1>6
  <1> QED
    BY <1>7 DEF hit

\* A row shows the number of its hop.
LEMMA RowNumber ==
  ASSUME NEW h
  PROVE  HopFrame(h).row.hop = h.hop
  BY DEF HopFrame, HopRow

\* What a live stream stores is a run of the last event of each hop.
LEMMA StreamIsRun ==
  ASSUME NEW a \in Addr, NEW S, NEW events \in Seq(S),
         \A i \in DOMAIN events : events[i].hop \in Nat /\ IsHop(events[i])
  PROVE  LET stored == StreamStored(a, events) IN
         IsRun(stored) /\ stored.target = a /\ stored.hops = LatestHops(events)
  <1> DEFINE stored == StreamStored(a, events)
             latest == LatestHops(events)
             c == Cardinality(HopsOf(events))
  <1>1. /\ c \in Nat /\ DOMAIN latest = 1..c
        /\ \A m \in 1..c : \E i \in DOMAIN events : IsLastOf(events, i) /\ latest[m] = events[i]
    BY LatestHopsRight
  <1>2. latest = [m \in 1..c |-> latest[m]]
    BY <1>1 DEF LatestHops
  <1>3. stored = [target |-> a, cached |-> FALSE, nat_warning |-> NatWarning(a), hops |-> latest]
    BY DEF StreamStored
  <1> HIDE DEF stored, latest, c
  <1>4. \A m \in DOMAIN latest : IsHop(latest[m])
    BY <1>1
  <1>5. /\ stored.target = a /\ stored.hops = latest
        /\ stored = [target |-> stored.target, cached |-> FALSE,
                     nat_warning |-> NatWarning(stored.target), hops |-> stored.hops]
    BY <1>3
  <1> QED
    BY <1>1, <1>2, <1>4, <1>5 DEF IsRun, stored, latest

\* What a live stream stores replays as the last row shown of each hop, in
\* the order of the hops.
THEOREM StoredReplays ==
  ASSUME NEW a \in Addr, NEW S, NEW events \in Seq(S), NEW remaining,
         \A i \in DOMAIN events : events[i].hop \in Nat /\ IsHop(events[i])
  PROVE  LET shown == LiveFrames(a, events)
             replayed == ReplayFrames(StreamStored(a, events), remaining)
             last(n) == CHOOSE i \in RowsOf(shown) :
                          shown[i].row.hop = n /\ \A j \in RowsOf(shown) :
                                                    shown[j].row.hop = n => j <= i
         IN /\ {replayed[i].row.hop : i \in RowsOf(replayed)}
                  = {shown[i].row.hop : i \in RowsOf(shown)}
            /\ \A i \in RowsOf(replayed) : replayed[i] = shown[last(replayed[i].row.hop)]
            /\ \A i, j \in RowsOf(replayed) :
                 i < j => replayed[i].row.hop < replayed[j].row.hop
  <1> DEFINE shown == LiveFrames(a, events)
             stored == StreamStored(a, events)
             latest == LatestHops(events)
             replayed == ReplayFrames(stored, remaining)
             c == Cardinality(HopsOf(events))
             k == Len(events)
             last(n) == CHOOSE i \in RowsOf(shown) :
                          shown[i].row.hop = n /\ \A j \in RowsOf(shown) :
                                                    shown[j].row.hop = n => j <= i
  <1>1. /\ c \in Nat /\ DOMAIN latest = 1..c
        /\ \A m \in 1..c : \E i \in DOMAIN events : IsLastOf(events, i) /\ latest[m] = events[i]
        /\ \A n \in HopsOf(events) : \E m \in 1..c : latest[m].hop = n
        /\ \A m, l \in 1..c : m < l => latest[m].hop < latest[l].hop
    BY LatestHopsRight
  <1>2. k \in Nat /\ DOMAIN events = 1..k
    OBVIOUS
  <1>3. IsRun(stored) /\ stored.hops = latest
    BY StreamIsRun
  <1>4. Readable(stored) /\ Deserialize(stored) = stored
    BY <1>3, RunKept
  <1>5. ResultOfHit(stored).hops = latest
    <2>1. stored = [target |-> stored.target, cached |-> FALSE,
                    nat_warning |-> NatWarning(stored.target), hops |-> stored.hops]
      BY <1>3 DEF IsRun
    <2> HIDE DEF stored, latest
    <2>2. ResultOfHit(stored) = [stored EXCEPT !.cached = TRUE]
      BY <1>4 DEF ResultOfHit
    <2>3. ResultOfHit(stored).hops = stored.hops
      BY <2>1, <2>2
    <2> QED
      BY <1>3, <2>3
  <1>6. /\ RowsOf(replayed) = 2..(c + 1)
        /\ \A m \in 1..c : replayed[m + 1] = HopFrame(latest[m])
    <2> DEFINE rows == ResultOfHit(stored).hops
               first == Banner(MetaOfHit(remaining), ResultOfHit(stored).nat_warning)
    <2>1. replayed = Framed(first, rows, DoneFrame)
      BY <1>4 DEF ReplayFrames, Framed
    <2>2. first.event # "hop" /\ DoneFrame.event # "hop"
      BY DEF Banner, DoneFrame
    <2> HIDE DEF first, stored, latest, c
    <2>3. DOMAIN rows = 1..c /\ \A m \in 1..c : rows[m] = latest[m]
      BY <1>1, <1>5
    <2>4. RowsOf(Framed(first, rows, DoneFrame)) = 2..(c + 1)
      BY <1>1, <2>2, <2>3, RowFrames
    <2>5. \A m \in 1..c : Framed(first, rows, DoneFrame)[m + 1] = HopFrame(rows[m])
      BY <1>1, <2>3, FramesAre
    <2> QED
      BY <2>1, <2>3, <2>4, <2>5
  <1>7. /\ RowsOf(shown) = 2..(k + 1)
        /\ \A i \in 1..k : shown[i + 1] = HopFrame(events[i])
    <2> DEFINE first == Banner(MetaOfRun, NatWarning(a))
    <2>1. shown = Framed(first, events, DoneFrame)
      BY DEF LiveFrames, Framed
    <2>2. first.event # "hop" /\ DoneFrame.event # "hop"
      BY DEF Banner, DoneFrame
    <2> HIDE DEF first
    <2>3. RowsOf(Framed(first, events, DoneFrame)) = 2..(k + 1)
      BY <1>2, <2>2, RowFrames
    <2>4. \A i \in 1..k : Framed(first, events, DoneFrame)[i + 1] = HopFrame(events[i])
      BY <1>2, FramesAre
    <2> QED
      BY <2>1, <2>3, <2>4
  <1> HIDE DEF shown, replayed, stored, latest, c, k
  <1>8. \A i \in 1..k : shown[i + 1].row.hop = events[i].hop
    BY <1>7, RowNumber
  <1>9. ASSUME NEW i \in 1..k, IsLastOf(events, i)
        PROVE  last(events[i].hop) = i + 1
    <2> DEFINE n == events[i].hop
               P(x) == /\ shown[x].row.hop = n
                       /\ \A j \in RowsOf(shown) : shown[j].row.hop = n => j <= x
    <2>1. i + 1 \in RowsOf(shown) /\ shown[i + 1].row.hop = n
      BY <1>2, <1>7, <1>8
    <2>2. ASSUME NEW j \in RowsOf(shown), shown[j].row.hop = n
          PROVE  j <= i + 1
      <3>1. j - 1 \in 1..k /\ (j - 1) + 1 = j
        BY <1>2, <1>7
      <3>2. events[j - 1].hop = n
        BY <1>8, <2>2, <3>1
      <3>3. j - 1 <= i
        BY <1>2, <1>9, <3>1, <3>2 DEF IsLastOf
      <3> QED
        BY <1>2, <1>7, <3>3
    <2>3. P(i + 1)
      BY <2>1, <2>2
    <2>4. ASSUME NEW x \in RowsOf(shown), P(x)
          PROVE  x = i + 1
      <3>1. x <= i + 1 /\ i + 1 <= x
        BY <2>1, <2>2, <2>4
      <3>2. x \in Int /\ i + 1 \in Int
        BY <1>2, <1>7
      <3> QED
        BY <3>1, <3>2
    <2>5. last(n) = CHOOSE x \in RowsOf(shown) : P(x)
      OBVIOUS
    <2> HIDE DEF P, last
    <2> QED
      BY <2>1, <2>3, <2>4, <2>5
  <1> HIDE DEF last
  <1>10. ASSUME NEW x \in RowsOf(replayed)
         PROVE  /\ x - 1 \in 1..c /\ replayed[x].row.hop = latest[x - 1].hop
                /\ replayed[x].row.hop \in HopsOf(events)
                /\ replayed[x] = shown[last(replayed[x].row.hop)]
    <2>1. x - 1 \in 1..c /\ (x - 1) + 1 = x
      BY <1>1, <1>6
    <2>2. replayed[x] = HopFrame(latest[x - 1])
      BY <1>6, <2>1
    <2>3. replayed[x].row.hop = latest[x - 1].hop
      BY <2>2, RowNumber
    <2>4. PICK i \in DOMAIN events : IsLastOf(events, i) /\ latest[x - 1] = events[i]
      BY <1>1, <2>1
    <2>5. last(events[i].hop) = i + 1 /\ shown[i + 1] = HopFrame(events[i])
      BY <1>2, <1>7, <1>9, <2>4
    <2>6. events[i].hop \in HopsOf(events)
      BY DEF HopsOf
    <2> QED
      BY <2>1, <2>2, <2>3, <2>4, <2>5, <2>6
  <1>11. ASSUME NEW i \in RowsOf(shown)
         PROVE  /\ shown[i].row.hop \in HopsOf(events)
                /\ \E x \in RowsOf(replayed) : replayed[x].row.hop = shown[i].row.hop
    <2>1. i - 1 \in 1..k /\ (i - 1) + 1 = i
      BY <1>2, <1>7
    <2>2. shown[i].row.hop = events[i - 1].hop
      BY <1>8, <2>1
    <2>3. shown[i].row.hop \in HopsOf(events)
      BY <1>2, <2>1, <2>2 DEF HopsOf
    <2>4. PICK m \in 1..c : latest[m].hop = shown[i].row.hop
      BY <1>1, <2>3
    <2>5. m + 1 \in RowsOf(replayed) /\ (m + 1) - 1 = m
      BY <1>1, <1>6
    <2>6. replayed[m + 1].row.hop = latest[m].hop
      BY <1>10, <2>5
    <2> QED
      BY <2>3, <2>4, <2>5, <2>6
  <1>12. \A n \in HopsOf(events) : \E i \in RowsOf(shown) : shown[i].row.hop = n
    <2>1. ASSUME NEW i \in 1..k
          PROVE  i + 1 \in RowsOf(shown) /\ shown[i + 1].row.hop = events[i].hop
      BY <1>2, <1>7, <1>8
    <2> QED
      BY <1>2, <2>1 DEF HopsOf
  <1>13. {replayed[i].row.hop : i \in RowsOf(replayed)} = {shown[i].row.hop : i \in RowsOf(shown)}
    BY <1>10, <1>11, <1>12
  <1>14. ASSUME NEW i \in RowsOf(replayed), NEW j \in RowsOf(replayed), i < j
         PROVE  replayed[i].row.hop < replayed[j].row.hop
    <2>1. i - 1 \in 1..c /\ j - 1 \in 1..c /\ i - 1 < j - 1
      BY <1>1, <1>6, <1>10, <1>14
    <2> QED
      BY <1>1, <1>10, <2>1
  <1> QED
    BY <1>10, <1>13, <1>14 DEF shown, replayed, stored, last
===============================================================================
