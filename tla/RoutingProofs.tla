---------------------------- MODULE RoutingProofs ----------------------------
(***************************************************************************)
(* Proofs about Routing, for any ingresses, services, classes and labels:  *)
(* what nginx.conf says, in whatever order the informer store lists the    *)
(* ingresses, and however sort.Slice treats entries with equal keys.       *)
(***************************************************************************)
EXTENDS Routing, FiniteSetTheorems, TLAPS

-----------------------------------------------------------------------------
(* Numbers and lists.                                                       *)

\* A non-empty set of naturals has a least element.
LEMMA Least ==
  ASSUME NEW P \in SUBSET Nat, P # {}
  PROVE  \E n \in P : \A m \in P : n <= m
<1> DEFINE R == OpToRel(<, Nat)
<1>1. IsWellFoundedOn(R, Nat)
  BY NatLessThanWellFounded, Zenon
<1>2. \A x, y \in Nat : <<y, x>> \in R <=> y < x
  BY DEF OpToRel
<1> HIDE DEF R
<1>3. PICK n \in P : \A m \in P : ~(<<m, n>> \in R)
  BY <1>1, WFMin, Zenon
<1>4. \A m \in P : n \in Nat /\ m \in Nat /\ ~(m < n)
  BY <1>2, <1>3, Zenon
<1>5. \A m \in P : n <= m
  BY <1>4
<1> QED
  BY <1>5

\* Induction up to n, for a property that is given as a set of numbers.
LEMMA UpTo ==
  ASSUME NEW n \in Nat, NEW G,
         0 \in G, \A i \in 0..n : i \in G /\ i < n => i + 1 \in G
  PROVE  \A i \in 0..n : i \in G
<1> DEFINE B == {j \in 0..n : j \notin G}
<1> SUFFICES ASSUME B # {} PROVE FALSE
  OBVIOUS
<1>1. B \in SUBSET Nat /\ \A j \in B : j \in 0..n /\ j \notin G
  OBVIOUS
<1>2. \A j \in 0..n : j \notin B => j \in G
  OBVIOUS
<1> HIDE DEF B
<1>3. PICK m \in B : \A j \in B : m <= j
  BY <1>1, Least
<1>4. m \in 0..n /\ m # 0
  BY <1>1, <1>3
<1>5. m - 1 \in 0..n /\ m - 1 \notin B /\ m - 1 < n
  BY <1>1, <1>3, <1>4
<1> QED
  BY <1>1, <1>2, <1>3, <1>4, <1>5

\* A non-empty set of places of a list has a first and a last one.
LEMMA FirstPlace ==
  ASSUME NEW P \in SUBSET Nat, P # {}
  PROVE  Min(P) \in P /\ \A k \in P : Min(P) <= k
<1>1. \E n \in P : \A m \in P : n <= m
  BY Least
<1> QED
  BY <1>1, Zenon DEF Min

\* A non-empty set of places has a last one.
LEMMA LastPlace ==
  ASSUME NEW n \in Nat, NEW P \in SUBSET (1..n), P # {}
  PROVE  Max(P) \in P /\ \A k \in P : k <= Max(P)
<1> DEFINE bounds == {b \in Nat : \A k \in P : k <= b}
<1>1. n \in bounds /\ bounds \in SUBSET Nat
  OBVIOUS
<1>2. PICK b \in bounds : \A c \in bounds : b <= c
  BY <1>1, Least, Zenon
<1>3. b \in P
  <2> SUFFICES ASSUME b \notin P PROVE FALSE
    OBVIOUS
  <2>1. \A k \in P : k \in 1..n /\ k <= b - 1
    BY <1>2
  <2>2. b > 0
    <3>1. PICK k \in P : TRUE
      BY Zenon
    <3> QED
      BY <1>2, <2>1, <3>1
  <2>3. b - 1 \in bounds
    BY <2>1, <2>2
  <2> QED
    BY <1>2, <2>3
<1>4. \E x \in P : \A y \in P : x >= y
  BY <1>2, <1>3
<1> QED
  BY <1>4, Zenon DEF Max

\* A list that has each element of a finite set once has no other elements.
LEMMA ListsAll ==
  ASSUME NEW S, IsFiniteSet(S), NEW f \in Orders(S)
  PROVE  f \in Seq(S) /\ DOMAIN f = 1..Len(f) /\ Len(f) = Cardinality(S) /\ Range(f) = S
<1> DEFINE n == Cardinality(S)
<1>1. n \in Nat
  BY FS_CardinalityType
<1>2. f \in Injection(1..n, S)
  BY DEF Orders
<1> HIDE DEF n
<1>3. f \in [1..n -> S]
  BY <1>2 DEF Injection
<1>4. IsFiniteSet(1..n) /\ Cardinality(1..n) = n
  BY <1>1, FS_Interval
<1>5. Cardinality(S) = n
  BY DEF n
<1>6. f \in Surjection(1..n, S)
  BY <1>2, <1>4, <1>5, FS_Injection
<1>7. \A x \in S : \E k \in 1..n : f[k] = x
  BY <1>6 DEF Surjection
<1>8. f \in Seq(S) /\ Len(f) = n
  BY <1>1, <1>3
<1>9. Range(f) = S
  BY <1>3, <1>7 DEF Range
<1> QED
  BY <1>3, <1>5, <1>8, <1>9

\* The elements of two lists, one after the other.
LEMMA Appended ==
  ASSUME NEW S, NEW s \in Seq(S), NEW t \in Seq(S)
  PROVE  Range(s \o t) = Range(s) \cup Range(t)
<1>1. DOMAIN s = 1..Len(s) /\ DOMAIN t = 1..Len(t) /\ DOMAIN (s \o t) = 1..Len(s) + Len(t)
  OBVIOUS
<1>2. \A i \in 1..Len(s) : i \in 1..Len(s) + Len(t) /\ (s \o t)[i] = s[i]
  OBVIOUS
<1>3. \A i \in 1..Len(t) : Len(s) + i \in 1..Len(s) + Len(t) /\ (s \o t)[Len(s) + i] = t[i]
  OBVIOUS
<1>4. \A i \in 1..Len(s) + Len(t) :
        \/ i \in 1..Len(s) /\ (s \o t)[i] = s[i]
        \/ i - Len(s) \in 1..Len(t) /\ (s \o t)[i] = t[i - Len(s)]
  OBVIOUS
<1>5. Range(s \o t) \subseteq Range(s) \cup Range(t)
  BY <1>1, <1>4 DEF Range
<1>6. Range(s) \subseteq Range(s \o t)
  BY <1>1, <1>2 DEF Range
<1>7. Range(t) \subseteq Range(s \o t)
  BY <1>1, <1>3, Zenon DEF Range
<1> QED
  BY <1>5, <1>6, <1>7

\* The elements of the lists that are appended are those of the result.
LEMMA AppendAllElements ==
  ASSUME NEW n \in Nat, NEW S, NEW ss \in [1..n -> Seq(S)]
  PROVE  /\ AppendAll(ss) \in Seq(S)
         /\ Range(AppendAll(ss)) = UNION {Range(ss[k]) : k \in 1..n}
<1> DEFINE Step(f, i) == IF i = 1 THEN ss[i] ELSE f[i - 1] \o ss[i]
           upTo[i \in 1..Len(ss)] == IF i = 1 THEN ss[i] ELSE upTo[i - 1] \o ss[i]
           Defined == {m \in 0..n : \E f : f = [i \in 1..m |-> Step(f, i)]}
<1>1. n \in Defined
  <2>1. 0 \in Defined
    <3> DEFINE f == [i \in 1..0 |-> 0]
    <3>1. \A i \in 1..0 : FALSE
      OBVIOUS
    <3> HIDE DEF Step
    <3>2. f = [i \in 1..0 |-> Step(f, i)]
      BY <3>1
    <3> HIDE DEF f
    <3>3. 0 \in 0..n
      OBVIOUS
    <3> QED
      BY <3>2, <3>3, Zenon
  <2>2. ASSUME NEW m \in 0..n, m \in Defined, m < n PROVE m + 1 \in Defined
    <3>0. \A f, g, i : i # 1 /\ f[i - 1] = g[i - 1] => Step(f, i) = Step(g, i)
      OBVIOUS
    <3>1. \A f, g : Step(f, 1) = Step(g, 1)
      OBVIOUS
    <3> HIDE DEF Step
    <3>2. PICK f : f = [i \in 1..m |-> Step(f, i)]
      BY <2>2
    <3> DEFINE g == [i \in 1..m + 1 |-> Step(f, i)]
    <3>3. \A i \in 1..m : f[i] = g[i]
      BY <3>2
    <3>4. \A i \in 1..m + 1 : Step(f, i) = Step(g, i)
      <4> TAKE i \in 1..m + 1
      <4>1. CASE i = 1
        BY <4>1, <3>1
      <4>2. CASE i # 1
        <5>1. i - 1 \in 1..m
          BY <4>2
        <5>2. f[i - 1] = g[i - 1]
          BY <5>1, <3>3, Zenon
        <5> HIDE DEF g
        <5> QED
          BY <4>2, <5>2, <3>0, ZenonT(60)
      <4> QED
        BY <4>1, <4>2
    <3>5. g = [i \in 1..m + 1 |-> Step(g, i)]
      BY <3>4
    <3> HIDE DEF g
    <3>6. \E h : h = [i \in 1..m + 1 |-> Step(h, i)]
      BY <3>5
    <3>7. m + 1 \in 0..n
      BY <2>2
    <3> QED
      BY <3>6, <3>7, Zenon
  <2> HIDE DEF Defined
  <2>3. \A m \in 0..n : m \in Defined
    BY <2>1, <2>2, UpTo, Zenon
  <2> QED
    BY <2>3
<1>2. Len(ss) = n
  OBVIOUS
<1>3. upTo = [i \in 1..Len(ss) |-> IF i = 1 THEN ss[i] ELSE upTo[i - 1] \o ss[i]]
  <2>1. \E f : f = [i \in 1..n |-> IF i = 1 THEN ss[i] ELSE f[i - 1] \o ss[i]]
    BY <1>1, Zenon
  <2>2. \E f : f = [i \in 1..Len(ss) |-> IF i = 1 THEN ss[i] ELSE f[i - 1] \o ss[i]]
    BY <2>1, <1>2, Zenon
  <2> QED
    BY <2>2, Zenon
<1>4. AppendAll(ss) = IF Len(ss) = 0 THEN <<>> ELSE upTo[Len(ss)]
  BY Zenon DEF AppendAll
<1> HIDE DEF upTo, Step, Defined
<1>5. n > 0 => upTo[1] = ss[1]
  BY <1>2, <1>3
<1>6. \A m \in 1..n : m < n => upTo[m + 1] = upTo[m] \o ss[m + 1]
  <2> TAKE m \in 1..n
  <2> HAVE m < n
  <2>1. m + 1 \in 1..Len(ss) /\ m + 1 # 1 /\ (m + 1) - 1 = m
    BY <1>2
  <2>2. upTo[m + 1] = upTo[(m + 1) - 1] \o ss[m + 1]
    BY <1>3, <2>1, Zenon
  <2> QED
    BY <2>1, <2>2, Zenon
<1> DEFINE Elements(m) == UNION {Range(ss[k]) : k \in 1..m}
           Good(m) == upTo[m] \in Seq(S) /\ Range(upTo[m]) = Elements(m)
           G == {m \in 0..n : m = 0 \/ Good(m)}
<1>7. ASSUME NEW m \in 0..n, m \in G, m < n PROVE m + 1 \in G
  <2>1. CASE m = 0
    <3>1. Elements(1) = Range(ss[1])
      BY <2>1
    <3>2. Good(1)
      BY <1>5, <1>7, <2>1, <3>1
    <3> HIDE DEF Good
    <3> QED
      BY <2>1, <3>2, <1>7
  <2>2. CASE m # 0
    <3>0. m \in 1..n /\ m < n
      BY <1>7, <2>2
    <3> HIDE DEF G, Good
    <3>1. upTo[m + 1] = upTo[m] \o ss[m + 1]
      BY <1>6, <3>0, Zenon
    <3> USE DEF G, Good
    <3>2. upTo[m] \in Seq(S) /\ ss[m + 1] \in Seq(S)
      BY <1>7, <2>2
    <3>3. Range(upTo[m + 1]) = Range(upTo[m]) \cup Range(ss[m + 1])
      BY <3>1, <3>2, Appended
    <3>4. upTo[m + 1] \in Seq(S)
      BY <3>1, <3>2
    <3>5. Range(upTo[m]) = Elements(m)
      BY <1>7, <2>2
    <3>6. Elements(m + 1) = Elements(m) \cup Range(ss[m + 1])
      <4>1. \A k : k \in 1..m + 1 <=> k \in 1..m \/ k = m + 1
        BY <1>7
      <4> QED
        BY <4>1, Zenon
    <3>7. Good(m + 1)
      BY <3>3, <3>4, <3>5, <3>6
    <3> HIDE DEF Good
    <3> QED
      BY <3>7, <1>7
  <2> QED
    BY <2>1, <2>2
<1>8. 0 \in G
  OBVIOUS
<1> HIDE DEF G
<1>9. \A m \in 0..n : m \in G
  BY <1>7, <1>8, UpTo, Zenon
<1>10. CASE n = 0
  BY <1>2, <1>4, <1>10 DEF Range
<1>11. CASE n # 0
  <2>1. n \in G /\ AppendAll(ss) = upTo[n]
    BY <1>2, <1>4, <1>9, <1>11
  <2> QED
    BY <2>1, <1>11 DEF G
<1> QED
  BY <1>10, <1>11

-----------------------------------------------------------------------------
(* The configuration of a sorted list.                                      *)

\* The host and the path that an entry asks for.
Route(e) == <<e.host, NginxPath(e)>>

\* k is the first place of its route in the list s.
IsFirst(s, k) == \A i \in DOMAIN s : Route(s[i]) = Route(s[k]) => k <= i

\* What uniqueIngressEntries keeps: of each route, the first entry.
LEMMA UniqueIsFirst ==
  ASSUME NEW n \in Nat, NEW s, DOMAIN s = 1..n
  PROVE  /\ DOMAIN uniqueIngressEntries(s) = {Route(s[k]) : k \in 1..n}
         /\ \A r \in DOMAIN uniqueIngressEntries(s) :
              \E k \in 1..n : /\ uniqueIngressEntries(s)[r] = s[k]
                              /\ Route(s[k]) = r /\ IsFirst(s, k)
<1> DEFINE key == [k \in DOMAIN s |-> <<s[k].host, NginxPath(s[k])>>]
           places(r) == {k \in DOMAIN key : key[k] = r}
<1>1. uniqueIngressEntries(s) = [r \in Range(key) |-> s[Min(places(r))]]
  BY DEF uniqueIngressEntries
<1>2. DOMAIN key = 1..n /\ \A k \in 1..n : key[k] = Route(s[k])
  BY DEF Route
<1>3. Range(key) = {Route(s[k]) : k \in 1..n}
  BY <1>2 DEF Range
<1>4. ASSUME NEW r \in Range(key)
      PROVE  \E k \in 1..n : s[Min(places(r))] = s[k] /\ Route(s[k]) = r /\ IsFirst(s, k)
  <2>1. places(r) \in SUBSET Nat /\ places(r) # {}
    BY <1>2, <1>3
  <2>2. Min(places(r)) \in places(r) /\ \A i \in places(r) : Min(places(r)) <= i
    BY <2>1, FirstPlace, Zenon
  <2> HIDE DEF key
  <2>3. PICK k \in 1..n : k = Min(places(r))
    BY <1>2, <2>2, Zenon
  <2>4. Route(s[k]) = r
    BY <1>2, <2>2, <2>3
  <2>5. IsFirst(s, k)
    BY <1>2, <2>2, <2>3, <2>4 DEF IsFirst
  <2> QED
    BY <2>3, <2>4, <2>5, Zenon
<1> HIDE DEF key, places
<1> QED
  BY <1>1, <1>3, <1>4

\* The servers of nginx.conf: one per host, with the location of the first entry
\* of each of its paths.
FirstLocations(s, h) ==
  {Location(s[k]) : k \in {j \in DOMAIN s : s[j].host = h /\ IsFirst(s, j)}}

\* These, for each host of the list.
FirstServers(s) == [h \in {s[k].host : k \in DOMAIN s} |-> FirstLocations(s, h)]

\* The locations that createServerEntries makes are those of the first entries.
LEMMA ServersOfFirst ==
  ASSUME NEW n \in Nat, NEW s, DOMAIN s = 1..n
  PROVE  createServerEntries(s) = FirstServers(s)
<1> DEFINE unique == uniqueIngressEntries(s)
           Locations(h) == {Location(unique[r]) : r \in {x \in DOMAIN unique : x[1] = h}}
           Firsts(h) == {j \in 1..n : s[j].host = h /\ IsFirst(s, j)}
<1>1. createServerEntries(s) = [h \in {r[1] : r \in DOMAIN unique} |-> Locations(h)]
  BY DEF createServerEntries
<1>2. /\ DOMAIN unique = {Route(s[k]) : k \in 1..n}
      /\ \A r \in DOMAIN unique :
           \E k \in 1..n : unique[r] = s[k] /\ Route(s[k]) = r /\ IsFirst(s, k)
  BY UniqueIsFirst, Zenon
<1> HIDE DEF unique
<1>3. {r[1] : r \in DOMAIN unique} = {s[k].host : k \in 1..n}
  <2>1. \A k \in 1..n : Route(s[k]) \in DOMAIN unique /\ Route(s[k])[1] = s[k].host
    BY <1>2 DEF Route
  <2>2. \A r \in DOMAIN unique : \E k \in 1..n : r = Route(s[k])
    BY <1>2
  <2> QED
    BY <2>1, <2>2
<1>4. ASSUME NEW h PROVE Locations(h) = {Location(s[k]) : k \in Firsts(h)}
  <2>1. ASSUME NEW r \in DOMAIN unique, r[1] = h
        PROVE  \E k \in Firsts(h) : unique[r] = s[k]
    BY <1>2, <2>1 DEF Route
  <2>2. ASSUME NEW k \in Firsts(h)
        PROVE  Route(s[k]) \in DOMAIN unique /\ Route(s[k])[1] = h /\ unique[Route(s[k])] = s[k]
    <3>1. Route(s[k]) \in DOMAIN unique /\ Route(s[k])[1] = h
      BY <1>2 DEF Route
    <3>2. PICK j \in 1..n : unique[Route(s[k])] = s[j] /\ Route(s[j]) = Route(s[k]) /\ IsFirst(s, j)
      BY <1>2, <3>1
    <3>3. j <= k /\ k <= j
      BY <3>2 DEF IsFirst
    <3> QED
      BY <3>1, <3>2, <3>3
  <2> HIDE DEF Firsts
  <2>3. Locations(h) \subseteq {Location(s[k]) : k \in Firsts(h)}
    BY <2>1
  <2>4. {Location(s[k]) : k \in Firsts(h)} \subseteq Locations(h)
    BY <2>2
  <2> QED
    BY <2>3, <2>4
<1> HIDE DEF Locations
<1>5. \A h : FirstLocations(s, h) = {Location(s[k]) : k \in Firsts(h)}
  BY DEF FirstLocations
<1> HIDE DEF Firsts
<1>6. FirstServers(s) = [h \in {s[k].host : k \in 1..n} |-> FirstLocations(s, h)]
  BY DEF FirstServers
<1> QED
  BY <1>1, <1>3, <1>4, <1>5, <1>6, Zenon

\* The upstream of an entry.
UpstreamOf(e) == [server |-> <<e.address, e.port>>, maxConnections |-> e.maxConnections]

\* The upstreams of nginx.conf: one per ingress, address and port of an entry, with
\* the limit of some such entry.
LEMMA UpstreamsOfAll ==
  ASSUME NEW n \in Nat, NEW s, DOMAIN s = 1..n
  PROVE  /\ createUpstreamEntries(s)
              = [x \in {upstreamID(s[k]) : k \in 1..n} |-> createUpstreamEntries(s)[x]]
         /\ \A k \in 1..n : upstreamID(s[k]) \in DOMAIN createUpstreamEntries(s)
         /\ \A k \in 1..n : \E j \in 1..n :
              /\ upstreamID(s[j]) = upstreamID(s[k])
              /\ createUpstreamEntries(s)[upstreamID(s[k])] = UpstreamOf(s[j])
<1> DEFINE id == [k \in DOMAIN s |-> upstreamID(s[k])]
           places(x) == {k \in DOMAIN id : id[k] = x}
<1>1. createUpstreamEntries(s) = [x \in Range(id) |-> UpstreamOf(s[Max(places(x))])]
  BY DEF createUpstreamEntries, UpstreamOf
<1>2. DOMAIN id = 1..n /\ \A k \in 1..n : id[k] = upstreamID(s[k])
  OBVIOUS
<1>3. Range(id) = {upstreamID(s[k]) : k \in 1..n}
  BY <1>2 DEF Range
<1>4. ASSUME NEW k \in 1..n
      PROVE  \E j \in 1..n : /\ upstreamID(s[j]) = upstreamID(s[k])
                             /\ j = Max(places(upstreamID(s[k])))
  <2>1. places(upstreamID(s[k])) \in SUBSET (1..n) /\ places(upstreamID(s[k])) # {}
    BY <1>2, Zenon
  <2>2. Max(places(upstreamID(s[k]))) \in places(upstreamID(s[k]))
    BY <2>1, LastPlace, Zenon
  <2> QED
    BY <1>2, <2>2, Zenon
<1> HIDE DEF id, places
<1> QED
  BY <1>1, <1>3, <1>4

-----------------------------------------------------------------------------
(* The entries of a cluster.                                                *)

\* The hosts and paths that an ingress names.
HostPaths(i) ==
  UNION {{[host |-> r.host, path |-> p] : p \in Range(r.paths)}
           : r \in {x \in Range(i.rules) : x.http}}

\* The entry of a host and path.
EntryOf(n, i, s, x) ==
  Entry(n, i, x.host, x.path, serviceAddress(s, NamespaceOf[n], x.path.service))

\* The ingresses that GetIngresses lists, of the ingresses c.
Listed(c) == {n \in Ingresses : c[n] # Absent /\ supportedNamespace(NamespaceOf[n])}

\* The entries of an ingress that has the class.
EntriesOf(n, i, s) ==
  {e \in {EntryOf(n, i, s, x) : x \in HostPaths(i)} : ingressClassSupported(i) /\ validate(e)}

\* The entries of the ingresses c with the services s.
Served(c, s) == UNION {EntriesOf(n, c[n], s) : n \in Listed(c)}

\* Paths lists the hosts and paths.
LEMMA PathsListed ==
  ASSUME NEW i, IsIngress(i)
  PROVE  Paths(i) \in Seq(HostPaths(i)) /\ Range(Paths(i)) = HostPaths(i)
<1> DEFINE n == Len(i.rules)
           S == HostPaths(i)
           list(r) == IF i.rules[r].http
                      THEN [p \in DOMAIN i.rules[r].paths |->
                              [host |-> i.rules[r].host, path |-> i.rules[r].paths[p]]]
                      ELSE <<>>
           lists == [r \in DOMAIN i.rules |-> list(r)]
<1>1. n \in Nat /\ DOMAIN i.rules = 1..n /\ Range(i.rules) = {i.rules[r] : r \in 1..n}
  BY DEF IsIngress, Range
<1>2. ASSUME NEW r \in 1..n
      PROVE  /\ list(r) \in Seq(S)
             /\ Range(list(r)) = {x \in {[host |-> i.rules[r].host, path |-> p]
                                           : p \in Range(i.rules[r].paths)} : i.rules[r].http}
  <2> DEFINE rule == i.rules[r]
             m == Len(rule.paths)
             item(p) == [host |-> rule.host, path |-> rule.paths[p]]
  <2>1. rule \in Range(i.rules)
    BY <1>1
  <2>2. m \in Nat /\ DOMAIN rule.paths = 1..m
    BY <2>1 DEF IsIngress
  <2>3. CASE rule.http
    <3>1. \A p \in 1..m : item(p) \in S
      <4> TAKE p \in 1..m
      <4>1. rule.paths[p] \in Range(rule.paths)
        BY <2>2, Zenon DEF Range
      <4>2. rule \in {x \in Range(i.rules) : x.http}
        BY <2>1, <2>3
      <4> HIDE DEF rule
      <4>3. item(p) \in {[host |-> rule.host, path |-> q] : q \in Range(rule.paths)}
        BY <4>1
      <4> HIDE DEF item
      <4> QED
        BY <4>2, <4>3 DEF HostPaths
    <3>2. list(r) = [p \in 1..m |-> item(p)]
      BY <2>2, <2>3
    <3> HIDE DEF S, list, rule, m
    <3>3. list(r) \in Seq(S)
      BY <2>2, <3>1, <3>2
    <3>4. Range(list(r)) = {item(p) : p \in 1..m}
      BY <3>2 DEF Range
    <3>5. {item(p) : p \in 1..m} = {[host |-> rule.host, path |-> p] : p \in Range(rule.paths)}
      BY <2>2 DEF Range
    <3> QED
      BY <2>3, <3>3, <3>4, <3>5 DEF rule
  <2>4. CASE ~rule.http
    BY <2>4 DEF Range
  <2> QED
    BY <2>3, <2>4
<1>3. lists \in [1..n -> Seq(S)] /\ \A r \in 1..n : lists[r] = list(r)
  BY <1>1, <1>2
<1>4. Paths(i) = AppendAll(lists)
  BY DEF Paths
<1> DEFINE items(r) == {[host |-> r.host, path |-> p] : p \in Range(r.paths)}
<1>5. \A r \in 1..n : Range(lists[r]) = {x \in items(i.rules[r]) : i.rules[r].http}
  BY <1>2, <1>3, Zenon
<1>6. S = UNION {items(r) : r \in {x \in Range(i.rules) : x.http}}
  BY Zenon DEF HostPaths
<1> HIDE DEF lists, list, S, n, items
<1>7. Paths(i) \in Seq(S) /\ Range(Paths(i)) = UNION {Range(lists[r]) : r \in 1..n}
  BY <1>1, <1>3, <1>4, AppendAllElements, ZenonT(60)
<1>8. UNION {Range(lists[r]) : r \in 1..n} \subseteq S
  <2> SUFFICES ASSUME NEW r \in 1..n, NEW x \in Range(lists[r]) PROVE x \in S
    OBVIOUS
  <2> QED
    BY <1>1, <1>5, <1>6, ZenonT(60)
<1>9. S \subseteq UNION {Range(lists[r]) : r \in 1..n}
  <2> SUFFICES ASSUME NEW x \in S PROVE \E r \in 1..n : x \in Range(lists[r])
    OBVIOUS
  <2>1. PICK rule \in Range(i.rules) : rule.http /\ x \in items(rule)
    BY <1>6
  <2>2. PICK r \in 1..n : rule = i.rules[r]
    BY <1>1
  <2> QED
    BY <1>5, <2>1, <2>2
<1> QED
  BY <1>7, <1>8, <1>9 DEF S

\* updateIngresses appends, for one ingress, the entries that are valid.
LEMMA IngressEntriesListed ==
  ASSUME NEW n, NEW i, IsIngress(i), NEW s
  PROVE  /\ IngressEntriesOf(n, i, s) \in Seq(EntriesOf(n, i, s))
         /\ Range(IngressEntriesOf(n, i, s)) = EntriesOf(n, i, s)
<1> DEFINE paths == Paths(i)
           m == Len(paths)
           S == EntriesOf(n, i, s)
           entry(k) == Entry(n, i, paths[k].host, paths[k].path,
                             serviceAddress(s, NamespaceOf[n], paths[k].path.service))
           ok(k) == /\ entry(k).address # NoAddress
                    /\ ingressClassSupported(i) /\ validate(entry(k))
           list(k) == IF ok(k) THEN <<entry(k)>> ELSE <<>>
           lists == [k \in DOMAIN paths |-> list(k)]
<1>1. paths \in Seq(HostPaths(i)) /\ Range(paths) = HostPaths(i)
  BY PathsListed
<1>2. IngressEntriesOf(n, i, s) = AppendAll(lists)
  BY DEF IngressEntriesOf
<1> HIDE DEF paths
<1>3. m \in Nat /\ DOMAIN paths = 1..m /\ HostPaths(i) = {paths[k] : k \in 1..m}
  BY <1>1 DEF Range
<1>4. \A k \in 1..m : entry(k) = EntryOf(n, i, s, paths[k])
  BY Zenon DEF EntryOf
<1>5. \A k \in 1..m : ok(k) <=> ingressClassSupported(i) /\ validate(entry(k))
  BY DEF validate
<1> HIDE DEF entry, ok, m
<1>6. S = {entry(k) : k \in {j \in 1..m : ok(j)}}
  BY <1>3, <1>4, <1>5 DEF EntriesOf
<1> HIDE DEF S
<1>7. \A k \in 1..m : list(k) \in Seq(S) /\ Range(list(k)) = {e \in {entry(k)} : ok(k)}
  BY <1>6 DEF Range
<1>8. lists \in [1..m -> Seq(S)] /\ \A k \in 1..m : lists[k] = list(k)
  BY <1>3, <1>7, Zenon
<1> HIDE DEF lists, list
<1>9. /\ IngressEntriesOf(n, i, s) \in Seq(S)
      /\ Range(IngressEntriesOf(n, i, s)) = UNION {Range(list(k)) : k \in 1..m}
  <2>1. /\ IngressEntriesOf(n, i, s) \in Seq(S)
        /\ Range(IngressEntriesOf(n, i, s)) = UNION {Range(lists[k]) : k \in 1..m}
    BY <1>2, <1>3, <1>8, AppendAllElements, ZenonT(60)
  <2> QED
    BY <1>8, <2>1
<1>10. UNION {Range(list(k)) : k \in 1..m} = S
  BY <1>6, <1>7
<1> QED
  BY <1>9, <1>10 DEF S

\* The ingresses and services that a cluster can have.
Clusters == Assignments(Ingresses, Shapes)
ServiceMaps == Assignments(DOMAIN Addresses, Addresses)

\* An ingress that is there is an ingress, and ClusterIPs are numbers.
LEMMA ClusterTypes ==
  /\ \A c \in Clusters : \A n \in Ingresses : c[n] # Absent => IsIngress(c[n])
  /\ \A s \in ServiceMaps : \A ns, name : serviceAddress(s, ns, name) \in Int
<1>1. ASSUME NEW c \in Clusters, NEW n \in Ingresses, c[n] # Absent PROVE IsIngress(c[n])
  <2>1. c[n] \in Shapes[n]
    BY DEF Clusters, Assignments
  <2> QED
    BY <1>1, <2>1, RoutingAssumption
<1>2. ASSUME NEW s \in ServiceMaps, NEW ns, NEW name PROVE serviceAddress(s, ns, name) \in Int
  <2>1. DOMAIN s = DOMAIN Addresses /\ \A x \in DOMAIN Addresses : s[x] \in Addresses[x]
    BY DEF ServiceMaps, Assignments
  <2>2. \A x \in DOMAIN s : s[x] # Absent => s[x] \in Int
    BY <2>1, RoutingAssumption
  <2> QED
    BY <2>2 DEF serviceAddress, NoAddress
<1> QED
  BY <1>1, <1>2

\* GetIngresses lists what it should, in some order.
LEMMA ListedOnce ==
  ASSUME NEW c, NEW list \in GetIngresses(c)
  PROVE  list \in Seq(Listed(c)) /\ DOMAIN list = 1..Len(list) /\ Range(list) = Listed(c)
<1>1. IsFiniteSet(Listed(c))
  <2>1. Listed(c) \in SUBSET Ingresses
    BY DEF Listed
  <2> QED
    BY <2>1, RoutingAssumption, FS_Subset
<1>2. list \in Orders(Listed(c))
  BY DEF GetIngresses, Listed
<1> QED
  BY <1>1, <1>2, ListsAll

\* The entries of an update, in whatever order the ingresses are listed.
LEMMA EntriesServed ==
  ASSUME NEW c \in Clusters, NEW s, NEW list \in GetIngresses(c)
  PROVE  /\ Entries(list, c, s) \in Seq(Served(c, s))
         /\ Range(Entries(list, c, s)) = Served(c, s)
<1> DEFINE m == Len(list)
           S == Served(c, s)
           part(k) == IngressEntriesOf(list[k], c[list[k]], s)
           parts == [k \in DOMAIN list |-> part(k)]
<1>1. m \in Nat /\ DOMAIN list = 1..m /\ Listed(c) = {list[k] : k \in 1..m}
  BY ListedOnce DEF Range
<1>2. ASSUME NEW k \in 1..m
      PROVE  part(k) \in Seq(S) /\ Range(part(k)) = EntriesOf(list[k], c[list[k]], s)
  <2>1. list[k] \in Listed(c)
    BY <1>1
  <2>2. IsIngress(c[list[k]])
    BY <2>1, ClusterTypes DEF Listed
  <2>3. /\ part(k) \in Seq(EntriesOf(list[k], c[list[k]], s))
        /\ Range(part(k)) = EntriesOf(list[k], c[list[k]], s)
    BY <2>2, IngressEntriesListed
  <2>4. EntriesOf(list[k], c[list[k]], s) \subseteq S
    BY <2>1 DEF Served
  <2> HIDE DEF S, part
  <2> QED
    BY <2>3, <2>4
<1>3. Entries(list, c, s) = AppendAll(parts)
  BY Zenon DEF Entries
<1>4. parts \in [1..m -> Seq(S)] /\ \A k \in 1..m : parts[k] = part(k)
  BY <1>1, <1>2
<1> HIDE DEF parts, part, m, S
<1>5. Entries(list, c, s) \in Seq(S)
      /\ Range(Entries(list, c, s)) = UNION {Range(parts[k]) : k \in 1..m}
  BY <1>1, <1>3, <1>4, AppendAllElements, ZenonT(60)
<1>6. UNION {Range(parts[k]) : k \in 1..m} = UNION {EntriesOf(n, c[n], s) : n \in Listed(c)}
  <2>1. \A k \in 1..m : Range(parts[k]) = EntriesOf(list[k], c[list[k]], s)
    BY <1>2, <1>4
  <2>2. {Range(parts[k]) : k \in 1..m} = {EntriesOf(n, c[n], s) : n \in Listed(c)}
    BY <1>1, <2>1
  <2> QED
    BY <2>2
<1> QED
  BY <1>5, <1>6, Zenon DEF S, Served

-----------------------------------------------------------------------------
(* What is wanted.                                                          *)

\* The values of labels are as the selectors say, where their names are.  Only
\* filterNamespacesMatchingAllLabels depends on it: it does not look at the values.
ValuesFollowNames ==
  MatchAll => \A n \in Ingresses :
    MatchesAllLabels(NamespaceOf[n]) => Selectors \subseteq Labels[NamespaceOf[n]]

\* Adopted and Wanted of the ingresses c and the services s.
AdoptedIn(c, n) ==
  /\ c[n] # Absent
  /\ c[n].class = Name \/ (c[n].class = Absent /\ IncludeClassless)
  /\ \/ Selectors = {}
     \/ IF MatchAll THEN Selectors \subseteq Labels[NamespaceOf[n]]
        ELSE \E l \in Labels[NamespaceOf[n]] : l \in Selectors

\* Wanted, of a cluster c and services s.
WantedIn(c, s) ==
  {e \in UNION {UNION {{Entry(n, c[n], r.host, p, serviceAddress(s, NamespaceOf[n], p.service))
                         : p \in Range(r.paths)}
                      : r \in {x \in Range(c[n].rules) : x.http}}
               : n \in {m \in Ingresses : AdoptedIn(c, m)}} :
     /\ e.host # NoHost /\ e.port # 0
     /\ e.address \notin {NoAddress, Headless}
     /\ BadChar \notin Range(RawPaths[e.path])
     /\ e.allow \cap InvalidAllow = {}}

\* Adopted and Wanted, before and after a step, are AdoptedIn and WantedIn of the state.
LEMMA WantedOfState ==
  /\ \A n : Adopted(n) <=> AdoptedIn(cluster, n)
  /\ \A n : Adopted(n)' <=> AdoptedIn(cluster', n)
  /\ Wanted = WantedIn(cluster, services)
  /\ Wanted' = WantedIn(cluster', services')
<1>1. /\ \A n : Adopted(n) <=> AdoptedIn(cluster, n)
      /\ \A n : Adopted(n)' <=> AdoptedIn(cluster', n)
  BY Zenon DEF Adopted, AdoptedIn
<1>2. Wanted = WantedIn(cluster, services)
  BY Zenon DEF Wanted, WantedIn, Adopted, AdoptedIn
<1>3. Wanted' = WantedIn(cluster', services')
  BY Zenon DEF Wanted, WantedIn, Adopted, AdoptedIn
<1> QED
  BY <1>1, <1>2, <1>3

\* The ingresses that are listed and have the class are the adopted ones.
LEMMA AdoptedListed ==
  ASSUME ValuesFollowNames, NEW c, NEW n \in Ingresses
  PROVE  AdoptedIn(c, n) <=> n \in Listed(c) /\ ingressClassSupported(c[n])
<1> DEFINE ns == NamespaceOf[n]
           chosen == \/ Selectors = {}
                     \/ IF MatchAll THEN Selectors \subseteq Labels[ns]
                        ELSE \E l \in Labels[ns] : l \in Selectors
<1>1. supportedNamespace(ns) <=> chosen
  <2>1. MatchAll => (MatchesAllLabels(ns) <=> Selectors \subseteq Labels[ns])
    BY DEF ValuesFollowNames, MatchesAllLabels
  <2>2. MatchesAnyLabel(ns) <=> \E l \in Labels[ns] : l \in Selectors
    BY DEF MatchesAnyLabel
  <2> QED
    BY <2>1, <2>2 DEF supportedNamespace
<1>2. ingressClassSupported(c[n])
        <=> c[n].class = Name \/ (c[n].class = Absent /\ IncludeClassless)
  BY RoutingAssumption DEF ingressClassSupported
<1> QED
  BY <1>1, <1>2 DEF AdoptedIn, Listed

\* So what is wanted is what the entries of an update are.
LEMMA WantedServed ==
  ASSUME ValuesFollowNames, NEW c, NEW s
  PROVE  WantedIn(c, s) = Served(c, s)
<1> DEFINE asked(n) ==
             UNION {{Entry(n, c[n], r.host, p, serviceAddress(s, NamespaceOf[n], p.service))
                       : p \in Range(r.paths)}
                    : r \in {x \in Range(c[n].rules) : x.http}}
           valid(e) == /\ e.host # NoHost /\ e.port # 0
                       /\ e.address \notin {NoAddress, Headless}
                       /\ BadChar \notin Range(RawPaths[e.path])
                       /\ e.allow \cap InvalidAllow = {}
<1>1. \A e : validate(e) <=> valid(e)
  BY DEF validate, isPathValid, Range
<1>2. ASSUME NEW n PROVE asked(n) = {EntryOf(n, c[n], s, x) : x \in HostPaths(c[n])}
  <2> DEFINE rules == {x \in Range(c[n].rules) : x.http}
             entry(h, p) == Entry(n, c[n], h, p, serviceAddress(s, NamespaceOf[n], p.service))
             items(r) == {[host |-> r.host, path |-> p] : p \in Range(r.paths)}
  <2>1. \A h, p : EntryOf(n, c[n], s, [host |-> h, path |-> p]) = entry(h, p)
    BY DEF EntryOf
  <2>2. asked(n) = UNION {{entry(r.host, p) : p \in Range(r.paths)} : r \in rules}
    BY Zenon
  <2>3. HostPaths(c[n]) = UNION {items(r) : r \in rules}
    BY Zenon DEF HostPaths
  <2> HIDE DEF entry, rules
  <2>4. UNION {{entry(r.host, p) : p \in Range(r.paths)} : r \in rules}
          = {EntryOf(n, c[n], s, x) : x \in UNION {items(r) : r \in rules}}
    <3> DEFINE all == UNION {items(r) : r \in rules}
               left == UNION {{entry(r.host, p) : p \in Range(r.paths)} : r \in rules}
    <3>1. ASSUME NEW r \in rules, NEW p \in Range(r.paths)
          PROVE  /\ [host |-> r.host, path |-> p] \in all
                 /\ entry(r.host, p) = EntryOf(n, c[n], s, [host |-> r.host, path |-> p])
      BY <2>1
    <3>2. ASSUME NEW r \in rules, NEW x \in items(r)
          PROVE  \E p \in Range(r.paths) : EntryOf(n, c[n], s, x) = entry(r.host, p)
      BY <2>1
    <3> HIDE DEF items
    <3>3. \A e \in left : \E r \in rules : \E p \in Range(r.paths) : e = entry(r.host, p)
      BY Zenon
    <3>4. \A x \in all : \E r \in rules : x \in items(r)
      BY Zenon
    <3>5. \A r \in rules : \A p \in Range(r.paths) : entry(r.host, p) \in left
      OBVIOUS
    <3> HIDE DEF all, left
    <3>6. left \subseteq {EntryOf(n, c[n], s, x) : x \in all}
      <4> SUFFICES ASSUME NEW e \in left PROVE \E x \in all : e = EntryOf(n, c[n], s, x)
        OBVIOUS
      <4>1. PICK r \in rules : \E p \in Range(r.paths) : e = entry(r.host, p)
        BY <3>3
      <4>2. PICK p \in Range(r.paths) : e = entry(r.host, p)
        BY <4>1
      <4>3. [host |-> r.host, path |-> p] \in all
        BY <3>1
      <4> WITNESS [host |-> r.host, path |-> p] \in all
      <4> QED
        BY <3>1, <4>2
    <3>7. {EntryOf(n, c[n], s, x) : x \in all} \subseteq left
      BY <3>2, <3>4, <3>5
    <3>8. left = {EntryOf(n, c[n], s, x) : x \in all}
      BY <3>6, <3>7
    <3> QED
      BY <3>8, Zenon DEF all, left
  <2> QED
    BY <2>2, <2>3, <2>4, Zenon
<1>3. \A e : e \in WantedIn(c, s) <=>
               /\ valid(e)
               /\ \E n \in Ingresses : AdoptedIn(c, n) /\ e \in asked(n)
  BY DEF WantedIn
<1>4. \A e : e \in Served(c, s) <=>
               \E n \in Listed(c) : /\ e \in {EntryOf(n, c[n], s, x) : x \in HostPaths(c[n])}
                                    /\ ingressClassSupported(c[n]) /\ validate(e)
  BY DEF Served, EntriesOf
<1> HIDE DEF asked, valid
<1>5. \A n \in Listed(c) : n \in Ingresses
  BY DEF Listed
<1>6. \A e : e \in WantedIn(c, s) <=> e \in Served(c, s)
  BY <1>1, <1>2, <1>3, <1>4, <1>5, AdoptedListed, Zenon
<1> QED
  BY <1>6

-----------------------------------------------------------------------------
(* Entries and their order.                                                 *)

\* An entry is determined by its ingress, its host, its path, its address and its port.
LEMMA EntryShape ==
  ASSUME NEW c \in Clusters, NEW s \in ServiceMaps, NEW e \in Served(c, s)
  PROVE  /\ e.ingress \in Listed(c) /\ e.ingress \in Int
         /\ e.host \in Int /\ e.path \in DOMAIN RawPaths /\ e.address \in Int /\ e.port \in Int
         /\ e = Entry(e.ingress, c[e.ingress], e.host,
                      [path |-> e.path, port |-> e.port], e.address)
<1>1. PICK n \in Listed(c) : e \in EntriesOf(n, c[n], s)
  BY DEF Served
<1>2. PICK x \in HostPaths(c[n]) : e = EntryOf(n, c[n], s, x)
  BY <1>1 DEF EntriesOf
<1> DEFINE a == serviceAddress(s, NamespaceOf[n], x.path.service)
<1>3. n \in Ingresses /\ n \in Int /\ IsIngress(c[n])
  BY ClusterTypes, RoutingAssumption, Zenon DEF Listed
<1>4. x.host \in Int /\ x.path.path \in DOMAIN RawPaths /\ x.path.port \in Int
  <2>1. PICK r \in Range(c[n].rules) : \E p \in Range(r.paths) : x = [host |-> r.host, path |-> p]
    BY DEF HostPaths
  <2>2. PICK p \in Range(r.paths) : x = [host |-> r.host, path |-> p]
    BY <2>1, Zenon
  <2>3. r.host \in Int /\ p.path \in DOMAIN RawPaths /\ p.port \in Int
    BY <1>3, <2>1, <2>2 DEF IsIngress
  <2> QED
    BY <2>2, <2>3, Zenon
<1>5. a \in Int
  BY ClusterTypes
<1> HIDE DEF a
<1>6. e = Entry(n, c[n], x.host, x.path, a)
  BY <1>2, Zenon DEF EntryOf, a
<1>7. /\ e.ingress = n /\ e.host = x.host /\ e.address = a
      /\ e.path = x.path.path /\ e.port = x.path.port
  BY <1>6, Zenon DEF Entry
<1>8. Entry(n, c[n], x.host, x.path, a)
        = Entry(n, c[n], x.host, [path |-> x.path.path, port |-> x.path.port], a)
  BY DEF Entry
<1> QED
  BY <1>1, <1>3, <1>4, <1>5, <1>6, <1>7, <1>8, ZenonT(60)

\* Two entries of an ingress for the same host, path and address differ in the port only.
LEMMA PortOnly ==
  ASSUME NEW c \in Clusters, NEW s \in ServiceMaps, NEW e \in Served(c, s), NEW f \in Served(c, s),
         e.ingress = f.ingress, e.host = f.host, e.path = f.path, e.address = f.address
  PROVE  f = [e EXCEPT !.port = f.port] /\ (e.port = f.port => e = f)
<1> DEFINE E(port) == Entry(e.ingress, c[e.ingress], e.host,
                            [path |-> e.path, port |-> port], e.address)
<1>1. e = E(e.port) /\ f = E(f.port)
  BY EntryShape
<1>2. ASSUME NEW p, NEW q PROVE E(q) = [E(p) EXCEPT !.port = q]
  <2> DEFINE i == c[e.ingress]
             allow == IF i.allow = Absent THEN DefaultAllow ELSE i.allow
             strip == Flag(i.strip, FALSE)
             exact == Flag(i.exact, FALSE)
             timeout == Number(i.timeout, DefaultTimeout)
             most == Number(i.maxConnections, 0)
             blocks == Capped(i.blocks, DefaultBufferBlocks, maxAllowedProxyBufferBlocks)
             R(port) == [ingress |-> e.ingress, host |-> e.host, path |-> e.path,
                         address |-> e.address, port |-> port, allow |-> allow, strip |-> strip,
                         exact |-> exact, timeout |-> timeout, maxConnections |-> most,
                         blocks |-> blocks]
  <2>1. E(p) = R(p) /\ E(q) = R(q)
    BY DEF Entry
  <2> HIDE DEF E, allow, strip, exact, timeout, most, blocks
  <2>2. R(q) = [R(p) EXCEPT !.port = q]
    BY SMTT(30)
  <2> HIDE DEF R
  <2> QED
    BY <2>1, <2>2, ZenonT(60)
<1> HIDE DEF E
<1> QED
  BY <1>1, <1>2

\* Five numbers are compared one after the other.
LEMMA LessOfFive ==
  ASSUME NEW a1, NEW a2, NEW a3, NEW a4, NEW a5, NEW b1, NEW b2, NEW b3, NEW b4, NEW b5
  PROVE  Less(<<a1, a2, a3, a4, a5>>, <<b1, b2, b3, b4, b5>>) <=>
           \/ a1 < b1
           \/ a1 = b1 /\ a2 < b2
           \/ a1 = b1 /\ a2 = b2 /\ a3 < b3
           \/ a1 = b1 /\ a2 = b2 /\ a3 = b3 /\ a4 < b4
           \/ a1 = b1 /\ a2 = b2 /\ a3 = b3 /\ a4 = b4 /\ a5 < b5
<1> DEFINE a == <<a1, a2, a3, a4, a5>>
           b == <<b1, b2, b3, b4, b5>>
           At(k) == a[k] < b[k] /\ \A j \in 1..k - 1 : a[j] = b[j]
<1>1. Less(a, b) <=> \E k \in 1..5 : At(k)
  BY DEF Less
<1>2. (\E k \in 1..5 : At(k)) <=> At(1) \/ At(2) \/ At(3) \/ At(4) \/ At(5)
  <2> HIDE DEF At
  <2>1. \A k \in 1..5 : k = 1 \/ k = 2 \/ k = 3 \/ k = 4 \/ k = 5
    OBVIOUS
  <2> QED
    BY <2>1
<1>3. /\ a[1] = a1 /\ a[2] = a2 /\ a[3] = a3 /\ a[4] = a4 /\ a[5] = a5
      /\ b[1] = b1 /\ b[2] = b2 /\ b[3] = b3 /\ b[4] = b4 /\ b[5] = b5
  OBVIOUS
<1> HIDE DEF a, b
<1>4. At(1) <=> a1 < b1
  BY <1>3
<1>5. At(2) <=> a1 = b1 /\ a2 < b2
  BY <1>3
<1>6. At(3) <=> a1 = b1 /\ a2 = b2 /\ a3 < b3
  BY <1>3
<1>7. At(4) <=> a1 = b1 /\ a2 = b2 /\ a3 = b3 /\ a4 < b4
  BY <1>3
<1>8. At(5) <=> a1 = b1 /\ a2 = b2 /\ a3 = b3 /\ a4 = b4 /\ a5 < b5
  BY <1>3
<1> HIDE DEF At
<1> QED
  BY <1>1, <1>2, <1>4, <1>5, <1>6, <1>7, <1>8, ZenonT(60) DEF a, b

\* Unless two entries tie because of a surrogate, any two entries are ordered, and the
\* key by which the code sorts gives the order of the fields.
NoTies(W) ==
  \A e, f \in W : rune(e.port) # e.port /\ f = [e EXCEPT !.port = f.port] => f = e

\* The key orders any two entries, as Order does, and lower ingresses come first.
LEMMA Ordered ==
  ASSUME NEW c \in Clusters, NEW s \in ServiceMaps, NoTies(Served(c, s)),
         NEW e \in Served(c, s), NEW f \in Served(c, s)
  PROVE  /\ e = f \/ Less(Order(e), Order(f)) \/ Less(Order(f), Order(e))
         /\ ~(Less(Order(e), Order(f)) /\ Less(Order(f), Order(e)))
         /\ Less(Order(e), Order(f)) => e.ingress <= f.ingress
         /\ e # f => (Less(SortKey(e), SortKey(f)) <=> Less(Order(e), Order(f)))
<1>1. /\ e.ingress \in Int /\ e.host \in Int /\ e.path \in Int
      /\ e.address \in Int /\ e.port \in Int
      /\ f.ingress \in Int /\ f.host \in Int /\ f.path \in Int
      /\ f.address \in Int /\ f.port \in Int
  <2>1. DOMAIN RawPaths \subseteq Int
    BY DEF RawPaths
  <2> QED
    BY <2>1, EntryShape, Zenon
<1> DEFINE Before(d) ==
      \/ e.ingress < f.ingress
      \/ e.ingress = f.ingress /\ e.host < f.host
      \/ e.ingress = f.ingress /\ e.host = f.host /\ e.path < f.path
      \/ e.ingress = f.ingress /\ e.host = f.host /\ e.path = f.path /\ e.address < f.address
      \/ e.ingress = f.ingress /\ e.host = f.host /\ e.path = f.path /\ e.address = f.address /\ d
    After(d) ==
      \/ f.ingress < e.ingress
      \/ f.ingress = e.ingress /\ f.host < e.host
      \/ f.ingress = e.ingress /\ f.host = e.host /\ f.path < e.path
      \/ f.ingress = e.ingress /\ f.host = e.host /\ f.path = e.path /\ f.address < e.address
      \/ f.ingress = e.ingress /\ f.host = e.host /\ f.path = e.path /\ f.address = e.address /\ d
<1>2. /\ Less(Order(e), Order(f)) <=> Before(e.port < f.port)
      /\ Less(Order(f), Order(e)) <=> After(f.port < e.port)
  BY LessOfFive DEF Order
<1>3. Less(SortKey(e), SortKey(f)) <=> Before(rune(e.port) < rune(f.port))
  BY LessOfFive DEF SortKey
<1>4. /\ e.ingress = f.ingress /\ e.host = f.host /\ e.path = f.path /\ e.address = f.address
      => e = f \/ (e.port # f.port /\ rune(e.port) = e.port /\ rune(f.port) = f.port)
  <2> SUFFICES ASSUME e.ingress = f.ingress, e.host = f.host, e.path = f.path,
                      e.address = f.address, e # f
               PROVE  e.port # f.port /\ rune(e.port) = e.port /\ rune(f.port) = f.port
    OBVIOUS
  <2>1. f = [e EXCEPT !.port = f.port] /\ (e.port = f.port => e = f)
    BY PortOnly
  <2>2. e = [f EXCEPT !.port = e.port]
    BY PortOnly
  <2> QED
    BY <2>1, <2>2 DEF NoTies
<1>5. e = f \/ Before(e.port < f.port) \/ After(f.port < e.port)
  BY <1>1, <1>4
<1>6. ~(Before(e.port < f.port) /\ After(f.port < e.port))
  BY <1>1
<1>7. Before(e.port < f.port) => e.ingress <= f.ingress
  BY <1>1
<1>8. e # f => (Before(rune(e.port) < rune(f.port)) <=> Before(e.port < f.port))
  BY <1>4
<1> HIDE DEF Before, After
<1> QED
  BY <1>2, <1>3, <1>5, <1>6, <1>7, <1>8, Zenon

\* A sorted list has the entries of the list, in the order of their keys.
LEMMA SortedFacts ==
  ASSUME NEW S, NEW entries \in Seq(S), NEW t \in Sorted(entries)
  PROVE  /\ DOMAIN t = 1..Len(entries) /\ Range(t) = Range(entries)
         /\ \A j, k \in 1..Len(entries) : j < k => ~Less(SortKey(t[k]), SortKey(t[j]))
<1> DEFINE n == Len(entries)
<1>1. PICK o \in Orders(DOMAIN entries) :
        /\ t = [k \in DOMAIN entries |-> entries[o[k]]]
        /\ \A j, k \in DOMAIN o :
             j < k => ~Less(SortKey(entries[o[k]]), SortKey(entries[o[j]]))
  BY DEF Sorted
<1>2. n \in Nat /\ DOMAIN entries = 1..n
  OBVIOUS
<1> HIDE DEF n
<1>3. IsFiniteSet(1..n) /\ Cardinality(1..n) = n
  BY <1>2, FS_Interval
<1>4. DOMAIN o = 1..n /\ Range(o) = 1..n
  BY <1>1, <1>2, <1>3, ListsAll
<1>5. \A k \in 1..n : o[k] \in 1..n /\ t[k] = entries[o[k]]
  BY <1>1, <1>2, <1>4 DEF Range
<1>6. DOMAIN t = 1..n
  BY <1>1, <1>2
<1>7. Range(t) \subseteq Range(entries)
  BY <1>2, <1>5, <1>6 DEF Range
<1>8. Range(entries) \subseteq Range(t)
  <2> SUFFICES ASSUME NEW k \in 1..n PROVE \E j \in 1..n : t[j] = entries[k]
    BY <1>2, <1>6, Zenon DEF Range
  <2>1. PICK j \in 1..n : o[j] = k
    BY <1>4 DEF Range
  <2> QED
    BY <1>5, <2>1
<1>9. \A j, k \in 1..n : j < k => ~Less(SortKey(t[k]), SortKey(t[j]))
  BY <1>1, <1>4, <1>5, ZenonT(60)
<1> QED
  BY <1>6, <1>7, <1>8, <1>9, Zenon DEF n

-----------------------------------------------------------------------------
(* The configuration of a cluster.                                          *)

\* First, for a given set of entries.
FirstOf(W, route) ==
  LET rivals == {e \in W : <<e.host, NginxPath(e)>> = route}
  IN CHOOSE e \in rivals : \A f \in rivals : e = f \/ Less(Order(e), Order(f))

\* The hosts and paths that some entry of W asks for.
RoutesOf(W) == {<<e.host, NginxPath(e)>> : e \in W}

\* The configuration that the entries W should have.
ServersOf(W) ==
  [h \in {r[1] : r \in RoutesOf(W)} |->
     {Location(FirstOf(W, r)) : r \in {x \in RoutesOf(W) : x[1] = h}}]

\* The upstreams of W: those with one name are equal (SameUpstream).
UpstreamsOf(W) ==
  [x \in {upstreamID(e) : e \in W} |-> UpstreamOf(CHOOSE e \in W : upstreamID(e) = x)]

\* e is the entry of its route.
Leads(W, e) == \A f \in W : Route(f) = Route(e) => e = f \/ Less(Order(e), Order(f))

\* The entry that leads is the only one.
LEMMA FirstLeads ==
  ASSUME NEW c \in Clusters, NEW s \in ServiceMaps, NoTies(Served(c, s)),
         NEW e \in Served(c, s), Leads(Served(c, s), e)
  PROVE  FirstOf(Served(c, s), Route(e)) = e
<1> DEFINE W == Served(c, s)
           rivals == {f \in W : <<f.host, NginxPath(f)>> = Route(e)}
           Chosen(x) == \A f \in rivals : x = f \/ Less(Order(x), Order(f))
<1>1. FirstOf(W, Route(e)) = CHOOSE x \in rivals : Chosen(x)
  BY Zenon DEF FirstOf
<1>2. \A f \in rivals : f \in W /\ Route(f) = Route(e)
  BY DEF Route
<1>3. e \in rivals /\ Chosen(e)
  BY <1>2 DEF Route, Leads
<1>4. ASSUME NEW x \in rivals, Chosen(x) PROVE x = e
  <2>1. x \in W /\ (x = e \/ Less(Order(x), Order(e))) /\ (e = x \/ Less(Order(e), Order(x)))
    BY <1>2, <1>3, <1>4, Zenon
  <2> QED
    BY <2>1, Ordered, Zenon
<1> HIDE DEF W, rivals, Chosen
<1> QED
  BY <1>1, <1>3, <1>4 DEF W

\* In a sorted list, the first entry of a route leads.
LEMMA SortedLeads ==
  ASSUME NEW c \in Clusters, NEW s \in ServiceMaps, NoTies(Served(c, s)),
         NEW n \in Nat, NEW t, DOMAIN t = 1..n, Range(t) = Served(c, s),
         \A j, k \in 1..n : j < k => ~Less(SortKey(t[k]), SortKey(t[j])),
         NEW k \in 1..n, IsFirst(t, k)
  PROVE  t[k] \in Served(c, s) /\ Leads(Served(c, s), t[k])
<1>1. \A i \in 1..n : t[i] \in Served(c, s)
  BY Zenon DEF Range
<1>2. ASSUME NEW f \in Served(c, s), Route(f) = Route(t[k]), t[k] # f
      PROVE  Less(Order(t[k]), Order(f))
  <2>1. PICK i \in 1..n : t[i] = f
    BY DEF Range
  <2>2. k < i
    BY <1>2, <2>1 DEF IsFirst
  <2>3. ~Less(SortKey(f), SortKey(t[k]))
    BY <2>1, <2>2, Zenon
  <2>4. ~Less(Order(f), Order(t[k]))
    BY <1>1, <1>2, <2>3, Ordered
  <2> QED
    BY <1>1, <1>2, <2>4, Ordered, Zenon
<1> QED
  BY <1>1, <1>2, Zenon DEF Leads

\* createConfig makes the configuration of a sorted list of the entries.
LEMMA ConfigOfList ==
  ASSUME NEW c \in Clusters, NEW s \in ServiceMaps, NEW list \in GetIngresses(c),
         NEW g \in createConfig(Entries(list, c, s))
  PROVE  \E n \in Nat : \E t :
           /\ DOMAIN t = 1..n /\ Range(t) = Served(c, s)
           /\ \A j, k \in 1..n : j < k => ~Less(SortKey(t[k]), SortKey(t[j]))
           /\ g = [servers |-> createServerEntries(t), upstreams |-> createUpstreamEntries(t)]
<1> DEFINE entries == Entries(list, c, s)
<1>1. entries \in Seq(Served(c, s)) /\ Range(entries) = Served(c, s)
  BY EntriesServed, Zenon
<1>2. PICK t \in Sorted(entries) :
        g = [servers |-> createServerEntries(t), upstreams |-> createUpstreamEntries(t)]
  BY DEF createConfig
<1> HIDE DEF entries
<1>3. /\ DOMAIN t = 1..Len(entries) /\ Range(t) = Range(entries)
      /\ \A j, k \in 1..Len(entries) : j < k => ~Less(SortKey(t[k]), SortKey(t[j]))
  BY <1>1, SortedFacts
<1>4. Len(entries) \in Nat
  BY <1>1
<1> QED
  BY <1>1, <1>2, <1>3, <1>4, ZenonT(40)

\* The connection limit of an upstream is the same for all its entries.
LEMMA SameUpstream ==
  ASSUME NEW c \in Clusters, NEW s \in ServiceMaps, NEW e \in Served(c, s), NEW f \in Served(c, s),
         upstreamID(e) = upstreamID(f)
  PROVE  UpstreamOf(e) = UpstreamOf(f)
<1>1. e.ingress = f.ingress /\ e.address = f.address /\ e.port = f.port
  BY Zenon DEF upstreamID
<1>2. /\ e = Entry(e.ingress, c[e.ingress], e.host, [path |-> e.path, port |-> e.port], e.address)
      /\ f = Entry(f.ingress, c[f.ingress], f.host, [path |-> f.path, port |-> f.port], f.address)
  BY EntryShape
<1>3. \A n, i, h, p, a : Entry(n, i, h, p, a).maxConnections = Number(i.maxConnections, 0)
  BY ZenonT(40) DEF Entry
<1>4. e.maxConnections = f.maxConnections
  BY <1>1, <1>2, <1>3
<1> QED
  BY <1>1, <1>4 DEF UpstreamOf

\* So each entry finds its own upstream under its name.
LEMMA UpstreamsAgree ==
  ASSUME NEW c \in Clusters, NEW s \in ServiceMaps, NEW e \in Served(c, s)
  PROVE  UpstreamsOf(Served(c, s))[upstreamID(e)] = UpstreamOf(e)
<1> DEFINE W == Served(c, s)
           f == CHOOSE x \in W : upstreamID(x) = upstreamID(e)
<1>1. f \in W /\ upstreamID(f) = upstreamID(e)
  OBVIOUS
<1>2. UpstreamsOf(W)[upstreamID(e)] = UpstreamOf(f)
  BY Zenon DEF UpstreamsOf
<1> HIDE DEF f
<1> QED
  BY <1>1, <1>2, SameUpstream

\* Each route of a cluster whose entries do not tie has an entry that leads, and
\* nginx.conf is made of these.
LEMMA ConfigOfServed ==
  ASSUME NEW c \in Clusters, NEW s \in ServiceMaps, NoTies(Served(c, s)),
         NEW list \in GetIngresses(c), NEW g \in createConfig(Entries(list, c, s))
  PROVE  LET W == Served(c, s)
         IN /\ g = [servers |-> ServersOf(W), upstreams |-> UpstreamsOf(W)]
            /\ \A r \in RoutesOf(W) :
                 FirstOf(W, r) \in W /\ Route(FirstOf(W, r)) = r /\ Leads(W, FirstOf(W, r))
<1> DEFINE W == Served(c, s)
<1>1. PICK n \in Nat : \E t :
           /\ DOMAIN t = 1..n /\ Range(t) = W
           /\ \A j, k \in 1..n : j < k => ~Less(SortKey(t[k]), SortKey(t[j]))
           /\ g = [servers |-> createServerEntries(t), upstreams |-> createUpstreamEntries(t)]
  BY ConfigOfList
<1>2. PICK t :
           /\ DOMAIN t = 1..n /\ Range(t) = W
           /\ \A j, k \in 1..n : j < k => ~Less(SortKey(t[k]), SortKey(t[j]))
           /\ g = [servers |-> createServerEntries(t), upstreams |-> createUpstreamEntries(t)]
  BY <1>1, Zenon
<1>3. W = {t[k] : k \in 1..n}
  BY <1>2, Zenon DEF Range
<1>4. ASSUME NEW k \in 1..n, IsFirst(t, k)
      PROVE  t[k] \in W /\ Leads(W, t[k]) /\ FirstOf(W, Route(t[k])) = t[k]
  BY <1>2, <1>4, SortedLeads, FirstLeads, ZenonT(60)
<1>5. \A r \in RoutesOf(W) : \E k \in 1..n : IsFirst(t, k) /\ Route(t[k]) = r
  <2> TAKE r \in RoutesOf(W)
  <2>1. PICK i \in 1..n : Route(t[i]) = r
    BY <1>3 DEF RoutesOf, Route
  <2> DEFINE P == {k \in 1..n : Route(t[k]) = r}
  <2>2. PICK k \in P : \A j \in P : k <= j
    <3>1. P \in SUBSET Nat /\ P # {}
      BY <2>1
    <3> HIDE DEF P
    <3> QED
      BY <3>1, Least
  <2> QED
    BY <1>2, <2>2 DEF IsFirst
<1> HIDE DEF W
<1>6. \A r \in RoutesOf(W) :
        FirstOf(W, r) \in W /\ Route(FirstOf(W, r)) = r /\ Leads(W, FirstOf(W, r))
  BY <1>4, <1>5, Zenon
<1>7. createServerEntries(t) = ServersOf(W)
  <2> DEFINE Routes(h) == {Location(FirstOf(W, r)) : r \in {x \in RoutesOf(W) : x[1] = h}}
  <2>1. createServerEntries(t) = [h \in {t[k].host : k \in 1..n} |-> FirstLocations(t, h)]
    BY <1>2, ServersOfFirst, ZenonT(40) DEF FirstServers
  <2>2. ServersOf(W) = [h \in {r[1] : r \in RoutesOf(W)} |-> Routes(h)]
    BY DEF ServersOf
  <2>3. \A e : Route(e)[1] = e.host
    BY DEF Route
  <2>4. RoutesOf(W) = {Route(t[k]) : k \in 1..n}
    BY <1>3, Zenon DEF RoutesOf, Route
  <2>5. {t[k].host : k \in 1..n} = {r[1] : r \in RoutesOf(W)}
    BY <2>3, <2>4
  <2>6. ASSUME NEW h PROVE FirstLocations(t, h) = Routes(h)
    <3>1. ASSUME NEW k \in 1..n, t[k].host = h, IsFirst(t, k)
          PROVE  /\ Route(t[k]) \in RoutesOf(W) /\ Route(t[k])[1] = h
                 /\ FirstOf(W, Route(t[k])) = t[k]
      BY <1>4, <2>3, <2>4, <3>1, ZenonT(60)
    <3>2. ASSUME NEW r \in RoutesOf(W), r[1] = h
          PROVE  \E k \in 1..n : t[k].host = h /\ IsFirst(t, k) /\ FirstOf(W, r) = t[k]
      BY <1>4, <1>5, <2>3, <3>2
    <3>3. FirstLocations(t, h) \subseteq Routes(h)
      BY <1>2, <3>1, ZenonT(40) DEF FirstLocations
    <3>4. Routes(h) \subseteq FirstLocations(t, h)
      BY <1>2, <3>2 DEF FirstLocations
    <3> QED
      BY <3>3, <3>4, Zenon
  <2> HIDE DEF Routes
  <2> QED
    BY <2>1, <2>2, <2>5, <2>6, Zenon
<1>8. createUpstreamEntries(t) = UpstreamsOf(W)
  <2> DEFINE ids == {upstreamID(e) : e \in W}
             u == createUpstreamEntries(t)
  <2>1. ids = {upstreamID(t[k]) : k \in 1..n}
    BY <1>3
  <2>2. u = [x \in ids |-> u[x]]
    BY <1>2, <2>1, UpstreamsOfAll, Zenon
  <2>3. ASSUME NEW x \in ids PROVE u[x] = UpstreamsOf(W)[x]
    <3>1. PICK k \in 1..n : x = upstreamID(t[k])
      BY <2>1
    <3>2. PICK j \in 1..n : upstreamID(t[j]) = x /\ u[x] = UpstreamOf(t[j])
      <4>1. DOMAIN t = 1..n
        BY <1>2
      <4>2. \E j \in 1..n : /\ upstreamID(t[j]) = upstreamID(t[k])
                             /\ u[upstreamID(t[k])] = UpstreamOf(t[j])
        BY <4>1, UpstreamsOfAll, Zenon
      <4> QED
        BY <3>1, <4>2, Zenon
    <3>3. t[j] \in W
      BY <1>3
    <3> QED
      BY <3>2, <3>3, UpstreamsAgree, ZenonT(60) DEF W
  <2>4. UpstreamsOf(W) = [x \in ids |-> UpstreamsOf(W)[x]]
    BY DEF UpstreamsOf
  <2> HIDE DEF u, ids
  <2> QED
    BY <2>2, <2>3, <2>4, Zenon DEF u
<1> QED
  BY <1>2, <1>6, <1>7, <1>8, ZenonT(60) DEF W

-----------------------------------------------------------------------------
(* The invariant.                                                           *)

\* The cluster is one that can be, and the result and nginx.conf are those of an update
\* of this cluster, with its ingresses listed in some order.
Inv ==
  /\ cluster \in Clusters /\ services \in ServiceMaps /\ result \in {"none", "nil", "error"}
  /\ result = "nil" =>
       \E list \in GetIngresses(cluster) :
         /\ ~ReadFails(list, cluster, services) /\ Entries(list, cluster, services) # <<>>
         /\ conf \in createConfig(Entries(list, cluster, services))
  /\ result = "error" =>
       \E list \in GetIngresses(cluster) :
         ReadFails(list, cluster, services) \/ Entries(list, cluster, services) = <<>>

\* Before the first update nothing has been made.
LEMMA InitInv == Init => Inv
  BY DEF Init, Inv, Clusters, ServiceMaps

\* An update establishes the invariant.
LEMMA UpdateInv ==
  ASSUME NEW c \in Clusters, NEW s \in ServiceMaps, updateIngresses(c, s)
  PROVE  Inv'
<1>1. cluster' = c /\ services' = s
  BY DEF updateIngresses
<1>2. PICK list \in GetIngresses(c) :
         \/ /\ ReadFails(list, c, s) \/ Entries(list, c, s) = <<>>
            /\ result' = "error"
         \/ /\ ~ReadFails(list, c, s) /\ Entries(list, c, s) # <<>>
            /\ result' = "nil" /\ conf' \in createConfig(Entries(list, c, s))
  BY DEF updateIngresses
<1> QED
  BY <1>1, <1>2 DEF Inv

\* Every step preserves it.
LEMMA StepInv == Inv /\ [Next]_vars => Inv'
<1> SUFFICES ASSUME Inv, [Next]_vars PROVE Inv'
  OBVIOUS
<1>1. cluster \in Clusters /\ services \in ServiceMaps
  BY Zenon DEF Inv
<1>2. ASSUME NEW n \in Ingresses, EditIngress(n) PROVE Inv'
  <2>1. PICK i \in Shapes[n] : updateIngresses([cluster EXCEPT ![n] = i], services)
    BY <1>2 DEF EditIngress
  <2>2. [cluster EXCEPT ![n] = i] \in Clusters
    BY <1>1 DEF Clusters, Assignments
  <2> QED
    BY <1>1, <2>1, <2>2, UpdateInv, Zenon
<1>3. ASSUME NEW x \in DOMAIN Addresses, EditService(x) PROVE Inv'
  <2>1. PICK a \in Addresses[x] : updateIngresses(cluster, [services EXCEPT ![x] = a])
    BY <1>3 DEF EditService
  <2>2. [services EXCEPT ![x] = a] \in ServiceMaps
    BY <1>1 DEF ServiceMaps, Assignments
  <2> QED
    BY <1>1, <2>1, <2>2, UpdateInv, Zenon
<1>4. CASE Resync
  BY <1>1, <1>4, UpdateInv, Zenon DEF Resync
<1>5. CASE UNCHANGED vars
  BY <1>5 DEF vars, Inv
<1> QED
  BY <1>2, <1>3, <1>4, <1>5 DEF Next

\* So the invariant holds always.
LEMMA Invariance == Spec => []Inv
  BY InitInv, StepInv, PTL DEF Spec

-----------------------------------------------------------------------------
(* What the invariant implies.                                              *)

\* An update that succeeds has entries, and one that fails has none or has panicked.
LEMMA ResultIsRight ==
  ASSUME ValuesFollowNames, Inv
  PROVE  /\ Wanted = Served(cluster, services)
         /\ result = "nil" => Wanted # {}
         /\ result = "error" => Wanted = {} \/ Panicking
<1>1. Wanted = Served(cluster, services)
  BY WantedOfState, WantedServed
<1>2. cluster \in Clusters /\ services \in ServiceMaps
  BY DEF Inv
<1>3. ASSUME NEW list \in GetIngresses(cluster)
      PROVE  Entries(list, cluster, services) = <<>> <=> Wanted = {}
  <2>1. /\ Entries(list, cluster, services) \in Seq(Wanted)
        /\ Range(Entries(list, cluster, services)) = Wanted
    BY <1>1, <1>2, EntriesServed, Zenon
  <2> QED
    BY <2>1 DEF Range
<1>4. ASSUME NEW list \in GetIngresses(cluster), ReadFails(list, cluster, services)
      PROVE  Wanted = {} \/ Panicking
  <2>1. list \in Seq(Listed(cluster)) /\ DOMAIN list = 1..Len(list) /\ Range(list) = Listed(cluster)
    BY ListedOnce
  <2>2. CASE list = <<>>
    <3>1. Listed(cluster) = {}
      BY <2>1, <2>2 DEF Range
    <3> QED
      BY <1>1, <3>1 DEF Served
  <2>3. CASE \A x \in DOMAIN services : services[x] = Absent
    <3>1. \A ns, name : serviceAddress(services, ns, name) = NoAddress
      BY <2>3, Zenon DEF serviceAddress
    <3>2. \A n, i, x : EntryOf(n, i, services, x).address = NoAddress
      BY <3>1, ZenonT(40) DEF EntryOf, Entry
    <3>3. \A n, i : EntriesOf(n, i, services) = {}
      BY <3>2, Zenon DEF EntriesOf, validate
    <3> QED
      BY <1>1, <3>3 DEF Served
  <2>4. CASE \E k \in DOMAIN list : Panics(cluster[list[k]])
    <3>1. PICK k \in DOMAIN list : Panics(cluster[list[k]])
      BY <2>4
    <3>2. list[k] \in Listed(cluster)
      BY <2>1
    <3> QED
      BY <3>1, <3>2, Zenon DEF Panicking, Listed
  <2> QED
    BY <1>4, <2>2, <2>3, <2>4, Zenon DEF ReadFails
<1> QED
  BY <1>1, <1>3, <1>4, ZenonT(60) DEF Inv

\* If entries do not tie, nginx.conf is determined by what is wanted.
Right ==
  /\ conf = [servers |-> ServersOf(Wanted), upstreams |-> UpstreamsOf(Wanted)]
  /\ \A r \in RoutesOf(Wanted) :
       FirstOf(Wanted, r) \in Wanted /\ Route(FirstOf(Wanted, r)) = r
         /\ Leads(Wanted, FirstOf(Wanted, r))
  /\ \A e \in Wanted : UpstreamsOf(Wanted)[upstreamID(e)] = UpstreamOf(e)

\* The configuration of an update that succeeds is right, without surrogates.
LEMMA ConfigIsRight ==
  ASSUME ValuesFollowNames, Inv, result = "nil", ~Surrogates
  PROVE  Right
<1>1. cluster \in Clusters /\ services \in ServiceMaps /\ Wanted = Served(cluster, services)
  BY ResultIsRight DEF Inv
<1>2. NoTies(Wanted)
  BY DEF Surrogates, NoTies
<1>3. PICK list \in GetIngresses(cluster) : conf \in createConfig(Entries(list, cluster, services))
  BY Zenon DEF Inv
<1> HIDE DEF Wanted
<1> QED
  BY <1>1, <1>2, <1>3, ConfigOfServed, UpstreamsAgree, ZenonT(60) DEF Right

\* nginx.conf routes each host and path that is wanted to the first entry that wants it.
LEMMA RoutesAreFirst ==
  ASSUME ValuesFollowNames, Inv
  PROVE  RoutesToTheFirst
<1> SUFFICES ASSUME result = "nil", ~Surrogates
             PROVE  LET routes == {<<e.host, NginxPath(e)>> : e \in Wanted}
                    IN /\ conf.servers = [h \in {r[1] : r \in routes} |->
                                            {Location(First(r)) : r \in {x \in routes : x[1] = h}}]
                       /\ DOMAIN conf.upstreams = {upstreamID(e) : e \in Wanted}
                       /\ \A e \in Wanted : conf.upstreams[upstreamID(e)] =
                            [server |-> <<e.address, e.port>>, maxConnections |-> e.maxConnections]
  BY Zenon DEF RoutesToTheFirst
<1>1. Right
  BY ConfigIsRight, Zenon
<1>2. conf.servers = ServersOf(Wanted) /\ conf.upstreams = UpstreamsOf(Wanted)
  BY <1>1 DEF Right
<1>3. \A r : First(r) = FirstOf(Wanted, r)
  BY Zenon DEF First, FirstOf
<1>4. DOMAIN UpstreamsOf(Wanted) = {upstreamID(e) : e \in Wanted}
  BY DEF UpstreamsOf
<1>5. \A e \in Wanted : UpstreamsOf(Wanted)[upstreamID(e)]
                          = [server |-> <<e.address, e.port>>, maxConnections |-> e.maxConnections]
  BY <1>1, ZenonT(40) DEF Right, UpstreamOf
<1>6. ServersOf(Wanted) = [h \in {r[1] : r \in RoutesOf(Wanted)} |->
                             {Location(First(r)) : r \in {x \in RoutesOf(Wanted) : x[1] = h}}]
  BY <1>3 DEF ServersOf
<1> QED
  BY <1>2, <1>4, <1>5, <1>6 DEF RoutesOf

\* Deduping is deterministic: whatever the order in which the informer store lists the
\* ingresses, each host and path that an adopted ingress asks for has one location, of
\* the first entry that asks for it, and its upstream is that entry's service.
THEOREM FirstEntryServes ==
  ASSUME ValuesFollowNames
  PROVE  Spec => []RoutesToTheFirst
<1>1. Inv => RoutesToTheFirst
  BY RoutesAreFirst
<1> QED
  BY Invariance, <1>1, PTL

-----------------------------------------------------------------------------
(* What nginx accepts.                                                      *)

\* createNginxPath leaves a path empty only if it is empty and exact.
LEMMA PathIsThere ==
  ASSUME NEW k \in DOMAIN RawPaths, NEW exact \in BOOLEAN, exact => RawPaths[k] # <<>>
  PROVE  createNginxPath(RawPaths[k], exact) # <<>>
<1> DEFINE Chars == {"/", "a", BadChar}
<1>1. RawPaths[k] \in Seq(Chars)
  <2>1. k \in 1..7
    BY DEF RawPaths
  <2>2. /\ <<>> \in Seq(Chars) /\ <<"/">> \in Seq(Chars) /\ <<"a">> \in Seq(Chars)
        /\ <<"/", "/">> \in Seq(Chars) /\ <<"/", BadChar>> \in Seq(Chars)
        /\ <<"/", "a">> \in Seq(Chars) /\ <<"/", "a", "/">> \in Seq(Chars)
    OBVIOUS
  <2>3. RawPaths[k] \in {<<>>, <<"/">>, <<"a">>, <<"/", "/">>, <<"/", BadChar>>, <<"/", "a">>,
                         <<"/", "a", "/">>}
    BY <2>1 DEF RawPaths
  <2> HIDE DEF Chars
  <2> QED
    BY <2>2, <2>3, Zenon
<1> HIDE DEF Chars
<1> DEFINE raw == RawPaths[k]
           p == IF raw # <<>> /\ Head(raw) = "/" THEN Tail(raw) ELSE raw
           q == IF p # <<>> /\ p[Len(p)] = "/" THEN SubSeq(p, 1, Len(p) - 1) ELSE p
<1>2. CASE exact
  BY <1>2 DEF createNginxPath
<1>3. CASE ~exact
  <2> HIDE DEF raw
  <2>1. raw \in Seq(Chars)
    BY <1>1 DEF raw
  <2>2. p \in Seq(Chars)
    BY <2>1
  <2> HIDE DEF p
  <2>3. q \in Seq(Chars)
    <3>1. p # <<>> => Len(p) - 1 \in Nat /\ Len(p) - 1 <= Len(p)
      BY <2>2
    <3>2. p # <<>> => SubSeq(p, 1, Len(p) - 1) \in Seq(Chars)
      BY <2>2, <3>1
    <3> QED
      BY <2>2, <3>2
  <2> HIDE DEF q
  <2>4. <<"/">> \o q \o <<"/">> # <<>> /\ <<"/">> # <<>>
    <3>1. Len(<<"/">> \o q \o <<"/">>) = 1 + Len(q) + 1 /\ Len(q) \in Nat
      BY <2>3
    <3>2. Len(<<>>) = 0
      OBVIOUS
    <3>3. <<"/">> \o q \o <<"/">> # <<>>
      BY <3>1, <3>2
    <3> QED
      BY <3>3
  <2>5. createNginxPath(raw, exact) \in {<<"/">>, <<"/">> \o q \o <<"/">>}
    BY <1>3, ZenonT(40) DEF createNginxPath, p, q
  <2> QED
    BY <2>4, <2>5 DEF raw
<1> QED
  BY <1>2, <1>3

\* The numbers of an entry are numbers, and its flags are flags.
LEMMA EntryNumbers ==
  ASSUME NEW c \in Clusters, NEW s \in ServiceMaps, NEW e \in Served(c, s)
  PROVE  e.exact \in BOOLEAN /\ e.timeout \in Int /\ e.blocks \in Int /\ e.maxConnections \in Int
<1> DEFINE i == c[e.ingress]
<1>1. /\ e.ingress \in Listed(c)
      /\ e = Entry(e.ingress, i, e.host, [path |-> e.path, port |-> e.port], e.address)
  BY EntryShape
<1>2. IsIngress(i)
  BY <1>1, ClusterTypes, Zenon DEF Listed
<1>3. /\ e.exact = Flag(i.exact, FALSE)
      /\ e.timeout = Number(i.timeout, DefaultTimeout)
      /\ e.maxConnections = Number(i.maxConnections, 0)
      /\ e.blocks = Capped(i.blocks, DefaultBufferBlocks, maxAllowedProxyBufferBlocks)
  <2> HIDE DEF i
  <2>1. \A n, h, p, a :
          /\ Entry(n, i, h, p, a).exact = Flag(i.exact, FALSE)
          /\ Entry(n, i, h, p, a).timeout = Number(i.timeout, DefaultTimeout)
          /\ Entry(n, i, h, p, a).maxConnections = Number(i.maxConnections, 0)
          /\ Entry(n, i, h, p, a).blocks
               = Capped(i.blocks, DefaultBufferBlocks, maxAllowedProxyBufferBlocks)
    BY ZenonT(40) DEF Entry
  <2>2. \E n, h, p, a : e = Entry(n, i, h, p, a)
    BY <1>1, Zenon
  <2> QED
    BY <2>1, <2>2, ZenonT(40)
<1> HIDE DEF i
<1>4. Flag(i.exact, FALSE) \in BOOLEAN
  <2>1. CASE i.exact = "true"
    BY <2>1 DEF Flag
  <2>2. CASE i.exact = "false"
    BY <2>2 DEF Flag
  <2>3. CASE i.exact # "true" /\ i.exact # "false"
    BY <2>3 DEF Flag
  <2> QED
    BY <2>1, <2>2, <2>3, Zenon
<1>5. ASSUME NEW text \in Int \cup {Absent, Garbage}, NEW default \in Int
      PROVE  Number(text, default) \in Int
  BY DEF Number, Atoi
<1>6. /\ i.timeout \in Int \cup {Absent, Garbage} /\ i.blocks \in Int \cup {Absent, Garbage}
      /\ i.maxConnections \in Int \cup {Absent, Garbage}
  BY <1>2 DEF IsIngress
<1>7. Capped(i.blocks, DefaultBufferBlocks, maxAllowedProxyBufferBlocks) \in Int
  <2>1. DefaultBufferBlocks \in Int /\ maxAllowedProxyBufferBlocks \in Int
    BY DEF DefaultBufferBlocks, maxAllowedProxyBufferBlocks
  <2>2. Number(i.blocks, DefaultBufferBlocks) \in Int
    BY <1>5, <1>6, <2>1, Zenon
  <2> QED
    BY <2>1, <2>2 DEF Capped
<1>8. Number(i.timeout, DefaultTimeout) \in Int /\ Number(i.maxConnections, 0) \in Int
  <2>1. DefaultTimeout \in Int /\ 0 \in Int
    BY DEF DefaultTimeout
  <2> QED
    BY <1>5, <1>6, <2>1, ZenonT(40)
<1> QED
  BY <1>3, <1>4, <1>7, <1>8, ZenonT(40)

\* A server whose locations have a path each, and none the path of another, is
\* rendered without duplicates.
LEMMA RenderedOnce ==
  ASSUME NEW L, \A l \in L : l.path # <<>>, \A l, m \in L : l.path = m.path => l = m,
         NEW x \in Rendered(L), NEW y \in Rendered(L)
  PROVE  x.path # <<>> /\ (x # y => <<x.path, x.exact>> # <<y.path, y.exact>>)
<1> DEFINE own(l) == [path |-> l.path, exact |-> l.exact, to |-> l.upstream]
           none == [path |-> <<"/">>, exact |-> FALSE, to |-> <<>>]
<1>1. ASSUME NEW z \in Rendered(L)
      PROVE  (\E l \in L : z = own(l)) \/ (z = none /\ \A l \in L : l.path # <<"/">>)
  BY Zenon DEF Rendered, HasRootLocation
<1>2. \A l : own(l).path = l.path
  OBVIOUS
<1>3. none.path = <<"/">> /\ <<"/">> # <<>>
  OBVIOUS
<1> HIDE DEF own, none
<1>4. x.path # <<>>
  BY <1>1, <1>2, <1>3
<1>5. ASSUME x.path = y.path PROVE x = y
  <2>1. CASE \E l \in L : x = own(l)
    <3>1. PICK l \in L : x = own(l)
      BY <2>1, Zenon
    <3>2. PICK m \in L : y = own(m)
      BY <1>1, <1>2, <1>3, <1>5, <3>1, ZenonT(60)
    <3> QED
      BY <1>2, <1>5, <3>1, <3>2, ZenonT(60)
  <2>2. CASE x = none /\ \A l \in L : l.path # <<"/">>
    BY <1>1, <1>2, <1>3, <1>5, <2>2
  <2> QED
    BY <1>1, <2>1, <2>2, Zenon
<1>6. <<x.path, x.exact>> = <<y.path, y.exact>> => x.path = y.path
  BY Zenon
<1> QED
  BY <1>4, <1>5, <1>6, Zenon

\* nginx accepts the configuration of well-formed entries.
LEMMA AcceptedIfFormed ==
  ASSUME NEW c \in Clusters, NEW s \in ServiceMaps, NEW list \in GetIngresses(c),
         NEW g \in createConfig(Entries(list, c, s)),
         \A e \in Served(c, s) : ~Malformed(e)
  PROVE  Accepted(g)
<1> DEFINE W == Served(c, s)
<1>1. PICK n \in Nat : \E t :
           /\ DOMAIN t = 1..n /\ Range(t) = W
           /\ g = [servers |-> createServerEntries(t), upstreams |-> createUpstreamEntries(t)]
  BY ConfigOfList
<1>2. PICK t :
           /\ DOMAIN t = 1..n /\ Range(t) = W
           /\ g = [servers |-> createServerEntries(t), upstreams |-> createUpstreamEntries(t)]
  BY <1>1
<1>3. g.servers = FirstServers(t) /\ g.upstreams = createUpstreamEntries(t)
  <2>1. g.servers = createServerEntries(t) /\ g.upstreams = createUpstreamEntries(t)
    BY <1>2
  <2>2. createServerEntries(t) = FirstServers(t)
    BY <1>2, ServersOfFirst, Zenon
  <2> QED
    BY <2>1, <2>2, Zenon
<1>4. \A k \in 1..n : t[k] \in W
  BY <1>2, Zenon DEF Range
<1>5. ASSUME NEW e \in W
      PROVE  NginxPath(e) # <<>> /\ e.timeout >= 0 /\ e.blocks >= 2 /\ e.maxConnections >= 0
  <2>1. e.exact \in BOOLEAN /\ e.timeout \in Int /\ e.blocks \in Int /\ e.maxConnections \in Int
    BY EntryNumbers
  <2>2. e.path \in DOMAIN RawPaths
    BY EntryShape, ZenonT(40)
  <2>3. /\ e.exact => RawPaths[e.path] # <<>>
        /\ ~(e.blocks < 2) /\ ~(e.timeout < 0) /\ ~(e.maxConnections < 0)
    BY Zenon DEF Malformed
  <2>4. NginxPath(e) # <<>>
    BY <2>1, <2>2, <2>3, PathIsThere, Zenon DEF NginxPath
  <2> QED
    BY <2>1, <2>3, <2>4
<1> HIDE DEF W
<1>6. ASSUME NEW h \in DOMAIN g.servers
      PROVE  /\ \A l, m \in Rendered(g.servers[h]) :
                  /\ l.path # <<>>
                  /\ l # m => <<l.path, l.exact>> # <<m.path, m.exact>>
             /\ \A l \in g.servers[h] :
                  /\ l.timeout >= 0 /\ l.blocks >= 2
                  /\ l.upstream \in DOMAIN g.upstreams
                  /\ g.upstreams[l.upstream].maxConnections >= 0
  <2> DEFINE L == FirstLocations(t, h)
  <2>1. g.servers[h] = L
    BY <1>3, Zenon DEF FirstServers
  <2>2. \A l \in L : \E k \in 1..n : l = Location(t[k]) /\ t[k].host = h /\ IsFirst(t, k)
    BY <1>2, Zenon DEF FirstLocations
  <2>3. \A e : /\ Location(e).path = NginxPath(e) /\ Location(e).upstream = upstreamID(e)
               /\ Location(e).timeout = e.timeout /\ Location(e).blocks = e.blocks
    BY DEF Location
  <2> HIDE DEF L
  <2>4. \A l \in L : l.path # <<>> /\ l.timeout >= 0 /\ l.blocks >= 2
    BY <1>4, <1>5, <2>2, <2>3, ZenonT(40)
  <2>5. ASSUME NEW l \in L, NEW m \in L, l.path = m.path PROVE l = m
    <3>1. PICK k \in 1..n : l = Location(t[k]) /\ t[k].host = h /\ IsFirst(t, k)
      BY <2>2, Zenon
    <3>2. PICK j \in 1..n : m = Location(t[j]) /\ t[j].host = h /\ IsFirst(t, j)
      BY <2>2, Zenon
    <3>3. Route(t[k]) = Route(t[j])
      <4>1. NginxPath(t[k]) = NginxPath(t[j]) /\ t[k].host = t[j].host
        BY <2>3, <2>5, <3>1, <3>2, Zenon
      <4> QED
        BY <4>1, Zenon DEF Route
    <3>4. k <= j /\ j <= k
      BY <1>2, <3>1, <3>2, <3>3, ZenonT(40) DEF IsFirst
    <3> QED
      BY <3>1, <3>2, <3>4
  <2>6. ASSUME NEW l \in L
        PROVE  l.upstream \in DOMAIN g.upstreams /\ g.upstreams[l.upstream].maxConnections >= 0
    <3>1. PICK k \in 1..n : l = Location(t[k])
      BY <2>2, ZenonT(40)
    <3>2. DOMAIN t = 1..n
      BY <1>2
    <3>3. upstreamID(t[k]) \in DOMAIN createUpstreamEntries(t)
      BY <3>2, UpstreamsOfAll, Zenon
    <3>4. PICK j \in 1..n : /\ upstreamID(t[j]) = upstreamID(t[k])
                             /\ createUpstreamEntries(t)[upstreamID(t[k])] = UpstreamOf(t[j])
      BY <3>2, UpstreamsOfAll, Zenon
    <3>5. UpstreamOf(t[j]).maxConnections >= 0
      BY <1>4, <1>5, ZenonT(40) DEF UpstreamOf
    <3> QED
      BY <1>3, <2>3, <3>1, <3>3, <3>4, <3>5, ZenonT(40)
  <2>7. \A l, m \in Rendered(L) :
          l.path # <<>> /\ (l # m => <<l.path, l.exact>> # <<m.path, m.exact>>)
    BY <2>4, <2>5, RenderedOnce, Zenon
  <2> QED
    BY <2>1, <2>4, <2>6, <2>7, ZenonT(40)
<1> QED
  BY <1>6, Zenon DEF Accepted

\* An update fails only if nothing is wanted or a backend is not a service, and what it
\* writes is accepted by nginx, unless an entry is malformed.
THEOREM FailureHasACause ==
  ASSUME ValuesFollowNames
  PROVE  Spec => []RefusedOnlyIfMalformed
<1>1. ASSUME Inv PROVE RefusedOnlyIfMalformed
  <2>1. /\ cluster \in Clusters /\ services \in ServiceMaps /\ Wanted = Served(cluster, services)
        /\ result = "error" => Wanted = {} \/ Panicking
    BY <1>1, ResultIsRight, Zenon DEF Inv
  <2>2. ASSUME result = "nil", \A e \in Wanted : ~Malformed(e) PROVE Accepted(conf)
    <3>1. PICK list \in GetIngresses(cluster) :
            conf \in createConfig(Entries(list, cluster, services))
      BY <1>1, <2>2 DEF Inv
    <3> QED
      BY <2>1, <2>2, <3>1, AcceptedIfFormed, Zenon
  <2> QED
    BY <2>1, <2>2, Zenon DEF RefusedOnlyIfMalformed
<1>2. Inv => RefusedOnlyIfMalformed
  BY <1>1
<1> QED
  BY Invariance, <1>2, PTL

-----------------------------------------------------------------------------
(* What a step changes.                                                     *)

\* What the invariant implies, as a state predicate, to be used before and after a step.
Settled ==
  /\ Inv
  /\ Wanted = Served(cluster, services)
  /\ result = "nil" => Wanted # {}
  /\ result = "error" => Wanted = {} \/ Panicking
  /\ result = "nil" /\ ~Surrogates => Right

\* Every state is settled: what the two action properties need of both ends of a step.
LEMMA AlwaysSettled ==
  ASSUME ValuesFollowNames
  PROVE  Spec => []Settled
<1>1. Inv => Settled
  BY ResultIsRight, ConfigIsRight, Zenon DEF Settled
<1> QED
  BY Invariance, <1>1, PTL

\* A step is an update, which leaves nginx.conf alone if it fails.
LEMMA StepResult ==
  ASSUME [Next]_vars
  PROVE  \/ UNCHANGED <<conf, result>>
         \/ result' = "nil"
         \/ result' = "error" /\ conf' = conf
<1>1. ASSUME NEW c, NEW s, updateIngresses(c, s)
      PROVE  result' = "nil" \/ (result' = "error" /\ conf' = conf)
  BY <1>1 DEF updateIngresses
<1> QED
  BY <1>1, Zenon DEF Next, EditIngress, EditService, Resync, vars

\* An entry names its ingress.
LEMMA EntryNamesIngress ==
  ASSUME NEW n, NEW i, NEW s, NEW e \in EntriesOf(n, i, s)
  PROVE  e.ingress = n
<1>1. PICK x \in HostPaths(i) : e = EntryOf(n, i, s, x)
  BY DEF EntriesOf
<1>2. EntryOf(n, i, s, x).ingress = n
  BY Zenon DEF EntryOf, Entry
<1> QED
  BY <1>1, <1>2

\* An entry stays as long as its ingress does not change.
LEMMA EntryStays ==
  ASSUME NEW c, NEW d, NEW s, NEW e \in Served(c, s), d[e.ingress] = c[e.ingress]
  PROVE  e \in Served(d, s)
<1>1. PICK n \in Listed(c) : e \in EntriesOf(n, c[n], s)
  BY Zenon DEF Served
<1>2. e.ingress = n
  BY <1>1, EntryNamesIngress, Zenon
<1>3. n \in Listed(d) /\ e \in EntriesOf(n, d[n], s)
  BY <1>1, <1>2, Zenon DEF Listed
<1> QED
  BY <1>3 DEF Served

\* An ingress that is not adopted has no entries.
LEMMA OnlyAdopted ==
  ASSUME ValuesFollowNames, NEW c, NEW s, NEW e \in Served(c, s)
  PROVE  e.ingress \in Ingresses /\ AdoptedIn(c, e.ingress)
<1>1. PICK n \in Listed(c) : e \in EntriesOf(n, c[n], s)
  BY Zenon DEF Served
<1>2. e.ingress = n
  BY <1>1, EntryNamesIngress, Zenon
<1>3. n \in Ingresses /\ ingressClassSupported(c[n])
  BY <1>1 DEF EntriesOf, Listed
<1> QED
  BY <1>2, <1>3, AdoptedListed, Zenon

\* The ingresses of others change neither nginx.conf nor the result of updates.
THEOREM OthersAreIgnored ==
  ASSUME ValuesFollowNames
  PROVE  Spec => OthersIgnored
<1>1. Settled /\ Settled' /\ [Next]_vars =>
        [\A n \in Ingresses :
           /\ \A m \in Ingresses \ {n} : cluster'[m] = cluster[m]
           /\ ~Adopted(n) /\ ~Adopted(n)'
           /\ result # "none" /\ UNCHANGED services
           /\ ~Panicking /\ ~Panicking' /\ ~Surrogates
           => UNCHANGED <<conf, result>>]_vars
  <2> SUFFICES ASSUME Settled, Settled', [Next]_vars,
                      NEW n \in Ingresses,
                      \A m \in Ingresses \ {n} : cluster'[m] = cluster[m],
                      ~Adopted(n), ~Adopted(n)',
                      result # "none", UNCHANGED services,
                      ~Panicking, ~Panicking', ~Surrogates
               PROVE  UNCHANGED <<conf, result>>
    BY Zenon
  <2>1. ~AdoptedIn(cluster, n) /\ ~AdoptedIn(cluster', n)
    BY WantedOfState, Zenon
  <2>2. ASSUME NEW c, NEW d, NEW s, \A m \in Ingresses \ {n} : d[m] = c[m], ~AdoptedIn(c, n)
        PROVE  Served(c, s) \subseteq Served(d, s)
    <3> SUFFICES ASSUME NEW e \in Served(c, s) PROVE e \in Served(d, s)
      BY Zenon
    <3>1. e.ingress \in Ingresses \ {n}
      BY <2>2, OnlyAdopted
    <3> QED
      BY <2>2, <3>1, EntryStays, Zenon
  <2>3. Wanted' = Wanted
    <3>1. Wanted = Served(cluster, services) /\ Wanted' = Served(cluster', services)
      BY DEF Settled
    <3>2. Served(cluster, services) \subseteq Served(cluster', services)
      BY <2>1, <2>2, Zenon
    <3>3. Served(cluster', services) \subseteq Served(cluster, services)
      BY <2>1, <2>2
    <3> QED
      BY <3>1, <3>2, <3>3, Zenon
  <2>4. ~Surrogates'
    BY <2>3, Zenon DEF Surrogates
  <2>5. result \in {"nil", "error"}
    BY Zenon DEF Settled, Inv
  <2>6. CASE result = "nil"
    <3>1. Wanted # {} /\ Right
      BY <2>6, Zenon DEF Settled
    <3>2. result' # "error"
      BY <2>3, <3>1, Zenon DEF Settled
    <3>3. CASE result' = "nil"
      <4>1. Right'
        BY <2>4, <3>3 DEF Settled
      <4>2. conf' = conf
        BY <2>3, <3>1, <4>1, ZenonT(40) DEF Right
      <4> QED
        BY <2>6, <3>3, <4>2, Zenon
    <3> QED
      BY <3>2, <3>3, StepResult, Zenon
  <2>7. CASE result = "error"
    <3>1. Wanted = {}
      BY <2>7, Zenon DEF Settled
    <3>2. result' # "nil"
      BY <2>3, <3>1, Zenon DEF Settled
    <3> QED
      BY <2>7, <3>2, StepResult, Zenon
  <2> QED
    BY <2>5, <2>6, <2>7
<1> QED
  BY AlwaysSettled, <1>1, PTL DEF Spec, OthersIgnored

\* A location of nginx.conf is that of the entry that leads its route.
LEMMA LocationLeads ==
  ASSUME NEW W, \A r \in RoutesOf(W) :
                  FirstOf(W, r) \in W /\ Route(FirstOf(W, r)) = r /\ Leads(W, FirstOf(W, r)),
         NEW h \in DOMAIN ServersOf(W), NEW l \in ServersOf(W)[h]
  PROVE  \E e \in W : l = Location(e) /\ e.host = h /\ Leads(W, e)
<1>1. PICK r \in RoutesOf(W) : r[1] = h /\ l = Location(FirstOf(W, r))
  BY Zenon DEF ServersOf
<1>2. Route(FirstOf(W, r))[1] = FirstOf(W, r).host
  BY Zenon DEF Route
<1> QED
  BY <1>1, <1>2, Zenon

\* Each entry's route has the location of the entry that leads it.
LEMMA RouteHasLocation ==
  ASSUME NEW W, NEW e \in W
  PROVE  /\ Route(e) \in RoutesOf(W)
         /\ Location(FirstOf(W, Route(e))) \in ServersOf(W)[e.host]
<1>1. Route(e) \in RoutesOf(W) /\ Route(e)[1] = e.host
  BY Zenon DEF RoutesOf, Route
<1>2. ServersOf(W)[e.host]
        = {Location(FirstOf(W, r)) : r \in {x \in RoutesOf(W) : x[1] = e.host}}
  BY <1>1 DEF ServersOf
<1> QED
  BY <1>1, <1>2, Zenon

\* A change of some ingress takes from another one only the hosts and paths that it
\* wants itself and comes first for.
THEOREM OthersStay ==
  ASSUME ValuesFollowNames
  PROVE  Spec => OthersUndisturbed
<1>1. Settled /\ Settled' /\ [Next]_vars =>
        [result = "nil" /\ result' = "nil" /\ ~Surrogates /\ ~Surrogates' /\ UNCHANGED services =>
           \A h \in DOMAIN conf.servers : \A l \in conf.servers[h] :
             cluster'[Owner(l)] = cluster[Owner(l)] =>
               \/ /\ l \in conf'.servers[h]
                  /\ conf'.upstreams[l.upstream] = conf.upstreams[l.upstream]
               \/ \E m \in conf'.servers[h] :
                    /\ m.path = l.path
                    /\ Owner(m) < Owner(l) /\ cluster'[Owner(m)] # cluster[Owner(m)]]_vars
  <2> SUFFICES ASSUME Settled, Settled',
                      result = "nil", result' = "nil", ~Surrogates, ~Surrogates',
                      UNCHANGED services,
                      NEW h \in DOMAIN conf.servers, NEW l \in conf.servers[h],
                      cluster'[Owner(l)] = cluster[Owner(l)]
               PROVE  \/ /\ l \in conf'.servers[h]
                         /\ conf'.upstreams[l.upstream] = conf.upstreams[l.upstream]
                      \/ \E m \in conf'.servers[h] :
                           /\ m.path = l.path
                           /\ Owner(m) < Owner(l) /\ cluster'[Owner(m)] # cluster[Owner(m)]
    BY Zenon
  <2> DEFINE W == Wanted
             V == Wanted'
  <2>1. /\ W = Served(cluster, services) /\ V = Served(cluster', services)
        /\ cluster \in Clusters /\ cluster' \in Clusters /\ services \in ServiceMaps
    BY Zenon DEF Settled, Inv
  <2>2. NoTies(W) /\ NoTies(V)
    BY Zenon DEF Surrogates, NoTies
  <2>3. /\ conf.servers = ServersOf(W) /\ conf.upstreams = UpstreamsOf(W)
        /\ conf'.servers = ServersOf(V) /\ conf'.upstreams = UpstreamsOf(V)
    <3>1. Right /\ Right'
      BY Zenon DEF Settled
    <3>2. /\ conf = [servers |-> ServersOf(W), upstreams |-> UpstreamsOf(W)]
          /\ conf' = [servers |-> ServersOf(V), upstreams |-> UpstreamsOf(V)]
      BY <3>1, Zenon DEF Right
    <3> HIDE DEF W, V
    <3> QED
      BY <3>2
  <2>4. /\ \A r \in RoutesOf(W) :
             FirstOf(W, r) \in W /\ Route(FirstOf(W, r)) = r /\ Leads(W, FirstOf(W, r))
        /\ \A r \in RoutesOf(V) :
             FirstOf(V, r) \in V /\ Route(FirstOf(V, r)) = r /\ Leads(V, FirstOf(V, r))
        /\ \A e \in W : UpstreamsOf(W)[upstreamID(e)] = UpstreamOf(e)
        /\ \A e \in V : UpstreamsOf(V)[upstreamID(e)] = UpstreamOf(e)
    BY ZenonT(40) DEF Settled, Right
  <2> HIDE DEF W, V
  <2>5. \A e : Owner(Location(e)) = e.ingress /\ Location(e).path = NginxPath(e)
               /\ Location(e).upstream = upstreamID(e)
    BY Zenon DEF Owner, Location, upstreamID
  <2>6. PICK e \in W : l = Location(e) /\ e.host = h /\ Leads(W, e)
    BY <2>3, <2>4, LocationLeads, ZenonT(40)
  <2>7. e \in V
    BY <2>1, <2>5, <2>6, EntryStays, ZenonT(40)
  <2> DEFINE g == FirstOf(V, Route(e))
  <2>8. /\ g \in V /\ Route(g) = Route(e) /\ Leads(V, g)
        /\ Location(g) \in conf'.servers[h]
    BY <2>3, <2>4, <2>6, <2>7, RouteHasLocation, ZenonT(40)
  <2> HIDE DEF g
  <2>9. CASE g = e
    BY <2>3, <2>4, <2>5, <2>6, <2>7, <2>8, <2>9, ZenonT(40)
  <2>10. CASE g # e
    <3>1. Less(Order(g), Order(e))
      BY <2>7, <2>8, <2>10, Zenon DEF Leads
    <3>2. g \notin W
      BY <2>1, <2>2, <2>6, <2>8, <2>10, <3>1, Ordered, ZenonT(40) DEF Leads
    <3>3. cluster'[g.ingress] # cluster[g.ingress]
      BY <2>1, <2>8, <3>2, EntryStays, ZenonT(40)
    <3>4. g.ingress <= e.ingress /\ g.ingress \in Int /\ e.ingress \in Int
      <4>1. g.ingress <= e.ingress
        BY <2>1, <2>2, <2>7, <2>8, <3>1, Ordered, Zenon
      <4> QED
        BY <2>1, <2>7, <2>8, <4>1, EntryShape, ZenonT(40)
    <3>5. g.ingress # e.ingress
      BY <2>5, <2>6, <3>3, ZenonT(40)
    <3>6. NginxPath(g) = NginxPath(e)
      <4>1. \A x : Route(x)[2] = NginxPath(x)
        BY Zenon DEF Route
      <4> QED
        BY <2>8, <4>1, Zenon
    <3>7. /\ Location(g).path = l.path
          /\ Owner(Location(g)) < Owner(l)
          /\ cluster'[Owner(Location(g))] # cluster[Owner(Location(g))]
      BY <2>5, <2>6, <3>3, <3>4, <3>5, <3>6
    <3> QED
      BY <2>8, <3>7, ZenonT(40)
  <2> QED
    BY <2>9, <2>10
<1> QED
  BY AlwaysSettled, <1>1, PTL DEF Spec, OthersUndisturbed
=============================================================================
