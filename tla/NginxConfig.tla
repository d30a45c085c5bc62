---------------------------- MODULE NginxConfig -----------------------------
(***************************************************************************)
(* The configuration that createConfig (nginx/nginx.go) and nginx.tmpl     *)
(* make of the entries: one server per host, one location per host and     *)
(* path, one upstream per ingress, address and port.  Lists that the code  *)
(* sorts by a key without duplicates are functions or sets.                *)
(***************************************************************************)
EXTENDS IngressEntries

\* Mutant: only the trailing slash is normalised.
TrimSuffixOnly(raw, exact) ==
  IF exact \/ raw = <<>> THEN raw
  ELSE IF raw[Len(raw)] = "/" THEN raw ELSE Append(raw, "/")

createNginxPath(raw, exact) ==
  LET p == IF raw # <<>> /\ Head(raw) = "/" THEN Tail(raw) ELSE raw
      q == IF p # <<>> /\ p[Len(p)] = "/" THEN SubSeq(p, 1, Len(p) - 1) ELSE p
  IN CASE exact    -> raw
       [] ~exact /\ q = <<>> -> <<"/">>
       [] ~exact /\ q # <<>> -> <<"/">> \o q \o <<"/">>

NginxPath(e) == createNginxPath(RawPaths[e.path], e.exact)

\* string(int32): the code points of surrogates all become U+FFFD.
rune(port) == IF port \in 55296..57343 THEN 65533 ELSE port

\* The string by which uniqueIngressEntries sorts, field by field.
SortKey(e) == <<e.ingress, e.host, e.path, e.address, rune(e.port)>>

Less(s, t) ==
  \E k \in DOMAIN s : s[k] < t[k] /\ \A j \in 1..k - 1 : s[j] = t[j]

\* Mutant: the entries stay in the order of the list.
Unsorted(entries) == {entries}

\* The outcomes of sort.Slice, which is not stable: entries with equal keys are in
\* any order.
Sorted(entries) ==
  LET InOrder(order) ==
        \A j, k \in DOMAIN order :
          j < k => ~Less(SortKey(entries[order[k]]), SortKey(entries[order[j]]))
  IN {[k \in DOMAIN entries |-> entries[order[k]]]
        : order \in {o \in Orders(DOMAIN entries) : InOrder(o)}}

\* The map uniqueIngress: the first entry of each host and nginx path.
uniqueIngressEntries(sorted) ==
  LET key == [k \in DOMAIN sorted |-> <<sorted[k].host, NginxPath(sorted[k])>>]
  IN [x \in Range(key) |-> sorted[Min({k \in DOMAIN key : key[k] = x})]]

\* Mutant: the ingress is not part of the ID.
upstreamOfService(e) == <<e.address, e.port>>

upstreamID(e) == <<e.ingress, e.address, e.port>>

\* The map idToUpstream: the last entry of each ID.
createUpstreamEntries(sorted) ==
  LET id == [k \in DOMAIN sorted |-> upstreamID(sorted[k])]
  IN [x \in Range(id) |->
        LET e == sorted[Max({k \in DOMAIN id : id[k] = x})]
        IN [server |-> <<e.address, e.port>>, maxConnections |-> e.maxConnections]]

Location(e) ==
  [path |-> NginxPath(e), exact |-> e.exact, upstream |-> upstreamID(e), allow |-> e.allow,
   strip |-> e.strip, timeout |-> e.timeout, blocks |-> e.blocks]

createServerEntries(sorted) ==
  LET unique == uniqueIngressEntries(sorted)
  IN [h \in {key[1] : key \in DOMAIN unique} |->
        {Location(unique[key]) : key \in {k \in DOMAIN unique : k[1] = h}}]

\* createConfig; createServerEntries sorts the slice that createUpstreamEntries reads.
createConfig(entries) ==
  {[servers |-> createServerEntries(s), upstreams |-> createUpstreamEntries(s)]
     : s \in Sorted(entries)}

HasRootLocation(locations) == \E l \in locations : l.path = <<"/">>

\* The locations of a server in nginx.tmpl, by path, modifier and what they do: those
\* of the entries, and a 404 for "/".
Rendered(locations) ==
  {[path |-> l.path, exact |-> l.exact, to |-> l.upstream] : l \in locations}
    \cup {l \in {[path |-> <<"/">>, exact |-> FALSE, to |-> <<>>]} : ~HasRootLocation(locations)}

\* "nginx -t" (external): a location has a path and is there once; its numbers are
\* in range; its upstream is defined.
Accepted(conf) ==
  \A h \in DOMAIN conf.servers :
    /\ \A l, m \in Rendered(conf.servers[h]) :
         /\ l.path # <<>>
         /\ l # m => <<l.path, l.exact>> # <<m.path, m.exact>>
    /\ \A l \in conf.servers[h] :
         /\ l.timeout >= 0 /\ l.blocks >= 2
         /\ l.upstream \in DOMAIN conf.upstreams
         /\ conf.upstreams[l.upstream].maxConnections >= 0
=============================================================================
