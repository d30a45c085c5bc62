------------------------------ MODULE Routing -------------------------------
(***************************************************************************)
(* From the cluster to nginx.conf: ingresses and services come, change and *)
(* go, and after every change, and at every resync, updateIngresses lists  *)
(* them in some order and nginxUpdater.Update writes the configuration of  *)
(* its entries.  When an update is made, and what nginx does with the      *)
(* file, are the business of Watcher, Controller and NginxUpdater.         *)
(***************************************************************************)
EXTENDS NginxConfig

CONSTANTS
  Shapes,     \* what each ingress can be, a function of the ingress
  Addresses,  \* what the ClusterIP of each service can be, a function of the service
  MaxEdits    \* bound: changes of the cluster after the program has started

\* An ingress as the API has it: rules with lists of paths, ports that are numbers.
\* An annotation that should be a number is one, or another text.
IsIngress(i) ==
  /\ i.rules \in Seq(Range(i.rules))
  /\ \A r \in Range(i.rules) :
       /\ r.host \in Int /\ r.paths \in Seq(Range(r.paths))
       /\ \A p \in Range(r.paths) : p.path \in DOMAIN RawPaths /\ p.port \in Int
  /\ {i.timeout, i.maxConnections, i.blocks} \subseteq Int \cup {Absent, Garbage}

ASSUME RoutingAssumption ==
  /\ Ingresses \subseteq Int /\ IsFiniteSet(Ingresses)
  /\ Name # Absent
  /\ \A n \in Ingresses : \A i \in Shapes[n] \ {Absent} : IsIngress(i)
  /\ \A x \in DOMAIN Addresses : Addresses[x] \subseteq Int \cup {Absent}

VARIABLES
  cluster,   \* the ingresses in the cluster
  services,  \* the ClusterIPs of its services
  conf,      \* nginx.conf
  result,    \* of the last update: "nil", "error", or "none" before the first one
  edits      \* number of changes so far (bounded by MaxEdits)

vars == <<cluster, services, conf, result, edits>>

NoConf == [servers |-> <<>>, upstreams |-> <<>>]

\* All functions that map each element of D into its own set of values.
Assignments(D, values) ==
  {f \in [D -> UNION {values[x] : x \in D}] : \A x \in D : f[x] \in values[x]}

Init ==
  /\ cluster \in Assignments(Ingresses, Shapes)
  /\ services \in Assignments(DOMAIN Addresses, Addresses)
  /\ conf = NoConf /\ result = "none" /\ edits = 0

-----------------------------------------------------------------------------
\* updateIngresses of the ingresses c and the services s; nginx refuses 0 entries.
updateIngresses(c, s) ==
  /\ cluster' = c /\ services' = s
  /\ \E list \in GetIngresses(c) : \E entries \in {Entries(list, c, s)} :
       \/ /\ ReadFails(list, c, s) \/ entries = <<>>
          /\ result' = "error" /\ UNCHANGED conf
       \/ /\ ~ReadFails(list, c, s) /\ entries # <<>>
          /\ result' = "nil" /\ conf' \in createConfig(entries)

\* A change before the first update is another initial state.
Edits == result # "none" /\ edits < MaxEdits /\ edits' = edits + 1

EditIngress(n) ==
  /\ Edits
  /\ \E c \in {[cluster EXCEPT ![n] = i] : i \in Shapes[n] \ {cluster[n]}} :
       updateIngresses(c, services)

EditService(x) ==
  /\ Edits
  /\ \E s \in {[services EXCEPT ![x] = a] : a \in Addresses[x] \ {services[x]}} :
       updateIngresses(cluster, s)

Resync == UNCHANGED edits /\ updateIngresses(cluster, services)

Next ==
  \/ \E n \in Ingresses : EditIngress(n)
  \/ \E s \in DOMAIN Addresses : EditService(s)
  \/ Resync

Spec == Init /\ [][Next]_vars

-----------------------------------------------------------------------------
(* What should be served, without lists, orders and maps.                   *)

\* This instance is asked to serve the ingress: its class is the instance's, and
\* its namespace has one of the labels (or all of them).
Adopted(n) ==
  /\ cluster[n] # Absent
  /\ cluster[n].class = Name \/ (cluster[n].class = Absent /\ IncludeClassless)
  /\ \/ Selectors = {}
     \/ IF MatchAll THEN Selectors \subseteq Labels[NamespaceOf[n]]
        ELSE \E l \in Labels[NamespaceOf[n]] : l \in Selectors

\* The entries of adopted ingresses that name a host, a port and a service with
\* an address, and have no illegal text.
Wanted ==
  {e \in UNION {UNION {{Entry(n, cluster[n], r.host, p,
                             serviceAddress(services, NamespaceOf[n], p.service))
                         : p \in Range(r.paths)}
                      : r \in {x \in Range(cluster[n].rules) : x.http}}
               : n \in {m \in Ingresses : Adopted(m)}} :
     /\ e.host # NoHost /\ e.port # 0
     /\ e.address \notin {NoAddress, Headless}
     /\ BadChar \notin Range(RawPaths[e.path])
     /\ e.allow \cap InvalidAllow = {}}

\* "Namespace, Name, Host, Path, Service, Port".
Order(e) == <<e.ingress, e.host, e.path, e.address, e.port>>

\* The entry that a host and a path belong to.
First(route) ==
  LET rivals == {e \in Wanted : <<e.host, NginxPath(e)>> = route}
  IN CHOOSE e \in rivals : \A f \in rivals : e = f \/ Less(Order(e), Order(f))

\* Two entries differ in their ports only, and one of these is a surrogate, which
\* string(port) turns into U+FFFD.
Surrogates ==
  \E e \in Wanted : /\ rune(e.port) # e.port
                     /\ \E f \in Wanted \ {e} : f = [e EXCEPT !.port = f.port]

\* An entry that validate lets pass and nginx does not: an exact path that is
\* empty, or a number that is out of range, as is the 0 of a text that does not parse.
Malformed(e) ==
  \/ e.exact /\ RawPaths[e.path] = <<>>
  \/ e.blocks < 2 \/ e.timeout < 0 \/ e.maxConnections < 0

\* A listed ingress has a backend that is not a service.
Panicking == \E n \in Ingresses : cluster[n] # Absent /\ Panics(cluster[n])

Owner(location) == location.upstream[1]

-----------------------------------------------------------------------------
\* nginx.conf has one location for each host and path that some adopted ingress
\* asks for, made from the first entry in the order of CHANGELOG v1.1.1, and the
\* location's upstream is the service, the port and the connection limit of that
\* same entry.  So deduping is deterministic: an update of an unchanged cluster
\* leaves the file as it is, in whatever order the informer store lists it.
RoutesToTheFirst ==
  result = "nil" /\ ~Surrogates =>
    LET routes == {<<e.host, NginxPath(e)>> : e \in Wanted}
    IN /\ conf.servers = [h \in {r[1] : r \in routes} |->
                            {Location(First(r)) : r \in {x \in routes : x[1] = h}}]
       /\ DOMAIN conf.upstreams = {upstreamID(e) : e \in Wanted}
       /\ \A e \in Wanted :
            conf.upstreams[upstreamID(e)] =
              [server |-> <<e.address, e.port>>, maxConnections |-> e.maxConnections]

\* A change of some ingress changes no location and no upstream of another one,
\* except that it takes over a host and path if it comes before it.
OthersUndisturbed ==
  [][result = "nil" /\ result' = "nil" /\ ~Surrogates /\ ~Surrogates' /\ UNCHANGED services =>
       \A h \in DOMAIN conf.servers : \A l \in conf.servers[h] :
         cluster'[Owner(l)] = cluster[Owner(l)] =>
           \/ /\ l \in conf'.servers[h]
              /\ conf'.upstreams[l.upstream] = conf.upstreams[l.upstream]
           \/ \E m \in conf'.servers[h] :
                /\ m.path = l.path
                /\ Owner(m) < Owner(l) /\ cluster'[Owner(m)] # cluster[Owner(m)]]_vars

\* Ingresses of other classes and of namespaces that are not selected change
\* neither nginx.conf nor whether updates succeed, unless they have a backend that
\* is not a service: the panic comes before the class is looked at.
OthersIgnored ==
  [][\A n \in Ingresses :
       /\ \A m \in Ingresses \ {n} : cluster'[m] = cluster[m]
       /\ ~Adopted(n) /\ ~Adopted(n)'
       /\ result # "none" /\ UNCHANGED services
       /\ ~Panicking /\ ~Panicking' /\ ~Surrogates
       => UNCHANGED <<conf, result>>]_vars

\* An update fails only if nothing is wanted or a backend is not a service, and
\* nginx accepts every configuration without a malformed entry: locations are
\* there once, have a path, and refer to an upstream.
RefusedOnlyIfMalformed ==
  /\ result = "error" => Wanted = {} \/ Panicking
  /\ result = "nil" => Accepted(conf) \/ \E e \in Wanted : Malformed(e)
=============================================================================
