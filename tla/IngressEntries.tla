--------------------------- MODULE IngressEntries ---------------------------
(***************************************************************************)
(* How updateIngresses (controller/controller.go) makes entries of the     *)
(* ingresses and services that the Kubernetes client lists: the selection  *)
(* of namespaces (k8s/client.go), the class of an ingress, its annotations *)
(* and the validation of an entry (controller/ingress_entry.go).           *)
(*                                                                         *)
(* Strings are model values or numbers.  An ingress is known by its place  *)
(* in the order of "namespace:name:", a path by its place in RawPaths,     *)
(* hosts and addresses by numbers in their order.                          *)
(***************************************************************************)
EXTENDS Integers, Sequences, FiniteSets, FiniteSetsExt, Functions

CONSTANTS
  Name,              \* c.name
  IncludeClassless,  \* c.includeClasslessIngresses
  Selectors,         \* c.namespaceSelectors, pairs of a label and a value
  MatchAll,          \* c.matchAllNamespaceSelectors
  Labels,            \* the labels of each namespace, a set of pairs
  NamespaceOf,       \* the namespace of each ingress
  Absent,            \* no such object or annotation
  Garbage            \* a text that is not a number

Ingresses == DOMAIN NamespaceOf

NoHost    == 0   \* ""
NoAddress == 0   \* the ClusterIP ""
Headless  == 99  \* the ClusterIP "None"
NoService == "a backend that is not a service"
BadChar   == "a character that no path has"

\* The texts of paths, in the order of "path:", which the names of hosts and
\* addresses do not change.
RawPaths == << <<"/", "/">>, <<"/">>, <<"/", BadChar>>, <<"/", "a", "/">>, <<"/", "a">>,
               <<>>, <<"a">> >>

\* The lists that have each element of S once.
Orders(S) == Injection(1..Cardinality(S), S)

\* What a loop appends to an empty list, turn by turn.
AppendAll(lists) ==
  LET upTo[k \in 1..Len(lists)] == IF k = 1 THEN lists[k] ELSE upTo[k - 1] \o lists[k]
  IN IF Len(lists) = 0 THEN <<>> ELSE upTo[Len(lists)]

-----------------------------------------------------------------------------
(* k8s/client.go.                                                           *)

\* filterNamespacesMatchingAllLabels tests the labels and not their values.
MatchesAllLabels(namespace) ==
  \A s \in Selectors : \E l \in Labels[namespace] : l[1] = s[1]

MatchesAnyLabel(namespace) == Selectors \cap Labels[namespace] # {}

\* Mutant: the result of supportedNamespaces is not used.
supportedAnyway(namespace) == TRUE

supportedNamespace(namespace) ==
  \/ Selectors = {}
  \/ IF MatchAll THEN MatchesAllLabels(namespace) ELSE MatchesAnyLabel(namespace)

\* GetIngresses: the store is listed in any order.
GetIngresses(cluster) ==
  Orders({n \in Ingresses : cluster[n] # Absent /\ supportedNamespace(NamespaceOf[n])})

-----------------------------------------------------------------------------
(* Annotations.                                                             *)

\* "true", "false", or the default.
Flag(annotation, default) ==
  CASE annotation = "true"  -> TRUE
    [] annotation = "false" -> FALSE
    [] OTHER -> default

\* The error of strconv.Atoi is ignored.
Atoi(text) == IF text = Garbage THEN 0 ELSE text

Number(annotation, default) == IF annotation = Absent THEN default ELSE Atoi(annotation)

Capped(annotation, default, most) ==
  IF Number(annotation, default) > most /\ annotation # Absent THEN most
  ELSE Number(annotation, default)

maxAllowedProxyBufferBlocks == 8

\* Defaults of the flags.
DefaultAllow         == {"0.0.0.0/0"}
DefaultTimeout       == 10
DefaultBufferBlocks  == 4
InvalidAllow         == {"an address that does not parse"}

\* The entry of one path of one rule; the other annotations (scheme, keepalive,
\* requests per connection, buffer size) are set in the same ways.
Entry(n, ingress, host, path, address) ==
  [ingress |-> n, host |-> host, path |-> path.path, address |-> address, port |-> path.port,
   allow   |-> IF ingress.allow = Absent THEN DefaultAllow ELSE ingress.allow,
   strip   |-> Flag(ingress.strip, FALSE),
   exact   |-> Flag(ingress.exact, FALSE),
   timeout |-> Number(ingress.timeout, DefaultTimeout),
   maxConnections |-> Number(ingress.maxConnections, 0),
   blocks  |-> Capped(ingress.blocks, DefaultBufferBlocks, maxAllowedProxyBufferBlocks)]

-----------------------------------------------------------------------------
isPathValid(path) == \A k \in DOMAIN RawPaths[path] : RawPaths[path][k] # BadChar

\* An empty path is valid.
validate(e) ==
  /\ e.host # NoHost
  /\ e.address \notin {NoAddress, Headless}
  /\ e.port # 0
  /\ isPathValid(e.path)
  /\ e.allow \cap InvalidAllow = {}

ingressClassSupported(ingress) ==
  IF ingress.class = Absent THEN IncludeClassless ELSE ingress.class = Name

\* The rules with an HTTP key, and their paths, in order: pairs of host and path.
Paths(ingress) ==
  AppendAll([r \in DOMAIN ingress.rules |->
    IF ingress.rules[r].http
    THEN [p \in DOMAIN ingress.rules[r].paths |->
            [host |-> ingress.rules[r].host, path |-> ingress.rules[r].paths[p]]]
    ELSE <<>>])

\* serviceNamesToClusterIPs, and a look-up in it.
serviceAddress(services, namespace, name) ==
  IF <<namespace, name>> \in DOMAIN services /\ services[<<namespace, name>>] # Absent
  THEN services[<<namespace, name>>] ELSE NoAddress

\* The entries of one ingress: paths without a service, of an unsupported class
\* or invalid are skipped, the others appended.
IngressEntriesOf(n, ingress, services) ==
  LET paths == Paths(ingress)
      entry(k) == Entry(n, ingress, paths[k].host, paths[k].path,
                        serviceAddress(services, NamespaceOf[n], paths[k].path.service))
  IN AppendAll([k \in DOMAIN paths |->
       IF /\ entry(k).address # NoAddress
          /\ ingressClassSupported(ingress) /\ validate(entry(k))
       THEN <<entry(k)>> ELSE <<>>])

\* path.Backend.Service is nil: the panic is recovered and the update has failed.
Panics(ingress) ==
  \E p \in Range(Paths(ingress)) : p.path.service = NoService

\* updateIngresses returns an error before it calls an updater.
ReadFails(list, cluster, services) ==
  \/ list = <<>>
  \/ \A s \in DOMAIN services : services[s] = Absent
  \/ \E k \in DOMAIN list : Panics(cluster[list[k]])

Entries(list, cluster, services) ==
  AppendAll([k \in DOMAIN list |-> IngressEntriesOf(list[k], cluster[list[k]], services)])
=============================================================================
