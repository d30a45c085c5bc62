------------------------------ MODULE Frontend ------------------------------
(***************************************************************************)
(* What an updater that attaches this instance to load balancers promises  *)
(* to the controller (controller/updater.go), whatever the kind of load    *)
(* balancer: the instance is attached only by an Update and detached only  *)
(* by Stop, and a Stop that returns nil, with no Update beside it or after *)
(* it, leaves the instance attached only to what the updater has lost      *)
(* track of.                                                               *)
(***************************************************************************)
CONSTANT Endpoints

VARIABLES
  attached,  \* endpoints that send traffic to this instance
  forgotten, \* endpoints the updater has lost track of
  updating,  \* an Update is attaching
  stop,      \* no Stop yet, one that runs, or its result
  late       \* an Update was attaching while Stop ran or after it

vars == <<attached, forgotten, updating, stop, late>>

Init ==
  /\ attached = {} /\ forgotten = {}
  /\ updating = FALSE /\ stop = "idle" /\ late = FALSE

BeginUpdate ==
  /\ ~updating /\ updating' = TRUE
  /\ late' = (late \/ stop # "idle")
  /\ UNCHANGED <<attached, forgotten, stop>>

\* An Update attaches, loses track of endpoints, or returns.
Attach ==
  /\ updating /\ updating' \in BOOLEAN
  /\ attached \subseteq attached' /\ attached' \subseteq Endpoints
  /\ forgotten' \subseteq Endpoints
  /\ UNCHANGED <<stop, late>>

BeginStop ==
  /\ stop = "idle" /\ stop' = "running"
  /\ late' = updating
  /\ UNCHANGED <<attached, forgotten, updating>>

\* A Stop detaches, or gives up on an endpoint.
Detach ==
  /\ stop = "running"
  /\ attached' \subseteq attached
  /\ forgotten \subseteq forgotten' /\ forgotten' \subseteq Endpoints
  /\ UNCHANGED <<updating, stop, late>>

EndStop ==
  /\ stop = "running" /\ stop' \in {"nil", "error"}
  /\ stop' = "nil" /\ ~late => attached \subseteq forgotten
  /\ UNCHANGED <<attached, forgotten, updating, late>>

Next == BeginUpdate \/ Attach \/ BeginStop \/ Detach \/ EndStop

Spec == Init /\ [][Next]_vars
=============================================================================
