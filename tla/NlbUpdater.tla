----------------------------- MODULE NlbUpdater -----------------------------
(***************************************************************************)
(* The NLB updater (nlb/nlb.go): like the ELB updater it attaches on the   *)
(* first Update that succeeds, but to every target group of one load       *)
(* balancer per scheme, and it reports itself ready five minutes later.    *)
(* A load balancer stands for its scheme and its target groups.            *)
(*                                                                         *)
(* An AWS call that returns an error may have taken effect.                *)
(***************************************************************************)
EXTENDS Naturals, FiniteSets

CONSTANTS
  Internal, Facing,  \* load balancers of the two schemes, sets of target groups
  Lambda,            \* the target groups of an unsupported target type
  Expected,          \* e.expectedNumber
  MaxChanges,        \* bound: changes of tags
  MaxFailures        \* bound: calls that fail

LBs == Internal \cup Facing
TargetGroups == UNION LBs

ASSUME NlbAssumption ==
  /\ Expected \in Nat /\ MaxChanges \in Nat /\ MaxFailures \in Nat
  /\ IsFiniteSet(LBs) /\ \A lb \in LBs : IsFiniteSet(lb)
  /\ Internal \cap Facing = {}
  /\ \A x, y \in LBs : x # y => x \cap y = {}   \* a target group has one load balancer

VARIABLES
  tagged,              \* AWS: load balancers with the required tags
  registered,          \* AWS: target groups this instance is registered with
  loadBalancers,       \* e.loadBalancers
  done,                \* e.initialised.done
  registeredFrontends, \* e.registeredFrontends
  ready,               \* e.readyForHealthCheck
  isReady,             \* e.isReady
  timer,               \* the goroutine that sets it five minutes later is asleep
  update,              \* program counter of the caller of Update, holding e.initialised
  todo,                \* Update: load balancers still to register with
  groups,              \* Update: target groups left of the one in hand
  failed,              \* Update: failedArns is not nil
  stop,                \* program counter of the caller of Stop, then its result
  stopTodo,            \* Stop: target groups still to deregister from
  stopFailed,          \* Stop: failedCount > 0
  changes, failures,
  replaced,            \* history: target groups that left e.loadBalancers
  overlap              \* history: Update was attaching while Stop ran or after it

updateVars == <<loadBalancers, done, registeredFrontends, ready, timer, update, todo, groups,
                failed, replaced>>
stopVars   == <<stop, stopTodo, stopFailed>>
vars == <<tagged, registered, updateVars, isReady, stopVars, changes, failures, overlap>>

TypeOK ==
  /\ tagged \subseteq LBs /\ registered \subseteq TargetGroups \ Lambda
  /\ loadBalancers \subseteq LBs /\ todo \subseteq LBs /\ groups \subseteq TargetGroups
  /\ registeredFrontends \in 0..2
  /\ {done, ready, isReady, timer, failed, stopFailed, overlap} \subseteq BOOLEAN
  /\ update \in {"idle", "find", "register", "targets"}
  /\ stop \in {"idle", "deregister", "nil", "error"}
  /\ stopTodo \subseteq TargetGroups /\ replaced \subseteq TargetGroups
  /\ changes \in 0..MaxChanges /\ failures \in 0..MaxFailures

Init ==
  /\ tagged \in SUBSET LBs
  /\ registered = {} /\ loadBalancers = {} /\ todo = {} /\ groups = {}
  /\ done = FALSE /\ ready = FALSE /\ isReady = FALSE /\ timer = FALSE /\ failed = FALSE
  /\ registeredFrontends = 0
  /\ update = "idle"
  /\ stop = "idle" /\ stopTodo = {} /\ stopFailed = FALSE
  /\ changes = 0 /\ failures = 0
  /\ replaced = {} /\ overlap = FALSE

Fails == failures < MaxFailures /\ failures' = failures + 1

\* generateTargetDescriptionFromTargetType knows the target type.
Supported(tg) == tg \notin Lambda

\* The call on a target group, if its type is supported.
RegisterTargets(tg) ==
  \/ Supported(tg) /\ registered' = registered \cup {tg} /\ UNCHANGED <<failed, failures>>
  \/ Supported(tg) /\ Fails /\ registered' \in {registered, registered \cup {tg}} /\ failed' = TRUE
  \/ ~Supported(tg) /\ failed' = TRUE /\ UNCHANGED <<registered, failures>>

DeregisterTargets(tg) ==
  \/ Supported(tg) /\ registered' = registered \ {tg} /\ UNCHANGED <<stopFailed, failures>>
  \/ Supported(tg) /\ Fails /\ registered' \in {registered, registered \ {tg}} /\ stopFailed' = TRUE
  \/ ~Supported(tg) /\ stopFailed' = TRUE /\ UNCHANGED <<registered, failures>>

-----------------------------------------------------------------------------
(* Update.                                                                  *)

Update ==
  /\ update = "idle"
  /\ IF done
     THEN ready' = TRUE /\ UNCHANGED <<update, overlap>>
     ELSE /\ update' = "find"
          /\ overlap' = (overlap \/ stop # "idle")
          /\ UNCHANGED ready
  /\ UNCHANGED <<tagged, registered, loadBalancers, done, registeredFrontends, timer, todo,
                 groups, failed, replaced, isReady, stopVars, changes, failures>>

\* FindFrontEndLoadBalancersWithIngressClassName keys by scheme the load
\* balancers whose tags match; the tags come from a map, in any order.
OnePerScheme(S) ==
  {T \in SUBSET S : \A scheme \in {Internal, Facing} :
     /\ S \cap scheme # {} => T \cap scheme # {}
     /\ \A x, y \in T \cap scheme : x = y}

\* Mutant: e.loadBalancers is not saved before the loop.
FindUnsaved ==
  /\ update = "find"
  /\ \/ \E found \in OnePerScheme(tagged) :
          /\ todo' = found
          /\ update' = "register"
          /\ UNCHANGED <<ready, failures>>
     \/ /\ Fails
        /\ update' = "idle" /\ ready' = TRUE
        /\ UNCHANGED todo
  /\ UNCHANGED <<tagged, registered, loadBalancers, replaced, done, registeredFrontends, timer,
                 groups, failed, isReady, stopVars, changes, overlap>>

Find ==
  /\ update = "find"
  /\ \/ \E found \in OnePerScheme(tagged) :
          /\ loadBalancers' = found /\ todo' = found
          /\ replaced' = (replaced \cup (UNION loadBalancers)) \ (UNION found)
          /\ update' = "register"
          /\ UNCHANGED <<ready, failures>>
     \/ /\ Fails
        /\ update' = "idle" /\ ready' = TRUE
        /\ UNCHANGED <<loadBalancers, todo, replaced>>
  /\ UNCHANGED <<tagged, registered, done, registeredFrontends, timer, groups, failed, isReady,
                 stopVars, changes, overlap>>

\* registerWithLoadBalancer is called for the next load balancer.
NextFrontend ==
  /\ update = "register"
  /\ \E frontend \in todo :
       /\ todo' = todo \ {frontend}
       /\ groups' = frontend
  /\ failed' = FALSE
  /\ update' = "targets"
  /\ UNCHANGED <<tagged, registered, loadBalancers, done, registeredFrontends, ready, timer,
                 replaced, isReady, stopVars, changes, failures, overlap>>

\* One turn of its loop, which goes on after a failure.
RegisterOne ==
  /\ update = "targets"
  /\ \E tg \in groups :
       /\ groups' = groups \ {tg}
       /\ RegisterTargets(tg)
  /\ UNCHANGED <<tagged, loadBalancers, done, registeredFrontends, ready, timer, update, todo,
                 replaced, isReady, stopVars, changes, overlap>>

\* Mutant: the error of registerWithLoadBalancer is only logged.
FrontendDoneLogs ==
  /\ update = "targets" /\ groups = {}
  /\ update' = "register"
  /\ UNCHANGED <<tagged, registered, loadBalancers, done, registeredFrontends, ready, timer,
                 todo, groups, failed, replaced, isReady, stopVars, changes, failures, overlap>>

\* registerWithLoadBalancer returns; an error ends Update.
FrontendDone ==
  /\ update = "targets" /\ groups = {}
  /\ IF failed
     THEN update' = "idle" /\ todo' = {} /\ ready' = TRUE
     ELSE update' = "register" /\ UNCHANGED <<todo, ready>>
  /\ UNCHANGED <<tagged, registered, loadBalancers, done, registeredFrontends, timer, groups,
                 failed, replaced, isReady, stopVars, changes, failures, overlap>>

\* Mutant: only the first attempt starts the timer.
AttachedFirstTime ==
  /\ update = "register" /\ todo = {}
  /\ registeredFrontends' = Cardinality(loadBalancers)
  /\ done' = ~(Expected > 0 /\ Cardinality(loadBalancers) # Expected)
  /\ timer' = (done' /\ ~ready)
  /\ update' = "idle" /\ ready' = TRUE
  /\ UNCHANGED <<tagged, registered, loadBalancers, todo, groups, failed, replaced, isReady,
                 stopVars, changes, failures, overlap>>

\* The end of attachToFrontEnds and of Update.
Attached ==
  /\ update = "register" /\ todo = {}
  /\ registeredFrontends' = Cardinality(loadBalancers)
  /\ done' = ~(Expected > 0 /\ Cardinality(loadBalancers) # Expected)
  /\ timer' = done'
  /\ update' = "idle" /\ ready' = TRUE
  /\ UNCHANGED <<tagged, registered, loadBalancers, todo, groups, failed, replaced, isReady,
                 stopVars, changes, failures, overlap>>

\* Five minutes later.
SetReady ==
  /\ timer
  /\ timer' = FALSE /\ isReady' = TRUE
  /\ UNCHANGED <<tagged, registered, loadBalancers, done, registeredFrontends, ready, update,
                 todo, groups, failed, replaced, stopVars, changes, failures, overlap>>

-----------------------------------------------------------------------------
(* Stop.                                                                    *)

Stop ==
  /\ stop = "idle"
  /\ stop' = "deregister" /\ stopTodo' = UNION loadBalancers
  /\ overlap' = (update # "idle")
  /\ UNCHANGED <<tagged, registered, updateVars, isReady, stopFailed, changes, failures>>

Deregister ==
  /\ stop = "deregister"
  /\ \E tg \in stopTodo :
       /\ stopTodo' = stopTodo \ {tg}
       /\ DeregisterTargets(tg)
  /\ UNCHANGED <<tagged, updateVars, isReady, stop, changes, overlap>>

\* After drainDelay if one deregistration succeeded.
StopReturns ==
  /\ stop = "deregister" /\ stopTodo = {}
  /\ stop' = IF stopFailed THEN "error" ELSE "nil"
  /\ UNCHANGED <<tagged, registered, updateVars, isReady, stopTodo, stopFailed, changes,
                 failures, overlap>>

-----------------------------------------------------------------------------
\* Somebody creates a load balancer or changes its tags.
Retag ==
  /\ changes < MaxChanges /\ changes' = changes + 1
  /\ \E lb \in LBs : tagged' \in {tagged \cup {lb}, tagged \ {lb}} \ {tagged}
  /\ UNCHANGED <<registered, updateVars, isReady, stopVars, failures, overlap>>

UpdateSteps == Find \/ NextFrontend \/ RegisterOne \/ FrontendDone \/ Attached
StopSteps   == Deregister \/ StopReturns

Next == Update \/ UpdateSteps \/ SetReady \/ Stop \/ StopSteps \/ Retag

\* The controller calls Update again at every resync of its informers.
Fairness ==
  WF_vars(Update) /\ WF_vars(UpdateSteps) /\ WF_vars(SetReady) /\ WF_vars(StopSteps)

SafetySpec == Init /\ [][Next]_vars
Spec == SafetySpec /\ Fairness

\* Health and Readiness answer nil.
Health    == ~ready \/ Expected = registeredFrontends
Readiness == Health /\ isReady

-----------------------------------------------------------------------------
\* A ready updater is registered with every target group of every load balancer
\* it has chosen, although registerWithLoadBalancer goes on after a failure, and
\* with the expected number of load balancers.
ReadyMeansAttached ==
  Readiness /\ stop = "idle" =>
    /\ UNION loadBalancers \subseteq registered
    /\ Expected > 0 => Cardinality(loadBalancers) = Expected

\* The updater keeps the promise of a frontend: it attaches only inside Update and
\* detaches only inside Stop, and a Stop that returns nil, with no Update beside or
\* after it, leaves only target groups that e.loadBalancers had lost.
F == INSTANCE Frontend WITH
       Endpoints <- TargetGroups, attached <- registered, forgotten <- replaced,
       updating <- update # "idle",
       stop <- IF stop = "deregister" THEN "running" ELSE stop,
       late <- overlap

ImplementsFrontend == F!Spec

\* Update is retried until it succeeds and the timer is not lost: if in the end
\* as many schemes are tagged as are expected, and no target group of theirs is
\* of an unsupported type, the updater is ready for good.
EventuallyReady ==
  <>[](/\ stop = "idle"
       /\ (UNION tagged) \cap Lambda = {}
       /\ \A S \in OnePerScheme(tagged) : Cardinality(S) = Expected) => <>[]Readiness
=============================================================================
