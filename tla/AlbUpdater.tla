----------------------------- MODULE AlbUpdater -----------------------------
(***************************************************************************)
(* The ALB updater (alb/alb.go): like the ELB updater it attaches on the   *)
(* first Update that succeeds, but to the target groups it is given by     *)
(* name, and its Stop only logs what it could not deregister.              *)
(*                                                                         *)
(* An AWS call that returns an error may have taken effect.  A target      *)
(* group stands for its name and its ARN: target groups are created and    *)
(* not deleted (AWS drops the registrations of a deleted one).             *)
(***************************************************************************)
EXTENDS Naturals, FiniteSets

CONSTANTS
  TargetGroups,  \* a.targetGroupNames
  Missing,       \* those of them that do not exist at first
  MaxFailures    \* bound: calls that fail

VARIABLES
  existing,            \* AWS: target groups that exist
  registered,          \* AWS: target groups this instance is registered with
  albARNs,             \* a.albARNs
  done,                \* a.initialised.done
  registeredFrontends, \* a.registeredFrontends
  ready,               \* a.readyForHealthCheck
  update,              \* program counter of the caller of Update, holding a.initialised
  todo,                \* Update: target groups still to register with
  stop,                \* program counter of the caller of Stop, then its result
  stopTodo,            \* Stop: target groups still to deregister from
  failures,
  undetached,          \* history: target groups whose deregistration has failed
  overlap              \* history: Update was attaching while Stop ran or after it

updateVars == <<albARNs, done, registeredFrontends, ready, update, todo>>
vars == <<existing, registered, updateVars, stop, stopTodo, failures, undetached, overlap>>

Init ==
  /\ existing = TargetGroups \ Missing
  /\ registered = {} /\ albARNs = {} /\ todo = {}
  /\ done = FALSE /\ ready = FALSE /\ registeredFrontends = 0
  /\ update = "idle" /\ stop = "idle" /\ stopTodo = {}
  /\ failures = 0
  /\ undetached = {} /\ overlap = FALSE

Fails == failures < MaxFailures /\ failures' = failures + 1

-----------------------------------------------------------------------------
(* Update.  It returns nil exactly when it leaves initialised.done set.     *)

Update ==
  /\ update = "idle"
  /\ IF done
     THEN ready' = TRUE /\ UNCHANGED <<update, overlap>>
     ELSE /\ update' = "find"
          /\ overlap' = (overlap \/ stop # "idle")
          /\ UNCHANGED ready
  /\ UNCHANGED <<existing, registered, albARNs, done, registeredFrontends, todo, stop, stopTodo,
                 failures, undetached>>

\* Update returns an error, with the deferred readyForHealthCheck.Set(true).
ReturnError == update' = "idle" /\ ready' = TRUE /\ todo' = {}

\* The instance ID and findTargetGroupARNs, page by page; both may fail.
Find ==
  /\ update = "find"
  /\ \/ /\ albARNs' = existing /\ todo' = existing
        /\ update' = "register"
        /\ UNCHANGED <<ready, failures>>
     \/ Fails /\ ReturnError /\ UNCHANGED albARNs
  /\ UNCHANGED <<existing, registered, done, registeredFrontends, stop, stopTodo, undetached,
                 overlap>>

\* Mutant: a failed registration is logged, as in Stop.
RegisterLogs ==
  /\ update = "register"
  /\ \E tg \in todo :
       /\ todo' = todo \ {tg}
       /\ \/ registered' = registered \cup {tg} /\ UNCHANGED failures
          \/ Fails /\ registered' \in {registered, registered \cup {tg}}
  /\ UNCHANGED <<existing, update, ready, albARNs, done, registeredFrontends, stop, stopTodo,
                 undetached, overlap>>

\* One turn of the loop, which ends at the first error.
Register ==
  /\ update = "register"
  /\ \E tg \in todo :
       \/ /\ registered' = registered \cup {tg}
          /\ todo' = todo \ {tg}
          /\ UNCHANGED <<update, ready, failures>>
       \/ /\ Fails /\ ReturnError
          /\ registered' \in {registered, registered \cup {tg}}
  /\ UNCHANGED <<existing, albARNs, done, registeredFrontends, stop, stopTodo, undetached, overlap>>

\* The end of attachToFrontEnds and of Update: an error if target groups are missing.
Attached ==
  /\ update = "register" /\ todo = {}
  /\ registeredFrontends' = Cardinality(albARNs)
  /\ done' = (Cardinality(TargetGroups) = Cardinality(albARNs))
  /\ update' = "idle" /\ ready' = TRUE
  /\ UNCHANGED <<existing, registered, albARNs, todo, stop, stopTodo, failures, undetached, overlap>>

UpdateSteps == Find \/ Register \/ Attached

-----------------------------------------------------------------------------
(* Stop, which takes no lock.                                               *)

Stop ==
  /\ stop = "idle"
  /\ stop' = "deregister" /\ stopTodo' = albARNs
  /\ overlap' = (update # "idle")
  /\ UNCHANGED <<existing, registered, updateVars, failures, undetached>>

\* Mutant: the loop ends at the first error.
DeregisterBreaks ==
  /\ stop = "deregister"
  /\ \E tg \in stopTodo :
       \/ /\ registered' = registered \ {tg}
          /\ stopTodo' = stopTodo \ {tg}
          /\ UNCHANGED <<failures, undetached>>
       \/ /\ Fails /\ undetached' = undetached \cup {tg}
          /\ registered' \in {registered, registered \ {tg}}
          /\ stopTodo' = {}
  /\ UNCHANGED <<existing, updateVars, stop, overlap>>

\* One turn of the loop: an error is only logged.
Deregister ==
  /\ stop = "deregister"
  /\ \E tg \in stopTodo :
       /\ stopTodo' = stopTodo \ {tg}
       /\ \/ registered' = registered \ {tg} /\ UNCHANGED <<failures, undetached>>
          \/ /\ Fails /\ undetached' = undetached \cup {tg}
             /\ registered' \in {registered, registered \ {tg}}
  /\ UNCHANGED <<existing, updateVars, stop, overlap>>

\* nil after targetGroupDeregistrationDelay, whatever has failed.
StopReturns ==
  /\ stop = "deregister" /\ stopTodo = {}
  /\ stop' = "nil"
  /\ UNCHANGED <<existing, registered, updateVars, stopTodo, failures, undetached, overlap>>

-----------------------------------------------------------------------------
\* Somebody creates a target group.
Create ==
  /\ \E tg \in TargetGroups \ existing : existing' = existing \cup {tg}
  /\ UNCHANGED <<registered, updateVars, stop, stopTodo, failures, undetached, overlap>>

Next == Update \/ UpdateSteps \/ Stop \/ Deregister \/ StopReturns \/ Create

Spec == Init /\ [][Next]_vars

\* Health and Readiness answer nil.
Health    == ~ready \/ Cardinality(TargetGroups) = registeredFrontends
Readiness == ready /\ Health

-----------------------------------------------------------------------------
\* The updater keeps the promise of a frontend, with the exception its Stop makes:
\* a failed deregistration is forgotten, and nil is returned all the same.
F == INSTANCE Frontend WITH
       Endpoints <- TargetGroups, attached <- registered, forgotten <- undetached,
       updating <- update # "idle",
       stop <- IF stop = "deregister" THEN "running" ELSE stop,
       late <- overlap

ImplementsFrontend == F!Spec
=============================================================================
