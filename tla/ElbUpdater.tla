----------------------------- MODULE ElbUpdater -----------------------------
(***************************************************************************)
(* The ELB updater (elb/elb.go): the goroutine that calls Update, the one  *)
(* that calls Stop, and the AWS API they share.  The first Update that     *)
(* succeeds attaches this instance to one load balancer per scheme; Stop   *)
(* detaches it from the ones Update has saved.                             *)
(*                                                                         *)
(* An AWS call that returns an error may have taken effect.  A Stop that   *)
(* reads e.elbs before e.instanceID is written asks AWS to detach no       *)
(* instance, which is one of the failures.                                 *)
(***************************************************************************)
EXTENDS Naturals, FiniteSets

CONSTANTS
  Internal, Facing,  \* load balancers of the two schemes
  Expected,          \* e.expectedNumber
  MaxChanges,        \* bound: changes of tags
  MaxFailures        \* bound: calls that fail

LBs == Internal \cup Facing

ASSUME ElbAssumption ==
  /\ Expected \in Nat /\ MaxChanges \in Nat /\ MaxFailures \in Nat
  /\ Internal \cap Facing = {}
  /\ IsFiniteSet(Internal) /\ IsFiniteSet(Facing)

VARIABLES
  tagged,              \* AWS: load balancers with the required tags
  registered,          \* AWS: load balancers this instance is registered with
  elbs,                \* e.elbs
  done,                \* e.initialised.done
  registeredFrontends, \* e.registeredFrontends
  ready,               \* e.readyForHealthCheck
  update,              \* program counter of the caller of Update, holding e.initialised
  todo,                \* Update: frontends still to register with
  stop,                \* program counter of the caller of Stop, then its result
  stopTodo,            \* Stop: load balancers still to deregister from
  stopFailed,          \* Stop: failed
  changes, failures,
  replaced,            \* history: were in e.elbs and have been overwritten
  overlap              \* history: Update was attaching while Stop ran or after it

updateVars == <<elbs, done, registeredFrontends, ready, update, todo, replaced>>
stopVars   == <<stop, stopTodo, stopFailed>>
vars == <<tagged, registered, updateVars, stopVars, changes, failures, overlap>>

TypeOK ==
  /\ tagged \subseteq LBs /\ registered \subseteq LBs
  /\ elbs \subseteq LBs /\ todo \subseteq LBs
  /\ done \in BOOLEAN /\ ready \in BOOLEAN
  /\ registeredFrontends \in 0..2  \* one per scheme
  /\ update \in {"idle", "find", "register"}
  /\ stop \in {"idle", "deregister", "nil", "error"}
  /\ stopTodo \subseteq LBs /\ stopFailed \in BOOLEAN
  /\ changes \in 0..MaxChanges /\ failures \in 0..MaxFailures
  /\ replaced \subseteq LBs /\ overlap \in BOOLEAN

Init ==
  /\ tagged \in SUBSET LBs
  /\ registered = {} /\ elbs = {} /\ todo = {}
  /\ done = FALSE /\ ready = FALSE
  /\ registeredFrontends = 0
  /\ update = "idle"
  /\ stop = "idle" /\ stopTodo = {} /\ stopFailed = FALSE
  /\ changes = 0 /\ failures = 0
  /\ replaced = {} /\ overlap = FALSE

Fails == failures < MaxFailures /\ failures' = failures + 1

\* Calls on {lb} that return an error have happened or not.
MaybeRegister(lb)   == registered' \in {registered, registered \cup {lb}}
MaybeDeregister(lb) == registered' \in {registered, registered \ {lb}}

-----------------------------------------------------------------------------
(* Update.                                                                  *)

\* Mutant: one attempt only.
UpdateOnce ==
  /\ update = "idle"
  /\ IF done \/ ready
     THEN ready' = TRUE /\ UNCHANGED <<update, overlap>>
     ELSE /\ update' = "find"
          /\ overlap' = (overlap \/ stop # "idle")
          /\ UNCHANGED ready
  /\ UNCHANGED <<tagged, registered, elbs, done, registeredFrontends, todo, replaced,
                 stopVars, changes, failures>>

\* Once it has attached, Update does nothing but its deferred Set.
Update ==
  /\ update = "idle"
  /\ IF done
     THEN ready' = TRUE /\ UNCHANGED <<update, overlap>>
     ELSE /\ update' = "find"
          /\ overlap' = (overlap \/ stop # "idle")
          /\ UNCHANGED ready
  /\ UNCHANGED <<tagged, registered, elbs, done, registeredFrontends, todo, replaced,
                 stopVars, changes, failures>>

\* FindFrontEndElbsWithIngressClassName keys the load balancers whose tags match
\* by their scheme: of two with one scheme, whichever comes last.
OnePerScheme(S) ==
  {T \in SUBSET S : \A scheme \in {Internal, Facing} :
     /\ S \cap scheme # {} => T \cap scheme # {}
     /\ \A x, y \in T \cap scheme : x = y}

\* Mutant: the front ends are counted when they are found.
FindCounts ==
  /\ update = "find"
  /\ \/ \E found \in OnePerScheme(tagged) :
          /\ elbs' = found /\ todo' = found
          /\ registeredFrontends' = Cardinality(found)
          /\ replaced' = (replaced \cup elbs) \ found
          /\ update' = "register"
          /\ UNCHANGED <<ready, failures>>
     \/ /\ Fails
        /\ update' = "idle" /\ ready' = TRUE
        /\ UNCHANGED <<elbs, todo, replaced, registeredFrontends>>
  /\ UNCHANGED <<tagged, registered, done, stopVars, changes, overlap>>

Find ==
  /\ update = "find"
  /\ \/ \E found \in OnePerScheme(tagged) :
          /\ elbs' = found /\ todo' = found
          /\ replaced' = (replaced \cup elbs) \ found
          /\ update' = "register"
          /\ UNCHANGED <<ready, failures>>
     \/ /\ Fails
        /\ update' = "idle" /\ ready' = TRUE
        /\ UNCHANGED <<elbs, todo, replaced>>
  /\ UNCHANGED <<tagged, registered, done, registeredFrontends, stopVars, changes, overlap>>

\* One turn of the loop of attachToFrontEnds, in the map's order.
Register ==
  /\ update = "register"
  /\ \E frontend \in todo :
       \/ /\ registered' = registered \cup {frontend}
          /\ todo' = todo \ {frontend}
          /\ UNCHANGED <<update, ready, failures>>
       \/ /\ Fails /\ MaybeRegister(frontend)
          /\ todo' = {} /\ update' = "idle" /\ ready' = TRUE
  /\ UNCHANGED <<tagged, elbs, done, registeredFrontends, replaced, stopVars, changes, overlap>>

\* The end of attachToFrontEnds and of Update.
Attached ==
  /\ update = "register" /\ todo = {}
  /\ registeredFrontends' = Cardinality(elbs)
  /\ done' = ~(Expected > 0 /\ Cardinality(elbs) # Expected)
  /\ update' = "idle" /\ ready' = TRUE
  /\ UNCHANGED <<tagged, registered, elbs, todo, replaced, stopVars, changes, failures, overlap>>

-----------------------------------------------------------------------------
(* Stop.                                                                    *)

\* The loop ranges over the map that e.elbs is now.
Stop ==
  /\ stop = "idle"
  /\ stop' = "deregister" /\ stopTodo' = elbs
  /\ overlap' = (update # "idle")
  /\ UNCHANGED <<tagged, registered, updateVars, stopFailed, changes, failures>>

\* Mutant: failures are only logged.
DeregisterLogs ==
  /\ stop = "deregister"
  /\ \E lb \in stopTodo :
       /\ stopTodo' = stopTodo \ {lb}
       /\ \/ registered' = registered \ {lb} /\ UNCHANGED failures
          \/ Fails /\ MaybeDeregister(lb)
  /\ UNCHANGED <<tagged, updateVars, stop, stopFailed, changes, overlap>>

Deregister ==
  /\ stop = "deregister"
  /\ \E lb \in stopTodo :
       /\ stopTodo' = stopTodo \ {lb}
       /\ \/ registered' = registered \ {lb} /\ UNCHANGED <<stopFailed, failures>>
          \/ Fails /\ MaybeDeregister(lb) /\ stopFailed' = TRUE
  /\ UNCHANGED <<tagged, updateVars, stop, changes, overlap>>

\* An error, or nil after drainDelay.
StopReturns ==
  /\ stop = "deregister" /\ stopTodo = {}
  /\ stop' = IF stopFailed THEN "error" ELSE "nil"
  /\ UNCHANGED <<tagged, registered, updateVars, stopTodo, stopFailed, changes, failures, overlap>>

-----------------------------------------------------------------------------
\* Somebody creates a load balancer or changes its tags.
Retag ==
  /\ changes < MaxChanges /\ changes' = changes + 1
  /\ \E lb \in LBs : tagged' \in {tagged \cup {lb}, tagged \ {lb}} \ {tagged}
  /\ UNCHANGED <<registered, updateVars, stopVars, failures, overlap>>

UpdateSteps == Find \/ Register \/ Attached
StopSteps   == Deregister \/ StopReturns

Next == Update \/ UpdateSteps \/ Stop \/ StopSteps \/ Retag

\* The controller calls Update again at every resync of its informers.
Fairness == WF_vars(Update) /\ WF_vars(UpdateSteps) /\ WF_vars(StopSteps)

SafetySpec == Init /\ [][Next]_vars
Spec == SafetySpec /\ Fairness

\* Health and Readiness answer nil.
Health    == ~ready \/ Expected = registeredFrontends
Readiness == ready /\ Health

-----------------------------------------------------------------------------
\* Whatever the order of failures, retries and concurrent deregistrations, the
\* updater knows every load balancer it may be registered with, but for those
\* that a later attempt has overwritten: attachToFrontEnds saves e.elbs before
\* its first registration.
KnownUnlessReplaced == registered \subseteq elbs \cup replaced

\* With an expected number, an updater that is ready is registered with
\* exactly that many load balancers it knows; a number left over from an earlier
\* attempt never satisfies Readiness.
ReadyMeansAttached ==
  Expected > 0 /\ Readiness /\ stop = "idle"
    => Cardinality(registered \cap elbs) = Expected

\* The updater keeps the promise of a frontend: it attaches only inside Update and
\* detaches only inside Stop, and a Stop that returns nil, with no Update beside or
\* after it, leaves only load balancers that e.elbs had lost.
F == INSTANCE Frontend WITH
       Endpoints <- LBs, attached <- registered, forgotten <- replaced,
       updating <- update # "idle",
       stop <- IF stop = "deregister" THEN "running" ELSE stop,
       late <- overlap

ImplementsFrontend == F!Spec

\* Update is retried until it succeeds: if in the end as many schemes are tagged
\* as are expected, the instance is attached.
EventuallyAttached ==
  <>[](stop = "idle" /\ \A S \in OnePerScheme(tagged) : Cardinality(S) = Expected) => <>done
=============================================================================
