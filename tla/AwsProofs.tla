----------------------------- MODULE AwsProofs -----------------------------
(***************************************************************************)
(* Proofs about two updaters that keep something in AWS: NlbUpdater, the   *)
(* registration with NLB target groups, for every set of target groups and *)
(* load balancers, and DnsUpdater, the records of a hosted zone, for every *)
(* set of hosts and schemes and every size of batch.                       *)
(***************************************************************************)
EXTENDS NlbUpdater, DnsUpdater, FiniteSetTheorems, TLAPS

-----------------------------------------------------------------------------
(* NlbUpdater.                                                             *)

\* Every target group this instance may be registered with is known, but for those
\* that a later attempt has overwritten.
KnownUnlessReplaced == registered \subseteq (UNION loadBalancers) \cup replaced

\* While an attempt registers, what it has chosen is saved, and what is no longer
\* to do is done unless the attempt is about to fail; once done, all of it is,
\* until Stop.  The timer and what it sets come after that.
AttachInv ==
  /\ KnownUnlessReplaced
  /\ Cardinality(loadBalancers) \in 0..2
  /\ todo \subseteq loadBalancers /\ groups \subseteq UNION loadBalancers
  /\ update \in {"idle", "find"} => todo = {}
  /\ update # "targets" => groups = {}
  /\ update = "register" \/ (update = "targets" /\ ~failed) =>
       (stop = "idle" => \A lb \in loadBalancers \ todo : lb \subseteq registered \cup groups)
  /\ done => /\ update = "idle"
             /\ Expected > 0 => Cardinality(loadBalancers) = Expected
             /\ stop = "idle" => \A lb \in loadBalancers : lb \subseteq registered
  /\ timer \/ isReady => done

\* A Stop without failures and without an Update beside it has detached what is no
\* longer to do.
StopInv ==
  stop = "deregister" /\ ~stopFailed /\ ~overlap =>
    update = "idle" /\ registered \subseteq stopTodo \cup replaced

\* When Stop has returned nil and no Update was attaching while it ran or since, the
\* instance is registered only with target groups that e.loadBalancers had lost, and no Update
\* is attaching: the shutdown has taken the instance out of service for good.
StoppedCleanly ==
  stop = "nil" /\ ~overlap => update = "idle" /\ registered \subseteq replaced

\* The flags are truth values.
Flags ==
  /\ done \in BOOLEAN /\ ready \in BOOLEAN /\ isReady \in BOOLEAN /\ timer \in BOOLEAN
  /\ failed \in BOOLEAN /\ stopFailed \in BOOLEAN /\ overlap \in BOOLEAN

\* The inductive invariant.
Inv == TypeOK /\ AttachInv /\ StopInv

-----------------------------------------------------------------------------
\* A set whose elements are all equal has at most one.
LEMMA AtMostOne ==
  ASSUME NEW S, \A x, y \in S : x = y
  PROVE  IsFiniteSet(S) /\ Cardinality(S) \in 0..1
<1>1. CASE S = {}
  BY <1>1, FS_EmptySet
<1>2. CASE S # {}
  <2>1. PICK x : x \in S
    BY <1>2
  <2>2. S = {x}
    BY <2>1
  <2>3. IsFiniteSet({x}) /\ Cardinality({x}) = 1
    BY FS_Singleton, Zenon
  <2> QED
    BY <2>2, <2>3
<1> QED
  BY <1>1, <1>2

\* The choice of FindFrontEndLoadBalancersWithIngressClassName has at most one load
\* balancer of each scheme, so at most two.
LEMMA AtMostTwo ==
  ASSUME NEW S, S \subseteq LBs, NEW T \in OnePerScheme(S)
  PROVE  T \subseteq S /\ Cardinality(T) \in 0..2
<1> DEFINE I == T \cap Internal
           J == T \cap Facing
<1>0. /\ \A x, y \in T \cap Internal : x = y
      /\ \A x, y \in T \cap Facing : x = y
  BY DEF OnePerScheme
<1>1. T \subseteq S /\ T = I \cup J
  BY DEF OnePerScheme, LBs
<1>2. IsFiniteSet(I) /\ Cardinality(I) \in 0..1
  BY <1>0, AtMostOne
<1>3. IsFiniteSet(J) /\ Cardinality(J) \in 0..1
  BY <1>0, AtMostOne
<1>4. I \cap J = {}
  BY NlbAssumption
<1>5. Cardinality(I \cup J) = Cardinality(I) + Cardinality(J) - Cardinality(I \cap J)
  BY <1>2, <1>3, FS_Union
<1>6. Cardinality(I \cap J) = 0
  BY <1>4, FS_EmptySet
<1> HIDE DEF I, J
<1> QED
  BY <1>1, <1>2, <1>3, <1>5, <1>6

\* The initial states satisfy the invariant.
LEMMA InitInv == Init => Inv
<1> SUFFICES ASSUME Init PROVE Inv
  OBVIOUS
<1> USE NlbAssumption DEF Init
<1>1. TypeOK
  <2>1. Flags
    BY Zenon DEF Flags
  <2> QED
    BY <2>1 DEF TypeOK, Flags
<1>2. AttachInv
  <2>1. Cardinality({}) = 0
    BY FS_EmptySet
  <2> QED
    BY <2>1 DEF AttachInv, KnownUnlessReplaced
<1>3. StopInv
  BY DEF StopInv
<1> QED
  BY <1>1, <1>2, <1>3 DEF Inv

\* A step keeps the flags truth values.
LEMMA StepFlags == Flags /\ [Next]_vars => Flags'
<1> SUFFICES ASSUME Flags, [Next]_vars PROVE Flags'
  OBVIOUS
<1> USE DEF Flags, updateVars, stopVars, RegisterTargets, DeregisterTargets
<1>1. CASE Update
  BY <1>1, Zenon DEF Update
<1>2. CASE Find
  BY <1>2, Zenon DEF Find
<1>3. CASE NextFrontend
  BY <1>3, Zenon DEF NextFrontend
<1>4. CASE RegisterOne
  BY <1>4, Zenon DEF RegisterOne
<1>5. CASE FrontendDone
  BY <1>5, Zenon DEF FrontendDone
<1>6. CASE Attached
  BY <1>6, Zenon DEF Attached
<1>7. CASE SetReady
  BY <1>7, Zenon DEF SetReady
<1>8. CASE Stop
  BY <1>8, Zenon DEF Stop
<1>9. CASE Deregister
  BY <1>9, Zenon DEF Deregister
<1>10. CASE StopReturns
  BY <1>10, Zenon DEF StopReturns
<1>11. CASE Retag
  BY <1>11, Zenon DEF Retag
<1>12. CASE UNCHANGED vars
  BY <1>12, Zenon DEF vars
<1> QED
  BY <1>1, <1>2, <1>3, <1>4, <1>5, <1>6, <1>7, <1>8, <1>9, <1>10, <1>11,
     <1>12, ZenonT(60) DEF Next, UpdateSteps, StopSteps

\* Every step preserves the types.
LEMMA StepTypes == Inv /\ [Next]_vars => TypeOK'
<1> SUFFICES ASSUME Inv, [Next]_vars PROVE TypeOK'
  OBVIOUS
<1> DEFINE Rest ==
      /\ tagged \subseteq LBs /\ registered \subseteq TargetGroups \ Lambda
      /\ loadBalancers \subseteq LBs /\ todo \subseteq LBs /\ groups \subseteq TargetGroups
      /\ registeredFrontends \in 0..2
      /\ update \in {"idle", "find", "register", "targets"}
      /\ stop \in {"idle", "deregister", "nil", "error"}
      /\ stopTodo \subseteq TargetGroups /\ replaced \subseteq TargetGroups
      /\ changes \in 0..MaxChanges /\ failures \in 0..MaxFailures
<1>0. Flags /\ Rest
  BY DEF Inv, TypeOK, Flags
<1> USE NlbAssumption, <1>0 DEF updateVars, stopVars, Fails, Supported
<1>1. ASSUME Update PROVE Rest'
  BY <1>1 DEF Update
<1>2. ASSUME Find PROVE Rest'
  BY <1>2, AtMostTwo DEF Find, TargetGroups
<1>3. ASSUME NextFrontend PROVE Rest'
  BY <1>3 DEF NextFrontend, TargetGroups
<1>4. ASSUME RegisterOne PROVE Rest'
  BY <1>4 DEF RegisterOne, RegisterTargets
<1>5. ASSUME FrontendDone PROVE Rest'
  BY <1>5 DEF FrontendDone
<1>6. ASSUME Attached PROVE Rest'
  BY <1>6 DEF Attached, Inv, AttachInv
<1>7. ASSUME SetReady PROVE Rest'
  BY <1>7 DEF SetReady
<1>8. ASSUME Stop PROVE Rest'
  BY <1>8 DEF Stop, TargetGroups
<1>9. ASSUME Deregister PROVE Rest'
  BY <1>9 DEF Deregister, DeregisterTargets
<1>10. ASSUME StopReturns PROVE Rest'
  BY <1>10 DEF StopReturns
<1>11. ASSUME Retag PROVE Rest'
  BY <1>11 DEF Retag
<1>12. ASSUME UNCHANGED vars PROVE Rest'
  BY <1>12, Zenon DEF vars
<1>13. Rest'
  BY <1>1, <1>2, <1>3, <1>4, <1>5, <1>6, <1>7, <1>8, <1>9, <1>10, <1>11,
     <1>12, ZenonT(60) DEF Next, UpdateSteps, StopSteps
<1> QED
  BY <1>0, <1>13, StepFlags DEF TypeOK, Flags

\* Every step preserves AttachInv.
LEMMA StepAttach == Inv /\ [Next]_vars => AttachInv'
<1> SUFFICES ASSUME Inv, [Next]_vars PROVE AttachInv'
  BY Zenon
<1> USE NlbAssumption DEF Inv, AttachInv, KnownUnlessReplaced, updateVars, stopVars
<1>1. CASE Update
  BY <1>1, Zenon DEF Update
<1>2. CASE Find
  <2>1. CASE Fails /\ update' = "idle" /\ UNCHANGED <<loadBalancers, todo, replaced>>
    BY <1>2, <2>1 DEF Find
  <2>2. ASSUME NEW found \in OnePerScheme(tagged),
               loadBalancers' = found, todo' = found, update' = "register",
               replaced' = (replaced \cup (UNION loadBalancers)) \ (UNION found)
        PROVE  AttachInv'
    <3>1. Cardinality(found) \in 0..2
      BY AtMostTwo DEF TypeOK
    <3>2. UNCHANGED <<registered, done, groups, timer, isReady>> /\ ~done /\ groups = {}
      BY <1>2 DEF Find
    <3>3. KnownUnlessReplaced'
      <4>1. registered' \subseteq (replaced \cup (UNION loadBalancers))
        BY <3>2, Zenon
      <4>2. (replaced \cup (UNION loadBalancers)) \subseteq ((UNION loadBalancers') \cup replaced')
        BY <2>2, Zenon
      <4> QED
        BY <4>1, <4>2, Zenon
    <3> QED
      BY <2>2, <3>1, <3>2, <3>3, Zenon
  <2> QED
    BY <1>2, <2>1, <2>2, Zenon DEF Find
<1>3. CASE NextFrontend
  BY <1>3 DEF NextFrontend
<1>4. CASE RegisterOne
  BY <1>4 DEF RegisterOne, RegisterTargets
<1>5. CASE FrontendDone
  BY <1>5 DEF FrontendDone
<1>6. CASE Attached
  BY <1>6, Zenon DEF Attached
<1>7. CASE SetReady
  BY <1>7 DEF SetReady
<1>8. CASE Stop
  BY <1>8, Zenon DEF Stop
<1>9. CASE Deregister
  BY <1>9 DEF Deregister, DeregisterTargets
<1>10. CASE StopReturns
  BY <1>10, Zenon DEF StopReturns
<1>11. CASE Retag
  BY <1>11, Zenon DEF Retag
<1>12. CASE UNCHANGED vars
  BY <1>12, Zenon DEF vars
<1> QED
  BY <1>1, <1>2, <1>3, <1>4, <1>5, <1>6, <1>7, <1>8, <1>9, <1>10, <1>11,
     <1>12, ZenonT(60) DEF Next, UpdateSteps, StopSteps

\* Every step preserves StopInv.
LEMMA StepStop == Inv /\ [Next]_vars => StopInv'
<1> SUFFICES ASSUME Inv, [Next]_vars PROVE StopInv'
  OBVIOUS
<1> USE DEF Inv, StopInv, updateVars, stopVars
<1>1. CASE Update
  BY <1>1, Zenon DEF Update
<1>2. CASE Find
  BY <1>2 DEF Find
<1>3. CASE NextFrontend
  BY <1>3 DEF NextFrontend
<1>4. CASE RegisterOne
  BY <1>4 DEF RegisterOne
<1>5. CASE FrontendDone
  BY <1>5 DEF FrontendDone
<1>6. CASE Attached
  BY <1>6 DEF Attached
<1>7. CASE SetReady
  BY <1>7 DEF SetReady
<1>8. CASE Stop
  <2>1. update' = update /\ registered' = registered /\ replaced' = replaced
    BY <1>8 DEF Stop
  <2>2. registered \subseteq stopTodo' \cup replaced
    <3>1. stopTodo' = UNION loadBalancers
      BY <1>8 DEF Stop
    <3> QED
      BY <3>1, Zenon DEF AttachInv, KnownUnlessReplaced
  <2>3. ~overlap' => update = "idle"
    BY <1>8, Zenon DEF Stop
  <2> QED
    BY <2>1, <2>2, <2>3
<1>9. CASE Deregister
  BY <1>9 DEF Deregister, DeregisterTargets
<1>10. CASE StopReturns
  BY <1>10 DEF StopReturns
<1>11. CASE Retag
  BY <1>11 DEF Retag
<1>12. CASE UNCHANGED vars
  BY <1>12 DEF vars
<1> QED
  BY <1>1, <1>2, <1>3, <1>4, <1>5, <1>6, <1>7, <1>8, <1>9, <1>10, <1>11,
     <1>12, ZenonT(60) DEF Next, UpdateSteps, StopSteps

\* The invariant holds in every reachable state.
LEMMA Invariance == Spec => []Inv
<1>1. Inv /\ [Next]_vars => Inv'
  BY StepTypes, StepAttach, StepStop DEF Inv
<1> QED
  BY InitInv, <1>1, PTL DEF Spec, SafetySpec

-----------------------------------------------------------------------------
\* The types of the NLB updater.
THEOREM TypeCorrect == Spec => []TypeOK
<1>1. Inv => TypeOK
  BY DEF Inv
<1> QED
  BY Invariance, <1>1, PTL

\* Readiness is earned: an updater that answers that it is ready is registered with
\* every target group of the load balancers it has chosen, and these are as many as
\* are expected.
THEOREM ReadinessIsEarned == Spec => []ReadyMeansAttached
<1>1. Inv => ReadyMeansAttached
  BY DEF Inv, AttachInv, ReadyMeansAttached, Readiness
<1> QED
  BY Invariance, <1>1, PTL

\* The updater implements Frontend: a step of attachToFrontEnds or of Stop is a step
\* of the promise, and Stop returns nil only when the promise allows it.
THEOREM RefinesFrontend == Spec => ImplementsFrontend
<1>1. Init => F!Init
  BY Zenon  DEF Init, F!Init
<1>2. Inv /\ Inv' /\ [Next]_vars => [F!Next]_F!vars
  <2> SUFFICES ASSUME Inv, Inv', [Next]_vars PROVE [F!Next]_F!vars
    BY Zenon
  <2> USE DEF Inv, TypeOK, F!vars, updateVars, stopVars
  <2>1. CASE Update
    BY <2>1, Zenon DEF Update, F!Next, F!BeginUpdate
  <2>2. CASE Find
    BY <2>2, Zenon DEF Find, F!Next, F!Attach
  <2>3. CASE NextFrontend
    BY <2>3, Zenon DEF NextFrontend
  <2>4. CASE RegisterOne
    BY <2>4, Zenon DEF RegisterOne, RegisterTargets, F!Next, F!Attach
  <2>5. CASE FrontendDone
    BY <2>5, Zenon DEF FrontendDone, F!Next, F!Attach
  <2>6. CASE Attached
    BY <2>6, Zenon DEF Attached, F!Next, F!Attach
  <2>7. CASE SetReady
    BY <2>7, Zenon DEF SetReady
  <2>8. CASE Stop
    BY <2>8, Zenon DEF Stop, F!Next, F!BeginStop
  <2>9. CASE Deregister
    BY <2>9, Zenon DEF Deregister, DeregisterTargets, F!Next, F!Detach
  <2>10. CASE StopReturns
    BY <2>10, Zenon DEF StopReturns, StopInv, F!Next, F!EndStop
  <2>11. CASE Retag
    BY <2>11, Zenon DEF Retag
  <2>12. CASE UNCHANGED vars
    BY <2>12 DEF vars
  <2> QED
    BY <2>1, <2>2, <2>3, <2>4, <2>5, <2>6, <2>7, <2>8, <2>9, <2>10, <2>11, <2>12, ZenonT(60)
       DEF Next, UpdateSteps, StopSteps
<1> QED
  BY Invariance, <1>1, <1>2, PTL DEF Spec, SafetySpec, ImplementsFrontend, F!Spec

\* A nil from Stop means that the instance is out of service, and stays so: what is
\* registered afterwards is registered by an Update that the overlap records.
THEOREM StopEndsService == Spec => []StoppedCleanly
<1>1. Init => StoppedCleanly
  BY Zenon DEF Init, StoppedCleanly
<1>2. Inv /\ StoppedCleanly /\ [Next]_vars => StoppedCleanly'
  <2> SUFFICES ASSUME Inv, StoppedCleanly, [Next]_vars PROVE StoppedCleanly'
    OBVIOUS
  <2> USE DEF StoppedCleanly, updateVars, stopVars
  <2>1. CASE Update
    BY <2>1, Zenon DEF Update
  <2>2. CASE Find
    BY <2>2 DEF Find
  <2>3. CASE NextFrontend
    BY <2>3 DEF NextFrontend
  <2>4. CASE RegisterOne
    BY <2>4 DEF RegisterOne
  <2>5. CASE FrontendDone
    BY <2>5 DEF FrontendDone
  <2>6. CASE Attached
    BY <2>6 DEF Attached
  <2>7. CASE SetReady
    BY <2>7 DEF SetReady
  <2>8. CASE Stop
    BY <2>8 DEF Stop
  <2>9. CASE Deregister
    BY <2>9 DEF Deregister
  <2>10. CASE StopReturns
    BY <2>10 DEF StopReturns, Inv, StopInv
  <2>11. CASE Retag
    BY <2>11 DEF Retag
  <2>12. CASE UNCHANGED vars
    BY <2>12 DEF vars
  <2> QED
    BY <2>1, <2>2, <2>3, <2>4, <2>5, <2>6, <2>7, <2>8, <2>9, <2>10, <2>11, <2>12, ZenonT(60)
       DEF Next, UpdateSteps, StopSteps
<1> QED
  BY Invariance, <1>1, <1>2, PTL DEF Spec, SafetySpec

-----------------------------------------------------------------------------
(* DnsUpdater.                                                             *)

\* Which changes an Update may have in hand: upserts only for hosts that it has an
\* entry for, deletes only of records of feed's for hosts that it has none for.
ChangesInv ==
  /\ \A h \in upserts : h \in DOMAIN hostToIngress /\ hostToIngress[h] \in Frontends
  /\ \A h \in DOMAIN deletes : h \notin DOMAIN hostToIngress /\ deletes[h].to \in Frontends

\* Unless somebody has edited the zone since GetRecords, the changes in hand are all
\* that the zone lacks.
LacksInv ==
  updater = "changing" /\ ~touched =>
    /\ \A h \in DOMAIN hostToIngress :
         hostToIngress[h] \in Frontends => InPlace(zone[h], hostToIngress[h]) \/ h \in upserts
    /\ \A h \in Domain :
         zone[h].to \in Frontends => h \in DOMAIN hostToIngress \/ h \in DOMAIN deletes

SettledInv == (settled => updater # "changing") /\ SettledAgrees

DnsInv == DnsTypeOK /\ ChangesInv /\ LacksInv /\ SettledInv

-----------------------------------------------------------------------------
\* A partial function is a function on a subset.
LEMMA PartialIntro ==
  ASSUME NEW S, NEW T, NEW D \in SUBSET S, NEW f \in [D -> T]
  PROVE  f \in Partial(S, T)
BY DEF Partial

\* The other direction.
LEMMA PartialElim ==
  ASSUME NEW S, NEW T, NEW f \in Partial(S, T)
  PROVE  DOMAIN f \subseteq S /\ f \in [DOMAIN f -> T]
BY DEF Partial

\* Record types that the proofs tell apart: the absence of a record is not a
\* record, and does not point to a front end.
LEMMA NoRecordFacts ==
  /\ NoRecord.to \notin Frontends
  /\ \A a, b : [to |-> a, ttl |-> b] # NoRecord
<1>1. NoRecord.to \notin Frontends
  BY DnsAssumption DEF NoRecord
<1>2. ASSUME NEW a, NEW b, [to |-> a, ttl |-> b] = NoRecord PROVE FALSE
  <2>1. "ttl" \in DOMAIN [to |-> a, ttl |-> b]
    BY Zenon
  <2>2. "ttl" \notin DOMAIN NoRecord
    BY Zenon DEF NoRecord
  <2> QED
    BY <1>2, <2>1, <2>2, Zenon
<1> QED
  BY <1>1, <1>2

\* What the pure part of Update computes from a zone z and the hosts m.
LEMMA PlanFacts ==
  ASSUME NEW z \in Zones, NEW E, NEW m \in indexByHost(E), ttl \in TTLs
  PROVE  /\ m \in Partial(Domain, Schemes)
         /\ Upserts(z, m) \subseteq DOMAIN m
         /\ Deletes(z, m) \in Partial(Domain, Records)
         /\ DOMAIN Deletes(z, m) = Managed(z) \ DOMAIN m
         /\ \A h \in DOMAIN Deletes(z, m) : Deletes(z, m)[h].to \in Frontends
<1>1. m \in Partial(Domain, Schemes)
  <2> DEFINE D == {h \in Domain : \E s \in Schemes : <<h, s>> \in E}
  <2>1. m \in [D -> Schemes] /\ D \in SUBSET Domain
    BY DEF indexByHost
  <2> QED
    BY <2>1, PartialIntro, Zenon
<1>2. Upserts(z, m) \subseteq DOMAIN m
  BY DEF Upserts
<1>3. DOMAIN Deletes(z, m) = Managed(z) \ DOMAIN m
  BY Zenon DEF Deletes
<1>4. ASSUME NEW h \in Managed(z) \ DOMAIN m
      PROVE  Deletes(z, m)[h] \in Records /\ Deletes(z, m)[h].to \in Frontends
  <2>1. z[h] \in Records /\ z[h].to \in Frontends
    BY NoRecordFacts DEF Managed, Zones
  <2>2. z[h].ttl \in TTLs
    BY <2>1, Zenon DEF Records
  <2>3. Deletes(z, m)[h] = [to |-> z[h].to, ttl |-> IF Static THEN ttl ELSE z[h].ttl]
    BY DEF Deletes
  <2> QED
    BY <2>1, <2>2, <2>3 DEF Records
<1>5. Deletes(z, m) \in Partial(Domain, Records)
  <2>1. Deletes(z, m) \in [Managed(z) \ DOMAIN m -> Records]
    BY <1>3, <1>4 DEF Deletes
  <2>2. Managed(z) \ DOMAIN m \in SUBSET Domain
    BY Zenon DEF Managed
  <2> QED
    BY <2>1, <2>2, PartialIntro, Zenon
<1> QED
  BY <1>1, <1>2, <1>3, <1>4, <1>5

\* What one batch of Route 53 does to a host.
LEMMA AppliedFacts ==
  ASSUME NEW U, NEW D, NEW h \in Domain
  PROVE  /\ h \in U => Applied(U, D)[h] = [to |-> hostToIngress[h], ttl |-> ttl]
         /\ h \notin U /\ h \in D => Applied(U, D)[h] = NoRecord
         /\ h \notin U /\ h \notin D => Applied(U, D)[h] = zone[h]
BY DEF Applied

\* What a batch has done to each record.
LEMMA BatchRecords ==
  ASSUME NEW U, NEW D, zone' = Applied(U, D)
  PROVE  \A h \in Domain :
           /\ h \in U => zone'[h] = [to |-> hostToIngress[h], ttl |-> ttl]
           /\ h \notin U /\ h \in D => zone'[h] = NoRecord
           /\ h \notin U /\ h \notin D => zone'[h] = zone[h]
BY Zenon DEF Applied

\* A batch leaves a zone.
LEMMA AppliedZone ==
  ASSUME DnsTypeOK, ChangesInv, NEW U \in SUBSET upserts, NEW D
  PROVE  Applied(U, D) \in Zones
<1>1. zone \in Zones /\ ttl \in TTLs /\ \A h \in U : hostToIngress[h] \in Frontends
  BY Zenon DEF DnsTypeOK, ChangesInv
<1>2. ASSUME NEW h \in Domain PROVE Applied(U, D)[h] \in Records \cup {NoRecord}
  <2>1. h \in U => [to |-> hostToIngress[h], ttl |-> ttl] \in Records
    BY <1>1 DEF Records
  <2>2. zone[h] \in Records \cup {NoRecord}
    BY <1>1 DEF Zones
  <2>3. \/ h \in U /\ Applied(U, D)[h] = [to |-> hostToIngress[h], ttl |-> ttl]
        \/ Applied(U, D)[h] = NoRecord
        \/ Applied(U, D)[h] = zone[h]
    BY AppliedFacts, ZenonT(40)
  <2> QED
    BY <2>1, <2>2, <2>3
<1> QED
  BY <1>2, Zenon DEF Applied, Zones

\* The three outcomes of a batch.
LEMMA BatchCases ==
  ASSUME Batch
  PROVE  /\ updater = "changing"
         /\ UNCHANGED <<entries, ttl, hostToIngress, edits, restarts, touched, settled>>
         /\ \E U \in SUBSET upserts, D \in SUBSET DOMAIN deletes :
              \/ /\ Accepted(D) /\ zone' = Applied(U, D)
                 /\ upserts' = upserts \ U
                 /\ deletes' = [h \in DOMAIN deletes \ D |-> deletes[h]]
                 /\ UNCHANGED <<updater, zoneFailures>>
              \/ /\ zone' = zone \/ (Accepted(D) /\ zone' = Applied(U, D))
                 /\ updater' = "idle"
                 /\ UNCHANGED <<upserts, deletes>>
                 /\ UNCHANGED zoneFailures \/ ZoneFails
BY Zenon  DEF Batch

-----------------------------------------------------------------------------
\* The flags stay Boolean.
LEMMA StepZoneFlags ==
  ASSUME touched \in BOOLEAN, settled \in BOOLEAN, [DnsNext]_dnsVars
  PROVE  touched' \in BOOLEAN /\ settled' \in BOOLEAN
BY Zenon DEF DnsNext, Feed, Start, DnsUpdate, Batch, UpdateReturns, EditZone, EditEntries, Restart, dnsVars

\* The empty function is a partial function.
LEMMA NoChangesType == ASSUME NEW S, NEW T PROVE NoChanges \in Partial(S, T) /\ DOMAIN NoChanges = {}
<1>1. NoChanges \in [{} -> T] /\ DOMAIN NoChanges = {}
  BY DEF NoChanges
<1> QED
  BY <1>1, PartialIntro, Zenon

\* The types, save those of the flags.
ZoneSorts ==
  /\ zone \in Zones
  /\ entries \subseteq Hosts \X Schemes
  /\ ttl \in TTLs
  /\ updater \in {"new", "idle", "changing"}
  /\ hostToIngress \in Partial(Domain, Schemes)
  /\ upserts \subseteq DOMAIN hostToIngress
  /\ deletes \in Partial(Domain, Records)
  /\ edits \in 0..MaxEdits /\ zoneFailures \in 0..MaxZoneFailures /\ restarts \in 0..MaxRestarts

\* Every step keeps the types.
LEMMA StepSorts == DnsInv /\ [DnsNext]_dnsVars => ZoneSorts'
<1> SUFFICES ASSUME DnsInv, [DnsNext]_dnsVars PROVE ZoneSorts'
  OBVIOUS
<1> USE DnsAssumption DEF DnsInv, DnsTypeOK, ZoneSorts, dnsUpdateVars
<1>1. CASE Start
  BY <1>1 DEF Start
<1>2. CASE DnsUpdate
  <2>1. PICK m \in indexByHost(entries) :
          /\ hostToIngress' = m
          /\ upserts' = Upserts(zone, m)
          /\ deletes' = Deletes(zone, m)
    BY <1>2 DEF DnsUpdate, GetRecords
  <2>2. /\ hostToIngress' \in Partial(Domain, Schemes)
        /\ upserts' \subseteq DOMAIN hostToIngress'
        /\ deletes' \in Partial(Domain, Records)
    BY <2>1, PlanFacts, Zenon
  <2> QED
    BY <1>2, <2>2 DEF DnsUpdate
<1>3. CASE Batch
  <2>1. /\ UNCHANGED <<entries, ttl, hostToIngress, edits, restarts>>
        /\ updater' \in {"new", "idle", "changing"}
    BY <1>3, BatchCases, Zenon
  <2>2. zoneFailures' \in 0..MaxZoneFailures
    <3>1. UNCHANGED zoneFailures \/ ZoneFails
      BY <1>3, BatchCases, Zenon
    <3> QED
      BY <3>1 DEF ZoneFails
  <2>3. zone' \in Zones
    BY <1>3, BatchCases, AppliedZone, Zenon
  <2>4. upserts' \subseteq DOMAIN hostToIngress'
    BY <1>3, BatchCases, Zenon
  <2>5. deletes' \in Partial(Domain, Records)
    <3>1. DOMAIN deletes \subseteq Domain /\ deletes \in [DOMAIN deletes -> Records]
      BY PartialElim
    <3>2. ASSUME NEW D, deletes' = [h \in DOMAIN deletes \ D |-> deletes[h]]
          PROVE  deletes' \in Partial(Domain, Records)
      <4>1. deletes' \in [DOMAIN deletes \ D -> Records] /\ DOMAIN deletes \ D \in SUBSET Domain
        BY <3>1, <3>2
      <4> QED
        BY <4>1, PartialIntro, Zenon
    <3> QED
      BY <1>3, <3>2, BatchCases, Zenon
  <2> QED
    BY <2>1, <2>2, <2>3, <2>4, <2>5
<1>4. CASE UpdateReturns
  BY <1>4 DEF UpdateReturns
<1>5. CASE EditZone
  BY <1>5 DEF EditZone, Zones
<1>6. CASE EditEntries
  BY <1>6 DEF EditEntries
<1>7. CASE Restart
  <2>1. /\ hostToIngress' \in Partial(Domain, Schemes)
        /\ upserts' \subseteq DOMAIN hostToIngress'
        /\ deletes' \in Partial(Domain, Records)
    BY <1>7, NoChangesType, Zenon DEF Restart
  <2> QED
    BY <1>7, <2>1 DEF Restart
<1>8. CASE UNCHANGED dnsVars
  BY <1>8, Zenon DEF dnsVars
<1> QED
  BY <1>1, <1>2, <1>3, <1>4, <1>5, <1>6, <1>7, <1>8 DEF DnsNext, Feed

\* Every step keeps the changes in hand what ChangesInv says.
LEMMA StepChanges == DnsInv /\ [DnsNext]_dnsVars => ChangesInv'
<1> SUFFICES ASSUME DnsInv, [DnsNext]_dnsVars PROVE ChangesInv'
  OBVIOUS
<1> USE DEF DnsInv, ChangesInv, dnsUpdateVars
<1>1. CASE Start
  BY <1>1, Zenon DEF Start
<1>2. CASE DnsUpdate
  <2>1. PICK m \in indexByHost(entries) :
          /\ hostToIngress' = m
          /\ upserts' = Upserts(zone, m)
          /\ deletes' = Deletes(zone, m)
    BY <1>2, Zenon DEF DnsUpdate, GetRecords
  <2>2. \A h \in upserts' : h \in DOMAIN m /\ m[h] \in Frontends
    BY <2>1, Zenon DEF Upserts
  <2>3. \A h \in DOMAIN deletes' : h \notin DOMAIN m /\ deletes'[h].to \in Frontends
    <3>1. /\ DOMAIN Deletes(zone, m) = Managed(zone) \ DOMAIN m
          /\ \A h \in DOMAIN Deletes(zone, m) : Deletes(zone, m)[h].to \in Frontends
      BY PlanFacts, Zenon DEF DnsTypeOK
    <3> QED
      BY <2>1, <3>1
  <2> QED
    BY <2>1, <2>2, <2>3, Zenon
<1>3. CASE Batch
  BY <1>3, BatchCases, Zenon
<1>4. CASE UpdateReturns
  BY <1>4, Zenon DEF UpdateReturns
<1>5. CASE EditZone
  BY <1>5, Zenon DEF EditZone
<1>6. CASE EditEntries
  BY <1>6, Zenon DEF EditEntries
<1>7. CASE Restart
  BY <1>7, NoChangesType, Zenon DEF Restart
<1>8. CASE UNCHANGED dnsVars
  BY <1>8, Zenon DEF dnsVars
<1> QED
  BY <1>1, <1>2, <1>3, <1>4, <1>5, <1>6, <1>7, <1>8, ZenonT(60) DEF DnsNext, Feed

\* Every step keeps the changes in hand all that the zone lacks.
LEMMA StepLacks == DnsInv /\ [DnsNext]_dnsVars => LacksInv'
<1> SUFFICES ASSUME DnsInv, [DnsNext]_dnsVars PROVE LacksInv'
  OBVIOUS
<1> USE DEF DnsInv, LacksInv, InPlace, dnsUpdateVars
<1>1. CASE Start
  BY <1>1, Zenon DEF Start
<1>2. CASE DnsUpdate
  <2>1. PICK m \in indexByHost(entries) :
          /\ hostToIngress' = m
          /\ upserts' = Upserts(zone, m)
          /\ deletes' = Deletes(zone, m)
    BY <1>2, Zenon DEF DnsUpdate, GetRecords
  <2>2. UNCHANGED <<zone, ttl>>
    BY <1>2, Zenon DEF DnsUpdate
  <2>3. \A h \in DOMAIN m : m[h] \in Frontends => InPlace(zone[h], m[h]) \/ h \in upserts'
    BY <2>1, Zenon DEF Upserts
  <2>4. \A h \in Domain : zone[h].to \in Frontends => h \in DOMAIN m \/ h \in DOMAIN deletes'
    <3>1. DOMAIN Deletes(zone, m) = Managed(zone) \ DOMAIN m
      BY PlanFacts, Zenon DEF DnsTypeOK
    <3> QED
      BY <2>1, <3>1 DEF Managed
  <2> QED
    BY <2>1, <2>2, <2>3, <2>4, Zenon
<1>3. CASE Batch
  <2> SUFFICES ASSUME updater' = "changing", ~touched' PROVE LacksInv'
    OBVIOUS
  <2>1. PICK U \in SUBSET upserts, D \in SUBSET DOMAIN deletes :
          /\ Accepted(D) /\ zone' = Applied(U, D)
          /\ upserts' = upserts \ U
          /\ deletes' = [h \in DOMAIN deletes \ D |-> deletes[h]]
    BY <1>3, BatchCases, Zenon
  <2>2. UNCHANGED <<ttl, hostToIngress, touched>> /\ updater = "changing"
    BY <1>3, BatchCases, Zenon
  <2>3. DOMAIN hostToIngress \subseteq Domain
    BY PartialElim, Zenon DEF DnsTypeOK
  <2>4. \A h \in Domain :
          /\ h \in U => zone'[h] = [to |-> hostToIngress[h], ttl |-> ttl]
          /\ h \notin U /\ h \in D => zone'[h] = NoRecord
          /\ h \notin U /\ h \notin D => zone'[h] = zone[h]
    BY <2>1, BatchRecords, Zenon
  <2>5. ASSUME NEW h \in DOMAIN hostToIngress, hostToIngress[h] \in Frontends
        PROVE  InPlace(zone[h], hostToIngress[h])' \/ h \in upserts'
    <3>1. h \in Domain /\ h \notin D
      BY <2>3, <2>1, Zenon DEF ChangesInv
    <3>2. CASE h \in U
      <4>1. zone'[h] = [to |-> hostToIngress[h], ttl |-> ttl]
        BY <2>4, <3>1, <3>2, Zenon
      <4> QED
        BY <2>2, <4>1
    <3>3. CASE h \notin U
      <4>1. zone'[h] = zone[h]
        BY <2>4, <3>1, <3>3, Zenon
      <4> QED
        BY <2>1, <2>2, <2>5, <3>3, <4>1
    <3> QED
      BY <3>2, <3>3, Zenon
  <2>6. ASSUME NEW h \in Domain, zone'[h].to \in Frontends
        PROVE  h \in DOMAIN hostToIngress \/ h \in DOMAIN deletes'
    <3>1. CASE h \in U
      BY <3>1, Zenon DEF ChangesInv
    <3>2. CASE h \notin U /\ h \in D
      <4>1. zone'[h] = NoRecord
        BY <2>4, <3>2, Zenon
      <4> QED
        BY <2>6, <4>1, NoRecordFacts
    <3>3. CASE h \notin U /\ h \notin D
      <4>1. zone'[h] = zone[h]
        BY <2>4, <3>3, Zenon
      <4> QED
        BY <2>1, <2>2, <2>6, <3>3, <4>1, Zenon
    <3> QED
      BY <3>1, <3>2, <3>3, Zenon
  <2> QED
    BY <2>2, <2>5, <2>6, Zenon
<1>4. CASE UpdateReturns
  BY <1>4, Zenon DEF UpdateReturns
<1>5. CASE EditZone
  BY <1>5, Zenon DEF EditZone
<1>6. CASE EditEntries
  BY <1>6, Zenon DEF EditEntries
<1>7. CASE Restart
  BY <1>7, Zenon DEF Restart
<1>8. CASE UNCHANGED dnsVars
  BY <1>8, Zenon DEF dnsVars
<1> QED
  BY <1>1, <1>2, <1>3, <1>4, <1>5, <1>6, <1>7, <1>8, ZenonT(60) DEF DnsNext, Feed

\* Every step keeps a settled zone settled, or begins again.
LEMMA StepSettled == DnsInv /\ [DnsNext]_dnsVars => SettledInv'
<1> SUFFICES ASSUME DnsInv, [DnsNext]_dnsVars PROVE SettledInv'
  OBVIOUS
<1> USE DEF DnsInv, SettledInv, SettledAgrees, Agrees, InPlace, Managed, dnsUpdateVars
<1>1. CASE Start
  BY <1>1, Zenon DEF Start
<1>2. CASE DnsUpdate
  BY <1>2, Zenon DEF DnsUpdate
<1>3. CASE Batch
  BY <1>3, BatchCases
<1>4. CASE UpdateReturns
  BY <1>4, Zenon DEF UpdateReturns, LacksInv
<1>5. CASE EditZone
  BY <1>5, Zenon DEF EditZone
<1>6. CASE EditEntries
  BY <1>6, Zenon DEF EditEntries
<1>7. CASE Restart
  BY <1>7, Zenon DEF Restart
<1>8. CASE UNCHANGED dnsVars
  BY <1>8, Zenon DEF dnsVars
<1> QED
  BY <1>1, <1>2, <1>3, <1>4, <1>5, <1>6, <1>7, <1>8, ZenonT(60) DEF DnsNext, Feed

\* The invariant holds when the program is started.
LEMMA DnsInvInit == DnsInit => DnsInv
<1> SUFFICES ASSUME DnsInit PROVE DnsInv
  OBVIOUS
<1>1. touched \in BOOLEAN /\ settled \in BOOLEAN
  BY Zenon DEF DnsInit
<1>2. ZoneSorts
  BY DnsAssumption, NoChangesType DEF DnsInit, ZoneSorts
<1>3. ChangesInv
  BY NoChangesType, Zenon DEF DnsInit, ChangesInv
<1>4. LacksInv /\ SettledInv
  BY DEF DnsInit, LacksInv, SettledInv, SettledAgrees
<1> QED
  BY <1>1, <1>2, <1>3, <1>4, Zenon DEF DnsInv, DnsTypeOK, ZoneSorts

\* The inductive invariant holds throughout.
LEMMA DnsInvariance == DnsSafetySpec => []DnsInv
<1>1. DnsInv /\ [DnsNext]_dnsVars => DnsInv'
  BY StepZoneFlags, StepSorts, StepChanges, StepLacks, StepSettled, Zenon DEF DnsInv, DnsTypeOK, ZoneSorts
<1> QED
  BY DnsInvInit, <1>1, PTL DEF DnsSafetySpec

-----------------------------------------------------------------------------
\* Every variable of feed-dns keeps its type.
THEOREM DnsTypeCorrect == DnsSafetySpec => []DnsTypeOK
<1>1. DnsInv => DnsTypeOK
  BY DEF DnsInv
<1> QED
  BY DnsInvariance, <1>1, PTL

\* An Update that returns nil (updater.Update, UpdateRecordSets) has made the zone
\* agree with its entries, however large a batch is.
THEOREM SettledZoneAgrees == DnsSafetySpec => []SettledAgrees
<1>1. DnsInv => SettledAgrees
  BY DEF DnsInv, SettledInv
<1> QED
  BY DnsInvariance, <1>1, PTL

\* No batch changes a record that does not point to a front end, for a host
\* without an entry, even one edited after GetRecords.
THEOREM OthersStayUntouched == DnsSafetySpec => OthersUntouched
<1>1. DnsInv /\ [DnsNext]_dnsVars =>
        [Batch => \A h \in Domain \ DOMAIN hostToIngress :
           h \notin Managed(zone) => zone'[h] = zone[h]]_dnsVars
  <2> SUFFICES ASSUME DnsInv, Batch, NEW h \in Domain \ DOMAIN hostToIngress, h \notin Managed(zone)
               PROVE  zone'[h] = zone[h]
    OBVIOUS
  <2>1. PICK U \in SUBSET upserts, D \in SUBSET DOMAIN deletes :
          zone' = zone \/ (Accepted(D) /\ zone' = Applied(U, D))
    BY BatchCases, Zenon
  <2>2. h \notin U
    BY Zenon DEF DnsInv, ChangesInv
  <2>3. Accepted(D) => h \notin D
    BY Zenon DEF DnsInv, ChangesInv, Accepted, Managed
  <2>4. h \notin D => Applied(U, D)[h] = zone[h]
    BY <2>2 DEF Applied
  <2> QED
    BY <2>1, <2>3, <2>4, Zenon
<1> QED
  BY DnsInvariance, <1>1, PTL DEF DnsSafetySpec, OthersUntouched

\* No batch takes away the record of a host that has an entry.
THEOREM EntriesKeepRecords == DnsSafetySpec => HostsKeepRecords
<1>1. DnsInv /\ [DnsNext]_dnsVars =>
        [Batch => \A h \in DOMAIN hostToIngress :
           zone[h] # NoRecord => zone'[h] # NoRecord]_dnsVars
  <2> SUFFICES ASSUME DnsInv, Batch, NEW h \in DOMAIN hostToIngress, zone[h] # NoRecord
               PROVE  zone'[h] # NoRecord
    OBVIOUS
  <2>1. PICK U \in SUBSET upserts, D \in SUBSET DOMAIN deletes :
          zone' = zone \/ (Accepted(D) /\ zone' = Applied(U, D))
    BY BatchCases, Zenon
  <2>2. h \in Domain
    BY PartialElim, Zenon DEF DnsInv, DnsTypeOK
  <2>3. h \notin D
    BY Zenon DEF DnsInv, ChangesInv
  <2>4. Applied(U, D)[h] \in {[to |-> hostToIngress[h], ttl |-> ttl], zone[h]}
    BY <2>2, <2>3, Zenon DEF Applied
  <2>5. [to |-> hostToIngress[h], ttl |-> ttl] # NoRecord
    BY NoRecordFacts
  <2> QED
    BY <2>1, <2>4, <2>5, Zenon
<1> QED
  BY DnsInvariance, <1>1, PTL DEF DnsSafetySpec, HostsKeepRecords
-----------------------------------------------------------------------------
\* The number of changes that UpdateRecordSets has not sent yet.
Pending == Cardinality(upserts) + Cardinality(DOMAIN deletes)

\* UpdateRecordSets makes progress and respects the limit of Route 53: each batch
\* that is accepted sends at least one change and at most BatchSize of them, and
\* no change is sent twice.
BatchesProgress ==
  [][Batch /\ updater' = "changing" =>
       Pending' < Pending /\ Pending - Pending' <= BatchSize]_dnsVars

\* Update is idempotent: for the entries with which an earlier one has settled the
\* zone it finds nothing to change, whichever of the entries of a host comes first.
ResyncSendsNothing ==
  [][DnsUpdate /\ settled /\ hostToIngress' = hostToIngress =>
       upserts' = {} /\ DOMAIN deletes' = {}]_dnsVars

\* The changes in hand are finite in number.
LEMMA ChangesAreFinite ==
  ASSUME DnsInv
  PROVE  IsFiniteSet(upserts) /\ IsFiniteSet(DOMAIN deletes)
<1>1. IsFiniteSet(Domain)
  BY DnsAssumption, FS_Subset, Zenon
<1>2. upserts \in SUBSET Domain
  BY PartialElim DEF DnsInv, DnsTypeOK
<1>3. DOMAIN deletes \in SUBSET Domain
  BY PartialElim DEF DnsInv, DnsTypeOK
<1> QED
  BY <1>1, <1>2, <1>3, FS_Subset, Zenon

\* The smaller of two numbers.
LEMMA MinOfTwo ==
  ASSUME NEW a \in Nat, NEW b \in Nat
  PROVE  Min({a, b}) = IF a <= b THEN a ELSE b
<1> DEFINE m == IF a <= b THEN a ELSE b
<1>1. m \in {a, b} /\ \A y \in {a, b} : m <= y
  OBVIOUS
<1>2. \A x \in {a, b} : (\A y \in {a, b} : x <= y) => x = m
  OBVIOUS
<1> HIDE DEF m
<1>3. Min({a, b}) = m
  BY <1>1, <1>2, Zenon DEF Min
<1> QED
  BY <1>3 DEF m

\* Taking a part away from a finite set takes away as many elements as it has.
LEMMA Remaining ==
  ASSUME NEW S, IsFiniteSet(S), NEW T \in SUBSET S
  PROVE  /\ Cardinality(S) \in Nat /\ Cardinality(T) \in Nat /\ Cardinality(S \ T) \in Nat
         /\ Cardinality(S \ T) = Cardinality(S) - Cardinality(T)
<1>1. IsFiniteSet(T)
  BY FS_Subset
<1>2. IsFiniteSet(S \ T) /\ Cardinality(S \ T) = Cardinality(S) - Cardinality(S \cap T)
  BY FS_Difference
<1>3. S \cap T = T
  OBVIOUS
<1>4. Cardinality(S) \in Nat /\ Cardinality(T) \in Nat /\ Cardinality(S \ T) \in Nat
  BY <1>1, <1>2, FS_CardinalityType
<1> QED
  BY <1>2, <1>3, <1>4, Zenon

\* The loop of UpdateRecordSets over the ranges of Partition ends: the number of
\* changes that are left decreases with every batch, by no more than a batch holds.
THEOREM BatchesMakeProgress == DnsSafetySpec => BatchesProgress
<1>1. DnsInv /\ [DnsNext]_dnsVars =>
        [Batch /\ updater' = "changing" =>
           Pending' < Pending /\ Pending - Pending' <= BatchSize]_dnsVars
  <2> SUFFICES ASSUME DnsInv, Batch, updater' = "changing"
               PROVE  Pending' < Pending /\ Pending - Pending' <= BatchSize
    OBVIOUS
  <2>1. upserts # {} \/ DOMAIN deletes # {}
    BY Zenon DEF Batch
  <2>2. PICK U \in SUBSET upserts, D \in SUBSET DOMAIN deletes :
          /\ NextBatch(U, D)
          /\ upserts' = upserts \ U
          /\ deletes' = [h \in DOMAIN deletes \ D |-> deletes[h]]
    BY DEF Batch
  <2>3. DOMAIN deletes' = DOMAIN deletes \ D
    BY <2>2, Zenon
  <2> DEFINE u == Cardinality(upserts)
             d == Cardinality(DOMAIN deletes)
             n == Cardinality(U) + Cardinality(D)
  <2>4. u \in Nat /\ Cardinality(U) \in Nat /\ Cardinality(upserts') = u - Cardinality(U)
    BY <2>2, ChangesAreFinite, Remaining, Zenon
  <2>5. d \in Nat /\ Cardinality(D) \in Nat /\ Cardinality(DOMAIN deletes') = d - Cardinality(D)
    BY <2>3, ChangesAreFinite, Remaining, Zenon
  <2>6. u # 0 \/ d # 0
    BY <2>1, ChangesAreFinite, FS_EmptySet
  <2>7. n = Min({BatchSize, u + d})
    BY <2>2, Zenon DEF NextBatch
  <2>8. Pending = u + d /\ Pending' = Cardinality(upserts') + Cardinality(DOMAIN deletes')
    BY DEF Pending
  <2>9. BatchSize \in Nat \ {0}
    BY DnsAssumption, Zenon
  <2> HIDE DEF u, d
  <2>10. n = IF BatchSize <= u + d THEN BatchSize ELSE u + d
    BY <2>4, <2>5, <2>7, <2>9, MinOfTwo
  <2>11. n \in Nat /\ Pending' = Pending - n
    BY <2>4, <2>5, <2>8
  <2>12. Pending \in Nat \ {0}
    BY <2>4, <2>5, <2>6, <2>8
  <2>13. n = IF BatchSize <= Pending THEN BatchSize ELSE Pending
    BY <2>8, <2>10
  <2> HIDE DEF n
  <2> QED
    BY <2>9, <2>11, <2>12, <2>13
<1> QED
  BY DnsInvariance, <1>1, PTL DEF DnsSafetySpec, BatchesProgress

\* A resync with unchanged entries sends Route 53 nothing.
THEOREM ResyncIsQuiet == DnsSafetySpec => ResyncSendsNothing
<1>1. DnsInv /\ [DnsNext]_dnsVars =>
        [DnsUpdate /\ settled /\ hostToIngress' = hostToIngress =>
           upserts' = {} /\ DOMAIN deletes' = {}]_dnsVars
  <2> SUFFICES ASSUME DnsInv, DnsUpdate, settled, hostToIngress' = hostToIngress
               PROVE  upserts' = {} /\ DOMAIN deletes' = {}
    OBVIOUS
  <2>1. upserts' = Upserts(zone, hostToIngress) /\ deletes' = Deletes(zone, hostToIngress)
    BY Zenon DEF DnsUpdate, GetRecords
  <2>2. Agrees(zone, hostToIngress)
    BY Zenon DEF DnsInv, SettledInv, SettledAgrees
  <2>3. Upserts(zone, hostToIngress) = {}
    BY <2>2, Zenon DEF Agrees, Upserts
  <2>4. DOMAIN Deletes(zone, hostToIngress) = {}
    BY <2>2 DEF Agrees, Deletes
  <2> QED
    BY <2>1, <2>3, <2>4, Zenon
<1> QED
  BY DnsInvariance, <1>1, PTL DEF DnsSafetySpec, ResyncSendsNothing
=============================================================================
