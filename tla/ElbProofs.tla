----------------------------- MODULE ElbProofs ------------------------------
(***************************************************************************)
(* Proofs about ElbUpdater, for any sets of load balancers, any expected   *)
(* number and any number of changes and failures.                          *)
(***************************************************************************)
EXTENDS ElbUpdater, FiniteSetTheorems, TLAPS

\* While an attempt registers, what it has chosen is saved and what is no longer
\* to do is done; once done, all of it is, until Stop.
AttachInv ==
  /\ KnownUnlessReplaced
  /\ Cardinality(elbs) \in 0..2
  /\ todo \subseteq elbs
  /\ update # "register" => todo = {}
  /\ update = "register" /\ stop = "idle" => elbs \ todo \subseteq registered
  /\ done => /\ update = "idle"
             /\ Expected > 0 => Cardinality(elbs) = Expected
             /\ stop = "idle" => elbs \subseteq registered
  /\ Expected > 0 /\ registeredFrontends = Expected => done

\* A Stop without failures and without an Update beside it has detached what is no
\* longer to do.
StopInv ==
  stop = "deregister" /\ ~stopFailed /\ ~overlap =>
    update = "idle" /\ registered \subseteq stopTodo \cup replaced

\* When Stop has returned nil and no Update was attaching while it ran or since, the
\* instance is registered only with load balancers that e.elbs had lost, and no Update
\* is attaching: the shutdown has taken the instance out of service for good.
StoppedCleanly ==
  stop = "nil" /\ ~overlap => update = "idle" /\ registered \subseteq replaced

\* The flags are truth values.
Flags ==
  done \in BOOLEAN /\ ready \in BOOLEAN /\ stopFailed \in BOOLEAN /\ overlap \in BOOLEAN

\* The inductive invariant.
Inv == TypeOK /\ AttachInv /\ StopInv

-----------------------------------------------------------------------------
\* A set whose elements are all equal has at most one.
LEMMA AtMostOne ==
  ASSUME NEW S, \A x, y \in S : x = y
  PROVE  IsFiniteSet(S) /\ Cardinality(S) \in 0..1
<1>1. CASE S = {}
  BY <1>1, FS_EmptySet
<1>2. CASE S # {}
  <2>1. PICK x : x \in S
    BY <1>2
  <2>2. S = {x}
    BY <2>1
  <2>3. IsFiniteSet({x}) /\ Cardinality({x}) = 1
    BY FS_Singleton, Zenon
  <2> QED
    BY <2>2, <2>3
<1> QED
  BY <1>1, <1>2

\* The choice of FindFrontEndElbsWithIngressClassName has at most one load
\* balancer of each scheme, so at most two.
LEMMA AtMostTwo ==
  ASSUME NEW S, S \subseteq LBs, NEW T \in OnePerScheme(S)
  PROVE  T \subseteq S /\ Cardinality(T) \in 0..2
<1> DEFINE I == T \cap Internal
           J == T \cap Facing
<1>0. /\ \A x, y \in T \cap Internal : x = y
      /\ \A x, y \in T \cap Facing : x = y
  BY DEF OnePerScheme
<1>1. T \subseteq S /\ T = I \cup J
  BY DEF OnePerScheme, LBs
<1>2. IsFiniteSet(I) /\ Cardinality(I) \in 0..1
  BY <1>0, AtMostOne
<1>3. IsFiniteSet(J) /\ Cardinality(J) \in 0..1
  BY <1>0, AtMostOne
<1>4. I \cap J = {}
  BY ElbAssumption
<1>5. Cardinality(I \cup J) = Cardinality(I) + Cardinality(J) - Cardinality(I \cap J)
  BY <1>2, <1>3, FS_Union
<1>6. Cardinality(I \cap J) = 0
  BY <1>4, FS_EmptySet
<1> HIDE DEF I, J
<1> QED
  BY <1>1, <1>2, <1>3, <1>5, <1>6

\* The initial states satisfy the invariant.
LEMMA InitInv == Init => Inv
<1> SUFFICES ASSUME Init PROVE Inv
  OBVIOUS
<1> USE ElbAssumption DEF Init
<1>1. TypeOK
  <2>1. Flags
    BY Zenon DEF Flags
  <2> QED
    BY <2>1 DEF TypeOK, Flags
<1>2. AttachInv
  <2>1. Cardinality({}) = 0
    BY FS_EmptySet
  <2> QED
    BY <2>1 DEF AttachInv, KnownUnlessReplaced
<1>3. StopInv
  BY DEF StopInv
<1> QED
  BY <1>1, <1>2, <1>3 DEF Inv

\* A step keeps them so.
LEMMA StepFlags == Flags /\ [Next]_vars => Flags'
<1> SUFFICES ASSUME Flags, [Next]_vars PROVE Flags'
  OBVIOUS
<1> USE DEF Flags, updateVars, stopVars
<1>1. CASE Update
  BY <1>1, Zenon DEF Update
<1>2. CASE Find
  BY <1>2, Zenon DEF Find
<1>3. CASE Register
  BY <1>3, Zenon DEF Register
<1>4. CASE Attached
  BY <1>4, Zenon DEF Attached
<1>5. CASE Stop
  BY <1>5, Zenon DEF Stop
<1>6. CASE Deregister
  BY <1>6, Zenon DEF Deregister
<1>7. CASE StopReturns
  BY <1>7, Zenon DEF StopReturns
<1>8. CASE Retag
  BY <1>8, Zenon DEF Retag
<1>9. CASE UNCHANGED vars
  BY <1>9, Zenon DEF vars
<1> QED
  BY <1>1, <1>2, <1>3, <1>4, <1>5, <1>6, <1>7, <1>8, <1>9 DEF Next, UpdateSteps, StopSteps

\* Every step preserves the types.
LEMMA StepTypes == Inv /\ [Next]_vars => TypeOK'
<1> SUFFICES ASSUME Inv, [Next]_vars PROVE TypeOK'
  OBVIOUS
<1> DEFINE Rest ==
      /\ tagged \subseteq LBs /\ registered \subseteq LBs
      /\ elbs \subseteq LBs /\ todo \subseteq LBs
      /\ registeredFrontends \in 0..2
      /\ update \in {"idle", "find", "register"}
      /\ stop \in {"idle", "deregister", "nil", "error"}
      /\ stopTodo \subseteq LBs
      /\ changes \in 0..MaxChanges /\ failures \in 0..MaxFailures
      /\ replaced \subseteq LBs
<1>0. Flags /\ Rest
  BY DEF Inv, TypeOK, Flags
<1> USE ElbAssumption, <1>0 DEF updateVars, stopVars, Fails, MaybeRegister, MaybeDeregister
<1>1. ASSUME Update PROVE Rest'
  BY <1>1 DEF Update
<1>2. ASSUME Find PROVE Rest'
  BY <1>2, AtMostTwo DEF Find
<1>3. ASSUME Register PROVE Rest'
  BY <1>3 DEF Register
<1>4. ASSUME Attached PROVE Rest'
  BY <1>4 DEF Attached, Inv, AttachInv
<1>5. ASSUME Stop PROVE Rest'
  BY <1>5 DEF Stop
<1>6. ASSUME Deregister PROVE Rest'
  BY <1>6 DEF Deregister
<1>7. ASSUME StopReturns PROVE Rest'
  BY <1>7 DEF StopReturns
<1>8. ASSUME Retag PROVE Rest'
  BY <1>8 DEF Retag
<1>9. ASSUME UNCHANGED vars PROVE Rest'
  BY <1>9 DEF vars
<1>10. Rest'
  BY <1>1, <1>2, <1>3, <1>4, <1>5, <1>6, <1>7, <1>8, <1>9, Zenon DEF Next, UpdateSteps, StopSteps
<1> QED
  BY <1>10, StepFlags DEF TypeOK, Flags

\* Every step preserves AttachInv.
LEMMA StepAttach == Inv /\ [Next]_vars => AttachInv'
<1> SUFFICES ASSUME Inv, [Next]_vars PROVE AttachInv'
  OBVIOUS
<1> USE ElbAssumption
      DEF Inv, AttachInv, KnownUnlessReplaced, updateVars, stopVars, MaybeRegister, MaybeDeregister
<1>1. CASE Update
  BY <1>1 DEF Update
<1>2. CASE Find
  BY <1>2, AtMostTwo DEF Find, TypeOK
<1>3. CASE Register
  BY <1>3 DEF Register
<1>4. CASE Attached
  BY <1>4, Zenon DEF Attached
<1>5. CASE Stop
  BY <1>5 DEF Stop
<1>6. CASE Deregister
  BY <1>6 DEF Deregister
<1>7. CASE StopReturns
  BY <1>7 DEF StopReturns
<1>8. CASE Retag
  BY <1>8 DEF Retag
<1>9. CASE UNCHANGED vars
  BY <1>9 DEF vars
<1> QED
  BY <1>1, <1>2, <1>3, <1>4, <1>5, <1>6, <1>7, <1>8, <1>9 DEF Next, UpdateSteps, StopSteps

\* Every step preserves StopInv.
LEMMA StepStop == Inv /\ [Next]_vars => StopInv'
<1> SUFFICES ASSUME Inv, [Next]_vars PROVE StopInv'
  OBVIOUS
<1> USE DEF Inv, StopInv, updateVars, stopVars, MaybeRegister, MaybeDeregister
<1>1. CASE Update
  BY <1>1, Zenon DEF Update
<1>2. CASE Find
  BY <1>2 DEF Find
<1>3. CASE Register
  BY <1>3 DEF Register
<1>4. CASE Attached
  BY <1>4 DEF Attached
<1>5. CASE Stop
  BY <1>5, Zenon DEF Stop, AttachInv, KnownUnlessReplaced
<1>6. CASE Deregister
  BY <1>6 DEF Deregister
<1>7. CASE StopReturns
  BY <1>7 DEF StopReturns
<1>8. CASE Retag
  BY <1>8 DEF Retag
<1>9. CASE UNCHANGED vars
  BY <1>9 DEF vars
<1> QED
  BY <1>1, <1>2, <1>3, <1>4, <1>5, <1>6, <1>7, <1>8, <1>9 DEF Next, UpdateSteps, StopSteps

\* The invariant holds in every reachable state.
LEMMA Invariance == Spec => []Inv
<1>1. Inv /\ [Next]_vars => Inv'
  BY StepTypes, StepAttach, StepStop DEF Inv
<1> QED
  BY InitInv, <1>1, PTL DEF Spec, SafetySpec

-----------------------------------------------------------------------------
\* The types of the ELB updater.
THEOREM TypeCorrect == Spec => []TypeOK
<1>1. Inv => TypeOK
  BY DEF Inv
<1> QED
  BY Invariance, <1>1, PTL

\* Readiness is earned: an updater that answers that it is ready is registered with
\* as many load balancers that it knows as are expected.
THEOREM ReadinessIsEarned == Spec => []ReadyMeansAttached
<1>1. Inv => ReadyMeansAttached
  <2> SUFFICES ASSUME Inv, Expected > 0, Readiness, stop = "idle"
               PROVE  Cardinality(registered \cap elbs) = Expected
    BY DEF ReadyMeansAttached
  <2>1. done /\ elbs \subseteq registered /\ Cardinality(elbs) = Expected
    BY DEF Inv, AttachInv, Readiness, Health
  <2>2. registered \cap elbs = elbs
    BY <2>1
  <2> QED
    BY <2>1, <2>2
<1> QED
  BY Invariance, <1>1, PTL

\* The updater implements Frontend: a step of attachToFrontEnds or of Stop is a step
\* of the promise, and Stop returns nil only when the promise allows it.
THEOREM RefinesFrontend == Spec => ImplementsFrontend
<1>1. Init => F!Init
  BY DEF Init, F!Init
<1>2. Inv /\ Inv' /\ [Next]_vars => [F!Next]_F!vars
  <2> SUFFICES ASSUME Inv, Inv', [Next]_vars PROVE [F!Next]_F!vars
    OBVIOUS
  <2> USE DEF Inv, TypeOK, F!vars, updateVars, stopVars
  <2>1. CASE Update
    BY <2>1 DEF Update, F!Next, F!BeginUpdate
  <2>2. CASE Find
    BY <2>2 DEF Find, F!Next, F!Attach
  <2>3. CASE Register
    BY <2>3 DEF Register, MaybeRegister, F!Next, F!Attach
  <2>4. CASE Attached
    BY <2>4 DEF Attached, F!Next, F!Attach
  <2>5. CASE Stop
    BY <2>5 DEF Stop, F!Next, F!BeginStop
  <2>6. CASE Deregister
    BY <2>6 DEF Deregister, MaybeDeregister, F!Next, F!Detach
  <2>7. CASE StopReturns
    BY <2>7 DEF StopReturns, StopInv, F!Next, F!EndStop
  <2>8. CASE Retag
    BY <2>8 DEF Retag
  <2>9. CASE UNCHANGED vars
    BY <2>9 DEF vars
  <2> QED
    BY <2>1, <2>2, <2>3, <2>4, <2>5, <2>6, <2>7, <2>8, <2>9 DEF Next, UpdateSteps, StopSteps
<1> QED
  BY Invariance, <1>1, <1>2, PTL DEF Spec, SafetySpec, ImplementsFrontend, F!Spec

\* A nil from Stop means that the instance is out of service, and stays so: what is
\* registered afterwards is registered by an Update that the overlap records.
THEOREM StopEndsService == Spec => []StoppedCleanly
<1>1. Init => StoppedCleanly
  BY DEF Init, StoppedCleanly
<1>2. Inv /\ StoppedCleanly /\ [Next]_vars => StoppedCleanly'
  <2> SUFFICES ASSUME Inv, StoppedCleanly, [Next]_vars PROVE StoppedCleanly'
    OBVIOUS
  <2> USE DEF StoppedCleanly, updateVars, stopVars
  <2>1. CASE Update
    BY <2>1, Zenon DEF Update
  <2>2. CASE Find
    BY <2>2 DEF Find
  <2>3. CASE Register
    BY <2>3 DEF Register
  <2>4. CASE Attached
    BY <2>4 DEF Attached
  <2>5. CASE Stop
    BY <2>5 DEF Stop
  <2>6. CASE Deregister
    BY <2>6 DEF Deregister
  <2>7. CASE StopReturns
    BY <2>7 DEF StopReturns, Inv, StopInv
  <2>8. CASE Retag
    BY <2>8 DEF Retag
  <2>9. CASE UNCHANGED vars
    BY <2>9 DEF vars
  <2> QED
    BY <2>1, <2>2, <2>3, <2>4, <2>5, <2>6, <2>7, <2>8, <2>9 DEF Next, UpdateSteps, StopSteps
<1> QED
  BY Invariance, <1>1, <1>2, PTL DEF Spec, SafetySpec
=============================================================================
