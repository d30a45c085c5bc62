------------------------- MODULE ControllerProofs -------------------------
(***************************************************************************)
(* Proofs about Controller, for any number of updaters, any goroutines     *)
(* calling Start and Stop in any order, any number of changes and failures.*)
(***************************************************************************)
EXTENDS Controller, TLAPS

\* The mutex is held by the one client that is inside a method.
LockInv == \A c \in Clients : call[c] # "idle" <=> lock = c

\* How far a client's Start or Stop has come.
CallInv ==
  /\ \A c \in Clients :
       /\ call[c] = "starting" =>
            /\ ~started /\ ~watching /\ at[c] \in 1..N + 1
            /\ \A u \in Updaters : (updater[u] = "started") <=> u < at[c]
       /\ call[c] = "cleaning" =>
            /\ ~started /\ ~watching /\ at[c] \in Updaters
            /\ \A u \in Updaters : updater[u] = "started" => u < at[c]
       /\ call[c] = "stopping" =>
            /\ started /\ at[c] \in 0..N
            /\ \A u \in Updaters : (updater[u] = "started") <=> u <= at[c]
  /\ LifecyclesAgree
  /\ started => watching

\* There is one goroutine of handleUpdates once watching, and none before.
OneHandler ==
  /\ \A g, h \in Goroutines : handler[g] # "none" /\ handler[h] # "none" => g = h
  /\ ~watching => \A g \in Goroutines : handler[g] = "none"

\* The versions the updaters have, against the version that is being applied.
OrderInv ==
  /\ NeverAhead
  /\ \A u \in Updaters : applied[u] <= version
  /\ \A g \in Goroutines :
       /\ read[g] <= version
       /\ handler[g] = "updating" =>
            /\ \A u \in Updaters : u < working[g] => applied[u] = read[g]
            /\ \A u \in Updaters : applied[u] <= read[g]

\* What a goroutine has read or done is out of date only if an update is
\* pending.
FreshInv ==
  /\ ~watching => (pending \/ version = 0) /\ \A u \in Updaters : applied[u] = 0
  /\ \A g \in Goroutines :
       /\ handler[g] = "updating" => pending \/ read[g] = version
       /\ handler[g] = "returned" /\ result[g] = "ok"
            => pending \/ \A u \in Updaters : applied[u] = version
  /\ HealthAtRest

\* The inductive invariant.
Inv == TypeOK /\ LockInv /\ CallInv /\ OneHandler /\ OrderInv /\ FreshInv

-----------------------------------------------------------------------------
\* The initial state satisfies the invariant.
LEMMA InitInv == Init => Inv
<1> SUFFICES ASSUME Init PROVE Inv
  OBVIOUS
<1> USE ControllerAssumption, NoClientAssumption DEF Init, Updaters
<1>1. TypeOK
  <2>1. started \in BOOLEAN /\ watching \in BOOLEAN /\ stopCh \in BOOLEAN /\ pending \in BOOLEAN
    BY Zenon
  <2>2. /\ call \in [Clients -> {"idle", "starting", "cleaning", "stopping"}]
        /\ updater \in [Updaters -> {"new", "started", "stopped"}]
        /\ handler \in [Goroutines -> {"none", "select", "reading", "updating", "returned", "stopped"}]
        /\ result \in [Goroutines -> Results] /\ updatesHealth \in Results
    BY DEF Results
  <2> QED BY <2>1, <2>2 DEF TypeOK
<1>2. LockInv
  BY DEF LockInv
<1>3. CallInv
  BY DEF CallInv, LifecyclesAgree
<1>4. OneHandler
  BY DEF OneHandler
<1>5. OrderInv
  BY DEF OrderInv, NeverAhead
<1>6. FreshInv
  BY DEF FreshInv, HealthAtRest
<1> QED BY <1>1, <1>2, <1>3, <1>4, <1>5, <1>6 DEF Inv

\* TypeOK, by the groups of variables that actions leave alone together.
ClientTypes ==
  /\ lock \in Clients \cup {NoClient}
  /\ call \in [Clients -> {"idle", "starting", "cleaning", "stopping"}]
  /\ at \in [Clients -> 0..N + 1]

LifeTypes ==
  /\ started \in BOOLEAN /\ watching \in BOOLEAN /\ stopCh \in BOOLEAN
  /\ updater \in [Updaters -> {"new", "started", "stopped"}]

HandlerTypes ==
  /\ handler \in [Goroutines -> {"none", "select", "reading", "updating", "returned", "stopped"}]
  /\ working \in [Goroutines -> Updaters] /\ read \in [Goroutines -> 0..MaxVersion]
  /\ result \in [Goroutines -> Results] /\ updatesHealth \in Results
  /\ applied \in [Updaters -> 0..MaxVersion] /\ failures \in 0..MaxFailures

ClusterTypes == version \in 0..MaxVersion /\ pending \in BOOLEAN

LEMMA TypeGroups ==
  /\ TypeOK <=> ClientTypes /\ LifeTypes /\ HandlerTypes /\ ClusterTypes
  /\ TypeOK' <=> ClientTypes' /\ LifeTypes' /\ HandlerTypes' /\ ClusterTypes'
  BY Zenon DEF TypeOK, ClientTypes, LifeTypes, HandlerTypes, ClusterTypes

LEMMA SameTypes ==
  /\ ClientTypes /\ UNCHANGED clientVars => ClientTypes'
  /\ LifeTypes /\ UNCHANGED lifeVars => LifeTypes'
  /\ HandlerTypes /\ UNCHANGED handlerVars => HandlerTypes'
  /\ ClusterTypes /\ UNCHANGED clusterVars => ClusterTypes'
<1>1. ClientTypes /\ UNCHANGED clientVars => ClientTypes'
  BY DEF ClientTypes, clientVars
<1>2. LifeTypes /\ UNCHANGED lifeVars => LifeTypes'
  BY DEF LifeTypes, lifeVars
<1>3. HandlerTypes /\ UNCHANGED handlerVars => HandlerTypes'
  BY DEF HandlerTypes, handlerVars
<1>4. ClusterTypes /\ UNCHANGED clusterVars => ClusterTypes'
  BY DEF ClusterTypes, clusterVars
<1> QED BY <1>1, <1>2, <1>3, <1>4

\* Start and Stop keep the types.
LEMMA ClientTypeStep ==
  ASSUME ClientTypes, LifeTypes, NEW c \in Clients, Client(c)
  PROVE  ClientTypes' /\ LifeTypes'
<1> USE ControllerAssumption
<1>1. ASSUME NEW to \in {"idle", "starting", "cleaning", "stopping"},
             call' = [call EXCEPT ![c] = to], lock' \in {c, NoClient, lock},
             at' = at \/ \E k \in 0..N + 1 : at' = [at EXCEPT ![c] = k]
      PROVE  ClientTypes'
  BY <1>1 DEF ClientTypes
<1>2. CASE Start(c)
  <2>1. 1 \in 0..N + 1 /\ lock' = c
    BY <1>2 DEF Start
  <2> QED BY <1>1, <1>2, <2>1, SameTypes, Zenon DEF Start
<1>3. CASE StartUpdater(c)
  <2>1. at[c] \in Updaters /\ at[c] + 1 \in 0..N + 1
    BY <1>3 DEF StartUpdater, Updaters
  <2>2. UNCHANGED lock /\ UNCHANGED <<started, watching, stopCh>>
    BY <1>3 DEF StartUpdater
  <2>3. CASE /\ updater' = [updater EXCEPT ![at[c]] = "started"]
             /\ at' = [at EXCEPT ![c] = @ + 1] /\ UNCHANGED call
    <3>1. ClientTypes'
      BY <2>1, <2>2, <2>3 DEF ClientTypes
    <3>2. LifeTypes'
      BY <2>2, <2>3, Zenon DEF LifeTypes
    <3> QED BY <3>1, <3>2
  <2>4. CASE call' = [call EXCEPT ![c] = "cleaning"] /\ UNCHANGED <<updater, at>>
    <3>1. UNCHANGED lifeVars
      BY <2>2, <2>4 DEF lifeVars
    <3> QED BY <1>1, <2>2, <2>4, <3>1, SameTypes
  <2> QED BY <1>3, <2>3, <2>4, Zenon DEF StartUpdater
<1>4. CASE StopStarted(c)
  <2>1. UNCHANGED clientVars /\ UNCHANGED <<started, watching, stopCh>>
    BY <1>4 DEF StopStarted
  <2>2. \E u \in Updaters : updater' = [updater EXCEPT ![u] = "stopped"]
    BY <1>4, Zenon DEF StopStarted
  <2>3. LifeTypes'
    BY <2>1, <2>2 DEF LifeTypes
  <2> QED BY <2>1, <2>3, SameTypes
<1>5. CASE StartFails(c)
  BY <1>1, <1>5, SameTypes DEF StartFails
<1>6. CASE watchForUpdates(c)
  <2>1. /\ call' = [call EXCEPT ![c] = "idle"] /\ lock' = NoClient
        /\ started' = TRUE /\ watching' = TRUE /\ UNCHANGED <<at, stopCh, updater>>
    BY <1>6 DEF watchForUpdates
  <2>2. LifeTypes'
    BY <2>1 DEF LifeTypes
  <2> QED BY <1>1, <2>1, <2>2
<1>7. CASE Stop(c)
  <2>1. /\ call' = [call EXCEPT ![c] = "stopping"] /\ lock' = c /\ stopCh' = TRUE
        /\ at' = [at EXCEPT ![c] = N] /\ UNCHANGED <<started, watching, updater>>
    BY <1>7 DEF Stop
  <2>2. LifeTypes'
    BY <2>1 DEF LifeTypes
  <2>3. N \in 0..N + 1
    OBVIOUS
  <2> QED BY <1>1, <2>1, <2>2, <2>3, Zenon
<1>8. CASE StopUpdater(c)
  <2>1. /\ updater' = [updater EXCEPT ![at[c]] = "stopped"]
        /\ at' = [at EXCEPT ![c] = @ - 1] /\ at[c] > 0
        /\ UNCHANGED <<lock, call, started, watching, stopCh>>
    BY <1>8 DEF StopUpdater
  <2>2. ClientTypes'
    BY <2>1 DEF ClientTypes
  <2>3. LifeTypes'
    BY <2>1, Zenon DEF LifeTypes
  <2> QED BY <2>2, <2>3
<1>9. CASE StopReturns(c)
  <2>1. /\ call' = [call EXCEPT ![c] = "idle"] /\ lock' = NoClient
        /\ started' = FALSE /\ UNCHANGED <<at, watching, stopCh, updater>>
    BY <1>9 DEF StopReturns
  <2>2. LifeTypes'
    BY <2>1, Zenon DEF LifeTypes
  <2> QED BY <1>1, <2>1, <2>2
<1> QED BY <1>2, <1>3, <1>4, <1>5, <1>6, <1>7, <1>8, <1>9, Zenon DEF Client

\* handleUpdates keeps the types.
LEMMA HandlerTypeStep ==
  ASSUME HandlerTypes, ClusterTypes, NEW g \in Goroutines, handleUpdates(g)
  PROVE  HandlerTypes' /\ ClusterTypes'
<1>1. ASSUME NEW to \in {"select", "reading", "updating", "returned", "stopped"},
             handler' = [handler EXCEPT ![g] = to]
      PROVE  handler' \in [Goroutines ->
               {"none", "select", "reading", "updating", "returned", "stopped"}]
  BY <1>1 DEF HandlerTypes
<1>2. Fails => failures' \in 0..MaxFailures
  BY ControllerAssumption DEF Fails, HandlerTypes
<1>3. ASSUME NEW err \in Results, Return(g, err)
      PROVE  /\ handler' \in [Goroutines ->
                  {"none", "select", "reading", "updating", "returned", "stopped"}]
             /\ result' \in [Goroutines -> Results]
  BY <1>1, <1>3 DEF Return, HandlerTypes
<1>4. CASE Receive(g)
  <2>1. /\ handler' = [handler EXCEPT ![g] = "reading"] /\ pending' = FALSE
        /\ UNCHANGED <<working, read, result, updatesHealth, applied, failures, version>>
    BY <1>4 DEF Receive
  <2>2. ClusterTypes'
    BY <2>1, Zenon DEF ClusterTypes
  <2> QED BY <1>1, <2>1, <2>2 DEF HandlerTypes
<1>5. CASE ReadCluster(g)
  <2>1. UNCHANGED <<updatesHealth, applied, clusterVars>>
    BY <1>5 DEF ReadCluster
  <2>2. CASE /\ read' = [read EXCEPT ![g] = version] /\ working' = [working EXCEPT ![g] = 1]
             /\ handler' = [handler EXCEPT ![g] = "updating"] /\ UNCHANGED <<result, failures>>
    <3>1. read' \in [Goroutines -> 0..MaxVersion]
      BY <2>2 DEF HandlerTypes, ClusterTypes
    <3>2. working' \in [Goroutines -> Updaters]
      BY <2>2, ControllerAssumption DEF HandlerTypes, Updaters
    <3> QED BY <1>1, <2>1, <2>2, <3>1, <3>2, SameTypes DEF HandlerTypes
  <2>3. CASE Fails /\ Return(g, "error") /\ UNCHANGED <<read, working>>
    BY <1>2, <1>3, <2>1, <2>3, SameTypes DEF HandlerTypes, Results
  <2> QED BY <1>5, <2>2, <2>3, Zenon DEF ReadCluster
<1>6. CASE UpdateNil(g)
  <2>1. /\ applied' = [applied EXCEPT ![working[g]] = read[g]]
        /\ UNCHANGED <<read, updatesHealth, failures, clusterVars>>
    BY <1>6 DEF UpdateNil
  <2>2. applied' \in [Updaters -> 0..MaxVersion]
    BY <2>1 DEF HandlerTypes
  <2>3. CASE /\ working[g] < N /\ working' = [working EXCEPT ![g] = @ + 1]
             /\ UNCHANGED <<handler, result>>
    <3>1. working' \in [Goroutines -> Updaters]
      BY <2>3, ControllerAssumption DEF HandlerTypes, Updaters
    <3> QED BY <2>1, <2>2, <2>3, <3>1, SameTypes DEF HandlerTypes
  <2>4. CASE Return(g, "ok") /\ UNCHANGED working
    BY <1>3, <2>1, <2>2, <2>4, SameTypes DEF HandlerTypes, Results
  <2> QED BY <1>6, <2>3, <2>4, Zenon DEF UpdateNil
<1>7. CASE Fails /\ UpdateErr(g)
  <2>1. Return(g, "error") /\ UNCHANGED <<working, applied, read, updatesHealth, clusterVars>>
    BY <1>7 DEF UpdateErr
  <2> QED BY <1>2, <1>3, <1>7, <2>1, SameTypes DEF HandlerTypes, Results
<1>8. CASE SetHealth(g)
  <2>1. /\ handler' = [handler EXCEPT ![g] = "select"] /\ updatesHealth' = result[g]
        /\ UNCHANGED <<working, read, result, applied, failures, clusterVars>>
    BY <1>8 DEF SetHealth
  <2>2. updatesHealth' \in Results
    BY <2>1 DEF HandlerTypes
  <2> QED BY <1>1, <2>1, <2>2, SameTypes DEF HandlerTypes
<1>9. CASE HandlerStops(g)
  <2>1. /\ handler' = [handler EXCEPT ![g] = "stopped"]
        /\ UNCHANGED <<working, read, result, updatesHealth, applied, failures, clusterVars>>
    BY <1>9 DEF HandlerStops
  <2> QED BY <1>1, <2>1, SameTypes DEF HandlerTypes
<1> QED BY <1>4, <1>5, <1>6, <1>7, <1>8, <1>9, Zenon DEF handleUpdates, Update

\* Every step keeps the variables in their types.
LEMMA TypeStep == TypeOK /\ [Next]_vars => TypeOK'
<1> SUFFICES ASSUME ClientTypes, LifeTypes, HandlerTypes, ClusterTypes, [Next]_vars
             PROVE  ClientTypes' /\ LifeTypes' /\ HandlerTypes' /\ ClusterTypes'
  BY TypeGroups
<1>1. ASSUME NEW c \in Clients, Client(c)
      PROVE  ClientTypes' /\ LifeTypes' /\ HandlerTypes' /\ ClusterTypes'
  <2>1. UNCHANGED clusterVars
    BY <1>1 DEF Client, Start, StartUpdater, StopStarted, StartFails, watchForUpdates, Stop,
                StopUpdater, StopReturns
  <2>2. CASE watchForUpdates(c)
    <3>1. PICK g \in Goroutines : handler' = [handler EXCEPT ![g] = "select"]
      BY <2>2, Zenon DEF watchForUpdates
    <3>2. UNCHANGED <<working, read, result, updatesHealth, applied, failures>>
      BY <2>2 DEF watchForUpdates
    <3>3. HandlerTypes'
      BY <3>1, <3>2 DEF HandlerTypes
    <3> QED BY <1>1, <2>1, <3>3, ClientTypeStep, SameTypes
  <2>3. CASE ~watchForUpdates(c)
    <3>1. UNCHANGED handlerVars
      BY <1>1, <2>3 DEF Client, Start, StartUpdater, StopStarted, StartFails, Stop,
                        StopUpdater, StopReturns
    <3> QED BY <1>1, <2>1, <3>1, ClientTypeStep, SameTypes
  <2> QED BY <2>2, <2>3
<1>2. ASSUME NEW g \in Goroutines, handleUpdates(g)
      PROVE  ClientTypes' /\ LifeTypes' /\ HandlerTypes' /\ ClusterTypes'
  <2>1. UNCHANGED clientVars /\ UNCHANGED lifeVars
    BY <1>2 DEF handleUpdates, Receive, ReadCluster, Update, UpdateNil, UpdateErr, SetHealth,
                HandlerStops
  <2> QED BY <1>2, <2>1, HandlerTypeStep, SameTypes
<1>3. CASE Change
  <2>1. ClusterTypes'
    BY <1>3, ControllerAssumption DEF Change, ClusterTypes
  <2> QED BY <1>3, <2>1, SameTypes DEF Change
<1>4. CASE Resync
  <2>1. ClusterTypes'
    BY <1>4 DEF Resync, ClusterTypes
  <2> QED BY <1>4, <2>1, SameTypes DEF Resync
<1>5. CASE UNCHANGED vars
  BY <1>5, SameTypes DEF vars
<1> QED BY <1>1, <1>2, <1>3, <1>4, <1>5 DEF Next

-----------------------------------------------------------------------------
\* Steps of Start and Stop keep the lock discipline.
LEMMA LockStep ==
  ASSUME Inv, NEW c \in Clients, Client(c) PROVE LockInv'
<1> USE NoClientAssumption DEF Inv, TypeOK, LockInv
<1>1. CASE Start(c) \/ Stop(c)
  BY <1>1 DEF Start, Stop
<1>2. CASE StartUpdater(c)
  BY <1>2 DEF StartUpdater
<1>3. CASE StopStarted(c)
  BY <1>3 DEF StopStarted, clientVars
<1>4. CASE StartFails(c) \/ watchForUpdates(c) \/ StopReturns(c)
  <2>1. call' = [call EXCEPT ![c] = "idle"] /\ lock' = NoClient /\ lock = c
    BY <1>4 DEF StartFails, watchForUpdates, StopReturns
  <2> QED BY <2>1
<1>5. CASE StopUpdater(c)
  BY <1>5 DEF StopUpdater
<1> QED BY <1>1, <1>2, <1>3, <1>4, <1>5 DEF Client

\* Steps of Start and Stop keep track of the updaters they have reached.
LEMMA CallStep ==
  ASSUME Inv, NEW c \in Clients, Client(c) PROVE CallInv'
<1> USE ControllerAssumption, NoClientAssumption DEF Inv, TypeOK, Updaters
<1>1. \A d \in Clients : d # c => call'[d] = call[d]
  BY DEF Client, Start, StartUpdater, StopStarted, StartFails, watchForUpdates, Stop,
         StopUpdater, StopReturns, clientVars
<1>2. \A d \in Clients : d # c => call[d] = "idle"
  BY DEF LockInv, Client, Start, StartUpdater, StopStarted, StartFails, watchForUpdates,
         Stop, StopUpdater, StopReturns
<1>3. \A d \in Clients : d # c => call'[d] = "idle"
  BY <1>1, <1>2
<1>4. CASE Start(c)
  <2>1. /\ call' = [call EXCEPT ![c] = "starting"] /\ at' = [at EXCEPT ![c] = 1]
        /\ lock = NoClient /\ lock' = c /\ ~started /\ ~watching
        /\ UNCHANGED <<started, watching, updater>>
    BY <1>4 DEF Start, lifeVars
  <2>2. call'[c] = "starting" /\ at'[c] = 1
    BY <2>1
  <2>3. \A u \in Updaters : updater[u] # "started"
    BY <2>1 DEF CallInv, LifecyclesAgree
  <2> QED BY <1>3, <2>1, <2>2, <2>3 DEF CallInv, LifecyclesAgree
<1>5. CASE StartUpdater(c)
  <2>1. lock' = lock /\ lock = c /\ UNCHANGED <<started, watching>>
    BY <1>5 DEF StartUpdater, LockInv
  <2>2. /\ ~started /\ ~watching /\ at[c] \in 1..N
        /\ \A u \in Updaters : (updater[u] = "started") <=> u < at[c]
    BY <1>5 DEF StartUpdater, CallInv
  <2>3. CASE updater' = [updater EXCEPT ![at[c]] = "started"]
             /\ at' = [at EXCEPT ![c] = @ + 1] /\ call' = call
    <3>1. call'[c] = "starting" /\ at'[c] = at[c] + 1
      BY <1>5, <2>3 DEF StartUpdater
    <3>2. \A u \in Updaters : (updater'[u] = "started") <=> u < at'[c]
      BY <2>2, <2>3, <3>1
    <3>3. at'[c] \in 1..N + 1
      BY <2>2, <3>1
    <3>4. lock' # NoClient /\ ~started' /\ ~watching'
      BY <2>1, <2>2
    <3> QED BY <1>3, <3>1, <3>2, <3>3, <3>4, ZenonT(40) DEF CallInv, LifecyclesAgree
  <2>4. CASE call' = [call EXCEPT ![c] = "cleaning"] /\ UNCHANGED <<updater, at>>
    <3>1. call'[c] = "cleaning" /\ at'[c] = at[c]
      BY <2>4
    <3> QED BY <1>3, <2>1, <2>2, <2>4, <3>1 DEF CallInv, LifecyclesAgree
  <2> QED BY <1>5, <2>3, <2>4, Zenon DEF StartUpdater
<1>6. CASE StopStarted(c)
  <2>1. lock' = c /\ UNCHANGED <<call, at, started, watching>>
    BY <1>6 DEF StopStarted, LockInv, clientVars
  <2>2. PICK v \in Updaters : updater' = [updater EXCEPT ![v] = "stopped"]
    BY <1>6, Zenon DEF StopStarted
  <2>3. \A u \in Updaters : updater'[u] = "started" => updater[u] = "started"
    BY <2>2
  <2>4. call[c] = "cleaning"
    BY <1>6 DEF StopStarted
  <2> QED BY <1>3, <2>1, <2>3, <2>4, Zenon DEF CallInv, LifecyclesAgree
<1>7. CASE StartFails(c)
  <2>1. /\ call[c] = "cleaning" /\ call'[c] = "idle" /\ UNCHANGED <<started, watching, updater>>
        /\ \A u \in Updaters : u < at[c] => updater[u] # "started"
    BY <1>7 DEF StartFails, lifeVars
  <2>2. ~started /\ \A u \in Updaters : updater[u] # "started"
    BY <2>1 DEF CallInv
  <2> QED BY <1>3, <2>1, <2>2, Zenon DEF CallInv, LifecyclesAgree
<1>8. CASE watchForUpdates(c)
  <2>1. /\ call[c] = "starting" /\ at[c] = N + 1 /\ call'[c] = "idle"
        /\ started' /\ watching' /\ updater' = updater
    BY <1>8 DEF watchForUpdates
  <2>2. \A u \in Updaters : updater[u] = "started"
    BY <2>1 DEF CallInv
  <2> QED BY <1>3, <2>1, <2>2, Zenon DEF CallInv, LifecyclesAgree
<1>9. CASE Stop(c)
  <2>1. /\ call'[c] = "stopping" /\ at'[c] = N /\ lock = NoClient /\ lock' = c /\ started
        /\ UNCHANGED <<started, watching, updater>>
    BY <1>9 DEF Stop
  <2>2. \A u \in Updaters : updater[u] = "started" /\ u <= N
    BY <2>1 DEF CallInv, LifecyclesAgree
  <2>3. ~(lock' = NoClient) /\ (started' => watching') /\ started'
    BY <2>1 DEF CallInv
  <2>4. at'[c] \in 0..N /\ \A u \in Updaters : (updater'[u] = "started") <=> u <= at'[c]
    BY <2>1, <2>2
  <2> QED BY <1>3, <2>1, <2>3, <2>4, Zenon DEF CallInv, LifecyclesAgree
<1>10. CASE StopUpdater(c)
  <2>1. /\ call[c] = "stopping" /\ call' = call /\ lock' = c /\ at[c] > 0
        /\ UNCHANGED <<started, watching>>
        /\ updater' = [updater EXCEPT ![at[c]] = "stopped"]
    BY <1>10 DEF StopUpdater, LockInv
  <2>2. at'[c] = at[c] - 1
    BY <1>10 DEF StopUpdater
  <2>3. /\ started /\ at[c] \in 0..N
        /\ \A u \in Updaters : (updater[u] = "started") <=> u <= at[c]
    BY <2>1 DEF CallInv
  <2>4. \A u \in Updaters : (updater'[u] = "started") <=> u <= at'[c]
    BY <2>1, <2>2, <2>3
  <2>5. at'[c] \in 0..N
    BY <2>1, <2>2, <2>3
  <2> QED BY <1>3, <2>1, <2>3, <2>4, <2>5, Zenon DEF CallInv, LifecyclesAgree
<1>11. CASE StopReturns(c)
  <2>1. /\ call[c] = "stopping" /\ at[c] = 0 /\ call'[c] = "idle"
        /\ ~started' /\ updater' = updater
    BY <1>11 DEF StopReturns
  <2>2. \A u \in Updaters : updater[u] # "started"
    BY <2>1 DEF CallInv
  <2> QED BY <1>3, <2>1, <2>2, Zenon DEF CallInv, LifecyclesAgree
<1> QED BY <1>4, <1>5, <1>6, <1>7, <1>8, <1>9, <1>10, <1>11, Zenon DEF Client

-----------------------------------------------------------------------------
\* Only Start, on a controller that has no watcher, makes a goroutine.
LEMMA ClientKeepsRest ==
  ASSUME Inv, NEW c \in Clients, Client(c) PROVE OneHandler' /\ OrderInv' /\ FreshInv'
<1> USE DEF Inv
<1>1. CASE watchForUpdates(c)
  <2>1. PICK g \in Goroutines : handler[g] = "none" /\ handler' = [handler EXCEPT ![g] = "select"]
    BY <1>1, Zenon DEF watchForUpdates
  <2>2. /\ ~watching /\ watching'
        /\ UNCHANGED <<working, read, result, updatesHealth, applied, version, pending>>
    BY <1>1 DEF watchForUpdates, CallInv, clusterVars
  <2>3. /\ \A h \in Goroutines : h # g => handler'[h] = "none"
        /\ handler'[g] = "select"
    BY <2>1, <2>2 DEF TypeOK, OneHandler
  <2>4. OneHandler'
    BY <2>2, <2>3 DEF OneHandler
  <2>5. OrderInv'
    BY <2>2, <2>3 DEF OrderInv, NeverAhead
  <2>6. FreshInv'
    BY <2>2, <2>3, Zenon DEF FreshInv, HealthAtRest
  <2> QED BY <2>4, <2>5, <2>6
<1>2. CASE UNCHANGED <<handlerVars, clusterVars, watching>>
  BY <1>2 DEF handlerVars, clusterVars, OneHandler, OrderInv, NeverAhead, FreshInv, HealthAtRest
<1>3. ~watchForUpdates(c) => UNCHANGED <<handlerVars, clusterVars, watching>>
  BY Zenon  DEF Client, Start, StartUpdater, StopStarted, StartFails, Stop, StopUpdater,
         StopReturns, lifeVars
<1> QED BY <1>1, <1>2, <1>3

\* Steps of handleUpdates leave the clients and the life cycle alone.
LEMMA HandlerKeepsCalls ==
  ASSUME Inv, UNCHANGED <<clientVars, lifeVars>> PROVE LockInv' /\ CallInv'
BY DEF Inv, LockInv, CallInv, LifecyclesAgree, clientVars, lifeVars

\* The order of the updaters is kept by a step that applies nothing and after
\* which handleUpdates is not among them.
LEMMA OrderFrame ==
  ASSUME OrderInv, UNCHANGED <<read, applied, version>>,
         \A h \in Goroutines : handler'[h] # "updating"
  PROVE  OrderInv'
BY DEF OrderInv, NeverAhead

\* A handler among the updaters with the latest version is not out of date.
LEMMA FreshUpdating ==
  ASSUME watching', NEW g \in Goroutines,
         \A h \in Goroutines : h # g => handler'[h] = "none",
         handler'[g] = "updating", pending' \/ read'[g] = version'
  PROVE  FreshInv'
BY DEF FreshInv, HealthAtRest

\* Steps of handleUpdates keep the updaters in order and the versions honest,
\* whoever counts the failures.
LEMMA HandlerStep ==
  ASSUME Inv, NEW g \in Goroutines, handleUpdates(g) \/ UpdateErr(g)
  PROVE OneHandler' /\ OrderInv' /\ FreshInv'
<1> USE DEF Inv
<1>1. UNCHANGED lifeVars /\ handler[g] # "none" /\ watching /\ watching'
  BY DEF handleUpdates, Receive, ReadCluster, Update, UpdateNil, UpdateErr, SetHealth,
         HandlerStops, lifeVars, OneHandler
<1>2. \A h \in Goroutines : h # g => handler[h] = "none" /\ handler'[h] = "none"
  <2>1. \A h \in Goroutines : h # g => handler'[h] = handler[h]
    BY DEF handleUpdates, Receive, ReadCluster, Update, UpdateNil, UpdateErr, SetHealth,
           HandlerStops, Return, TypeOK
  <2> QED BY <1>1, <2>1, Zenon DEF OneHandler
<1>3. OneHandler'
  BY <1>1, <1>2 DEF OneHandler
<1>4. CASE Receive(g)
  <2>1. handler'[g] = "reading" /\ UNCHANGED <<read, applied, version, working>>
    BY <1>4, SMTT(40) DEF Receive, TypeOK
  <2>2. OrderInv'
    <3>1. \A h \in Goroutines : handler'[h] # "updating"
      BY <1>2, <2>1, ZenonT(60)
    <3> QED BY <2>1, <3>1, OrderFrame, Zenon
  <2>3. FreshInv'
    BY <1>1, <1>2, <2>1 DEF FreshInv, HealthAtRest
  <2> QED BY <1>3, <2>2, <2>3
<1>5. ASSUME handler'[g] = "returned", result'[g] = "error",
             UNCHANGED <<read, applied, version>>
      PROVE OrderInv' /\ FreshInv'
  <2>1. \A h \in Goroutines : handler'[h] # "updating"
    BY <1>2, <1>5
  <2>2. OrderInv'
    BY <1>5, <2>1, OrderFrame, Zenon
  <2>3. FreshInv'
    BY <1>1, <1>2, <1>5, ZenonT(60) DEF FreshInv, HealthAtRest
  <2> QED BY <2>2, <2>3, Zenon
<1>6. CASE ReadCluster(g)
  <2>1. UNCHANGED <<applied, version, pending>>
    BY <1>6 DEF ReadCluster, clusterVars
  <2>2. CASE Return(g, "error") /\ UNCHANGED read
    <3>1. handler'[g] = "returned" /\ result'[g] = "error"
      BY <2>2 DEF Return, TypeOK
    <3> QED BY <1>3, <1>5, <2>1, <2>2, <3>1
  <2>3. CASE /\ read' = [read EXCEPT ![g] = version]
             /\ working' = [working EXCEPT ![g] = 1]
             /\ handler' = [handler EXCEPT ![g] = "updating"]
    <3>1. handler'[g] = "updating" /\ working'[g] = 1 /\ read'[g] = version
      BY <2>3 DEF TypeOK
    <3>2. \A h \in Goroutines : read'[h] <= version'
      BY <2>1, <2>3 DEF OrderInv, TypeOK
    <3>3. \A u \in Updaters : ~(u < 1)
      <4> HIDE DEF Inv
      <4> QED BY DEF Updaters
    <3>4. OrderInv'
      BY <1>2, <2>1, <3>1, <3>2, <3>3, SMTT(40) DEF OrderInv, NeverAhead
    <3>5. FreshInv'
      <4>1. read'[g] = version'
        BY <2>1, <3>1, Zenon
      <4> QED BY <1>1, <1>2, <3>1, <4>1, FreshUpdating
    <3> QED BY <1>3, <3>4, <3>5
  <2> QED BY <1>6, <2>2, <2>3 DEF ReadCluster
<1>7. CASE Update(g) \/ UpdateErr(g)
  <2>1. UNCHANGED <<read, version, pending>> /\ handler[g] = "updating"
    BY <1>7 DEF Update, UpdateNil, UpdateErr, clusterVars
  <2>2. CASE Return(g, "error") /\ UNCHANGED applied
    <3>1. handler'[g] = "returned" /\ result'[g] = "error"
      BY <2>2, Zenon DEF Return, TypeOK
    <3> QED BY <1>3, <1>5, <2>1, <2>2, <3>1
  <2>3. CASE applied' = [applied EXCEPT ![working[g]] = read[g]]
    <3> DEFINE w == working[g]
               r == read[g]
    <3>1. /\ w \in 1..N /\ r \in Nat /\ r <= version /\ version \in Nat
          /\ \A u \in Updaters : applied[u] \in Nat
      <4>1. w \in 1..N /\ r \in 0..MaxVersion /\ version \in 0..MaxVersion
        BY DEF TypeOK, Updaters
      <4>2. \A u \in Updaters : applied[u] \in 0..MaxVersion
        BY Zenon DEF TypeOK
      <4>3. r <= version
        BY DEF OrderInv
      <4> QED BY <4>1, <4>2, <4>3, ControllerAssumption
    <3>2. \A u \in Updaters : applied'[u] = IF u <= w THEN r ELSE applied[u]
      <4>1. \A u \in Updaters : applied'[u] = IF u = w THEN r ELSE applied[u]
        BY <2>3 DEF TypeOK
      <4>2. \A u \in Updaters : u < w => applied[u] = r
        BY <2>1 DEF OrderInv
      <4>3. \A u \in Updaters : u <= w <=> u = w \/ u < w
        BY <3>1 DEF Updaters
      <4> QED BY <4>1, <4>2, <4>3
    <3>3. \A u \in Updaters : applied[u] <= r /\ applied'[u] <= r
      <4>1. \A u \in Updaters : applied[u] <= r
        BY <2>1 DEF OrderInv
      <4> QED BY <3>1, <3>2, <4>1
    <3>4. NeverAhead'
      BY <3>1, <3>2, <3>3 DEF NeverAhead, OrderInv, Updaters
    <3>5. \A u \in Updaters : applied'[u] <= version'
      BY <2>1, <3>1, <3>2, <3>3 DEF Updaters
    <3>6. pending \/ r = version
      BY <2>1 DEF FreshInv
    <3>7. CASE w < N /\ working' = [working EXCEPT ![g] = @ + 1] /\ handler' = handler
      <4>1. working'[g] = w + 1 /\ handler'[g] = "updating"
        BY <2>1, <3>7 DEF TypeOK
      <4>2. \A u \in Updaters : u < w + 1 => applied'[u] = r
        <5> HIDE DEF Inv
        <5> QED BY <3>1, <3>2 DEF Updaters
      <4>3. OrderInv'
        BY <1>2, <2>1, <3>3, <3>4, <3>5, <4>1, <4>2, ZenonT(60) DEF OrderInv
      <4>4. FreshInv'
        <5>1. pending' \/ read'[g] = version'
          BY <2>1, <3>6
        <5> QED BY <1>1, <1>2, <4>1, <5>1, FreshUpdating
      <4> QED BY <1>3, <4>3, <4>4
    <3>8. CASE w = N /\ Return(g, "ok")
      <4>1. handler'[g] = "returned" /\ result'[g] = "ok"
        BY <3>8, SMTT(40) DEF Return, TypeOK
      <4>2. \A u \in Updaters : applied'[u] = r
        <5> HIDE DEF Inv
        <5> QED BY <3>1, <3>2, <3>8 DEF Updaters
      <4>3. OrderInv'
        BY <1>2, <2>1, <3>4, <3>5, <4>1, Zenon DEF OrderInv
      <4>4. FreshInv'
        BY <1>1, <1>2, <2>1, <3>6, <4>1, <4>2 DEF FreshInv, HealthAtRest
      <4> QED BY <1>3, <4>3, <4>4
    <3>9. w < N \/ w = N
      BY <3>1, ControllerAssumption
    <3> QED BY <1>7, <2>3, <3>7, <3>8, <3>9, <2>2 DEF Update, UpdateNil, UpdateErr
  <2> QED BY <1>7, <2>2, <2>3, Zenon DEF Update, UpdateNil, UpdateErr
<1>8. CASE SetHealth(g)
  <2>1. /\ handler[g] = "returned" /\ handler'[g] = "select" /\ updatesHealth' = result[g]
        /\ UNCHANGED <<read, applied, version, pending, result, working>>
    BY <1>8, Zenon DEF SetHealth, TypeOK, clusterVars
  <2>2. OrderInv'
    <3>1. \A h \in Goroutines : handler'[h] # "updating"
      BY <1>2, <2>1, Zenon
    <3> QED BY <2>1, <3>1, OrderFrame
  <2>3. FreshInv'
    BY <1>1, <1>2, <2>1 DEF FreshInv, HealthAtRest
  <2> QED BY <1>3, <2>2, <2>3
<1>9. CASE HandlerStops(g)
  <2>1. /\ handler'[g] = "stopped"
        /\ UNCHANGED <<read, applied, version, pending, result, working, updatesHealth>>
    BY <1>9, SMTT(40) DEF HandlerStops, TypeOK, clusterVars
  <2>2. OrderInv'
    <3>1. \A h \in Goroutines : handler'[h] # "updating"
      BY <1>2, <2>1, Zenon
    <3> QED BY <2>1, <3>1, OrderFrame
  <2>3. FreshInv'
    BY <1>1, <1>2, <2>1 DEF FreshInv, HealthAtRest
  <2> QED BY <1>3, <2>2, <2>3
<1> QED BY <1>4, <1>6, <1>7, <1>8, <1>9, Zenon DEF handleUpdates

\* A change or a resync puts an update in the channel.
LEMMA ClusterStep ==
  ASSUME Inv, Change \/ Resync PROVE OneHandler' /\ OrderInv' /\ FreshInv'
<1>1. pending' /\ UNCHANGED <<lifeVars, handlerVars>>
  BY DEF Change, Resync
<1>2. version <= version' /\ version \in Nat /\ version' \in Nat
      /\ (\A u \in Updaters : applied[u] \in Nat) /\ (\A g \in Goroutines : read[g] \in Nat)
  BY ControllerAssumption DEF Inv, TypeOK, Change, Resync
<1>3. OneHandler'
  BY <1>1, SMTT(40) DEF Inv, OneHandler, lifeVars, handlerVars
<1>4. OrderInv'
  BY <1>1, <1>2, SMTT(40) DEF Inv, OrderInv, NeverAhead, lifeVars, handlerVars
<1>5. FreshInv'
  BY <1>1 DEF Inv, FreshInv, HealthAtRest, lifeVars, handlerVars
<1> QED BY <1>3, <1>4, <1>5

-----------------------------------------------------------------------------
\* Inv is inductive.
LEMMA StepInv == Inv /\ [Next]_vars => Inv'
<1> SUFFICES ASSUME Inv, [Next]_vars PROVE Inv'
  OBVIOUS
<1>1. TypeOK'
  BY TypeStep DEF Inv
<1>2. ASSUME NEW c \in Clients, Client(c) PROVE Inv'
  BY <1>1, <1>2, LockStep, CallStep, ClientKeepsRest DEF Inv
<1>3. ASSUME NEW g \in Goroutines, handleUpdates(g) PROVE Inv'
  <2>1. UNCHANGED <<clientVars, lifeVars>>
    BY <1>3 DEF handleUpdates, Receive, ReadCluster, Update, UpdateNil, UpdateErr, SetHealth, HandlerStops
  <2> QED BY <1>1, <1>3, <2>1, HandlerKeepsCalls, HandlerStep, Zenon DEF Inv
<1>4. CASE Change \/ Resync
  <2>1. UNCHANGED <<clientVars, lifeVars>>
    BY <1>4 DEF Change, Resync
  <2> QED BY <1>1, <1>4, <2>1, HandlerKeepsCalls, ClusterStep DEF Inv
<1>5. CASE UNCHANGED vars
  <2>1. LockInv' /\ CallInv'
    BY <1>5, HandlerKeepsCalls, Zenon DEF vars
  <2>2. OneHandler' /\ OrderInv' /\ FreshInv'
    BY <1>5 DEF Inv, vars, lifeVars, handlerVars, clusterVars, OneHandler, OrderInv,
                NeverAhead, FreshInv, HealthAtRest
  <2> QED BY <1>1, <2>1, <2>2 DEF Inv
<1> QED BY <1>2, <1>3, <1>4, <1>5 DEF Next

-----------------------------------------------------------------------------
(* The controller as a part of a program, which counts failures of others too. *)

\* What the controller does but for the number of failures.
Moves ==
  \/ \E c \in Clients : Client(c)
  \/ \E g \in Goroutines : handleUpdates(g) \/ UpdateErr(g)
  \/ Change \/ Resync
  \/ UNCHANGED <<clientVars, lifeVars, handler, working, read, result, updatesHealth, applied,
                 clusterVars>>

\* A failing Update that is counted elsewhere, or not at all.
LEMMA ErrStep ==
  ASSUME Inv, NEW g \in Goroutines, UpdateErr(g), failures' \in 0..MaxFailures
  PROVE  Inv'
<1>1. /\ Return(g, "error") /\ UNCHANGED <<clientVars, lifeVars>>
      /\ UNCHANGED <<working, applied, read, updatesHealth, clusterVars>>
  BY DEF UpdateErr
<1>2. ClientTypes /\ LifeTypes /\ HandlerTypes /\ ClusterTypes
  BY TypeGroups DEF Inv
<1>3. ClientTypes' /\ LifeTypes' /\ ClusterTypes'
  BY <1>1, <1>2, SameTypes
<1>4. HandlerTypes'
  BY <1>1, <1>2 DEF HandlerTypes, Return, Results
<1>5. TypeOK'
  BY <1>3, <1>4, TypeGroups
<1> QED
  BY <1>1, <1>5, HandlerKeepsCalls, HandlerStep DEF Inv

\* A failure of something else.
LEMMA FailureStep ==
  ASSUME Inv, failures' \in 0..MaxFailures,
         UNCHANGED <<clientVars, lifeVars, handler, working, read, result, updatesHealth, applied,
                     clusterVars>>
  PROVE  Inv'
<1>1. ClientTypes /\ LifeTypes /\ HandlerTypes /\ ClusterTypes
  BY TypeGroups DEF Inv
<1>2. ClientTypes' /\ LifeTypes' /\ ClusterTypes'
  BY <1>1, SameTypes
<1>3. HandlerTypes'
  BY <1>1 DEF HandlerTypes
<1>4. LockInv' /\ CallInv'
  BY HandlerKeepsCalls, Zenon
<1>5. OneHandler' /\ OrderInv' /\ FreshInv'
  BY Zenon DEF Inv, lifeVars, clusterVars, OneHandler, OrderInv, NeverAhead, FreshInv, HealthAtRest
<1> QED
  BY <1>2, <1>3, <1>4, <1>5, TypeGroups DEF Inv

\* Inv is kept by everything that a program around the controller may do.
LEMMA MovesInv ==
  ASSUME Inv, Moves, failures' \in 0..MaxFailures PROVE Inv'
<1>1. CASE (\E c \in Clients : Client(c)) \/ (\E g \in Goroutines : handleUpdates(g)) \/ Change \/ Resync
  BY <1>1, StepInv DEF Next
<1>2. CASE \E g \in Goroutines : UpdateErr(g)
  BY <1>2, ErrStep
<1>3. CASE UNCHANGED <<clientVars, lifeVars, handler, working, read, result, updatesHealth,
                       applied, clusterVars>>
  BY <1>3, FailureStep
<1> QED
  BY <1>1, <1>2, <1>3 DEF Moves

-----------------------------------------------------------------------------
\* Inv holds in every reachable state.
LEMMA Invariance == SafetySpec => []Inv
BY InitInv, StepInv, PTL DEF SafetySpec

\* The controller's variables keep their types.
THEOREM TypeCorrect == SafetySpec => []TypeOK
<1>1. Inv => TypeOK
  BY DEF Inv
<1> QED BY <1>1, Invariance, PTL

\* No two goroutines are ever in an Update, for any calls of Start and Stop:
\* what updater.go requires of the controller.
THEOREM UpdatesAreSerial == SafetySpec => []SingleUpdater
<1>1. Inv => SingleUpdater
  BY DEF Inv, OneHandler, SingleUpdater
<1> QED BY <1>1, Invariance, PTL

\* For any list of updaters, none runs ahead of one before it.
THEOREM UpdatersInOrder == SafetySpec => []NeverAhead
<1>1. Inv => NeverAhead
  BY DEF Inv, OrderInv
<1> QED BY <1>1, Invariance, PTL

\* Between method calls the updaters are started exactly if the controller is.
THEOREM StartIsAllOrNothing == SafetySpec => []LifecyclesAgree
<1>1. Inv => LifecyclesAgree
  BY DEF Inv, CallInv
<1> QED BY <1>1, Invariance, PTL

\* A controller at rest without an update error has applied the cluster it sees.
THEOREM HealthIsHonest == SafetySpec => []HealthAtRest
<1>1. Inv => HealthAtRest
  BY DEF Inv, FreshInv
<1> QED BY <1>1, Invariance, PTL
=============================================================================
