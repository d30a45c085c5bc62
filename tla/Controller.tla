----------------------------- MODULE Controller -----------------------------
(***************************************************************************)
(* The life cycle of controller/controller.go: Start and Stop, called by   *)
(* any goroutine under the controller's mutex, the goroutine of            *)
(* handleUpdates, which holds no lock, and what Health answers.            *)
(*                                                                         *)
(* An updater is known by its place in c.updaters.  The cluster is a       *)
(* version number, and a read of it by updateIngresses is the version at   *)
(* that time; the watchers are the promise of FreshView: a change puts an  *)
(* update in the combined channel (module Watcher has the detail).  An     *)
(* updater's Start, Stop, Update and Health are whatever they may be: they *)
(* take time, and they succeed or fail.                                    *)
(***************************************************************************)
EXTENDS Naturals

CONSTANTS
  N,             \* number of updaters
  Clients,       \* goroutines that call the controller's methods
  Goroutines,    \* bound: goroutines of handleUpdates, a set 1..n
  MaxVersion,    \* bound: changes of the cluster
  MaxFailures    \* bound: failing reads and Updates

ASSUME ControllerAssumption ==
  /\ N \in Nat \ {0}
  /\ MaxVersion \in Nat /\ MaxFailures \in Nat

Updaters == 1..N

NoClient == "no client"
ASSUME NoClientAssumption == NoClient \notin Clients

VARIABLES
  lock,          \* holder of the controller's mutex
  call,          \* program counter of each client
  at,            \* the updater a client's Start or Stop has come to
  started,       \* c.started
  watching,      \* c.watcher # nil
  stopCh,        \* c.stopCh is closed
  updater,       \* life cycle of each updater
  handler,       \* program counter of each handleUpdates goroutine
  working,       \* the updater whose Update the goroutine is in
  read,          \* the version its updateIngresses has read
  result,        \* the error updateIngresses returns
  updatesHealth, \* c.updatesHealth
  version,       \* version of the cluster
  pending,       \* an update is in the combined watcher's channel
  applied,       \* the version each updater last updated to
  failures       \* number of failures so far (bounded by MaxFailures)

clientVars  == <<lock, call, at>>
lifeVars    == <<started, watching, stopCh, updater>>
handlerVars == <<handler, working, read, result, updatesHealth, applied, failures>>
clusterVars == <<version, pending>>
vars        == <<clientVars, lifeVars, handlerVars, clusterVars>>

Results == {"ok", "error"}

TypeOK ==
  /\ lock \in Clients \cup {NoClient}
  /\ call \in [Clients -> {"idle", "starting", "cleaning", "stopping"}]
  /\ at \in [Clients -> 0..N + 1]
  /\ started \in BOOLEAN /\ watching \in BOOLEAN /\ stopCh \in BOOLEAN
  /\ updater \in [Updaters -> {"new", "started", "stopped"}]
  /\ handler \in [Goroutines -> {"none", "select", "reading", "updating", "returned", "stopped"}]
  /\ working \in [Goroutines -> Updaters]
  /\ read \in [Goroutines -> 0..MaxVersion]
  /\ result \in [Goroutines -> Results]
  /\ updatesHealth \in Results
  /\ version \in 0..MaxVersion
  /\ pending \in BOOLEAN
  /\ applied \in [Updaters -> 0..MaxVersion]
  /\ failures \in 0..MaxFailures

Init ==
  /\ lock = NoClient
  /\ call = [c \in Clients |-> "idle"]
  /\ at = [c \in Clients |-> 0]
  /\ started = FALSE /\ watching = FALSE /\ stopCh = FALSE
  /\ updater = [u \in Updaters |-> "new"]
  /\ handler = [g \in Goroutines |-> "none"]
  /\ working = [g \in Goroutines |-> 1]
  /\ read = [g \in Goroutines |-> 0]
  /\ result = [g \in Goroutines |-> "ok"]
  /\ updatesHealth = "ok"
  /\ version = 0
  /\ pending = FALSE
  /\ applied = [u \in Updaters |-> 0]
  /\ failures = 0

-----------------------------------------------------------------------------
(* Start.                                                                   *)

\* Mutation: a controller that was stopped may be started again.
StartAgain(c) ==
  /\ call[c] = "idle" /\ lock = NoClient
  /\ ~started
  /\ lock' = c
  /\ call' = [call EXCEPT ![c] = "starting"]
  /\ at' = [at EXCEPT ![c] = 1]
  /\ UNCHANGED <<lifeVars, handlerVars, clusterVars>>

\* The tests under the lock: "already started" and "can't restart" return.
Start(c) ==
  /\ call[c] = "idle" /\ lock = NoClient
  /\ ~started /\ ~watching
  /\ lock' = c
  /\ call' = [call EXCEPT ![c] = "starting"]
  /\ at' = [at EXCEPT ![c] = 1]
  /\ UNCHANGED <<lifeVars, handlerVars, clusterVars>>

\* u.Start() succeeds, or fails and the updaters before it are stopped.
StartUpdater(c) ==
  /\ call[c] = "starting" /\ at[c] \in Updaters
  /\ \/ /\ updater' = [updater EXCEPT ![at[c]] = "started"]
        /\ at' = [at EXCEPT ![c] = @ + 1]
        /\ UNCHANGED call
     \/ /\ call' = [call EXCEPT ![c] = "cleaning"]
        /\ UNCHANGED <<updater, at>>
  /\ UNCHANGED <<lock, started, watching, stopCh, handlerVars, clusterVars>>

\* Clean up after the failure of updater at[c]: stop the started ones in the
\* order of the list; a Stop that fails is only logged.
StopStarted(c) ==
  /\ call[c] = "cleaning"
  /\ \E u \in Updaters :
       /\ u < at[c] /\ updater[u] = "started"
       /\ \A v \in Updaters : v < u => updater[v] # "started"
       /\ updater' = [updater EXCEPT ![u] = "stopped"]
  /\ UNCHANGED <<clientVars, started, watching, stopCh, handlerVars, clusterVars>>

\* Mutation: the error is returned without cleaning up.
StartFailsAtOnce(c) ==
  /\ call[c] = "cleaning"
  /\ call' = [call EXCEPT ![c] = "idle"]
  /\ lock' = NoClient
  /\ UNCHANGED <<at, lifeVars, handlerVars, clusterVars>>

StartFails(c) ==
  /\ call[c] = "cleaning"
  /\ \A u \in Updaters : u < at[c] => updater[u] # "started"
  /\ call' = [call EXCEPT ![c] = "idle"]
  /\ lock' = NoClient
  /\ UNCHANGED <<at, lifeVars, handlerVars, clusterVars>>

\* Mutation: Start returns nil without unlocking.
watchForUpdatesLocked(c) ==
  /\ call[c] = "starting" /\ at[c] = N + 1
  /\ \E g \in Goroutines :
       handler[g] = "none" /\ handler' = [handler EXCEPT ![g] = "select"]
  /\ watching' = TRUE
  /\ started' = TRUE
  /\ call' = [call EXCEPT ![c] = "idle"]
  /\ UNCHANGED <<lock, at, stopCh, updater, working, read, result, updatesHealth,
                 applied, failures, clusterVars>>

\* watchForUpdates starts the goroutine of handleUpdates; Start returns nil.
watchForUpdates(c) ==
  /\ call[c] = "starting" /\ at[c] = N + 1
  /\ \E g \in Goroutines :
       handler[g] = "none" /\ handler' = [handler EXCEPT ![g] = "select"]
  /\ watching' = TRUE
  /\ started' = TRUE
  /\ call' = [call EXCEPT ![c] = "idle"]
  /\ lock' = NoClient
  /\ UNCHANGED <<at, stopCh, updater, working, read, result, updatesHealth,
                 applied, failures, clusterVars>>

-----------------------------------------------------------------------------
(* Stop.                                                                    *)

\* "cannot stop, not started" returns; otherwise stopCh is closed.
Stop(c) ==
  /\ call[c] = "idle" /\ lock = NoClient
  /\ started
  /\ stopCh' = TRUE
  /\ lock' = c
  /\ call' = [call EXCEPT ![c] = "stopping"]
  /\ at' = [at EXCEPT ![c] = N]
  /\ UNCHANGED <<started, watching, updater, handlerVars, clusterVars>>

\* Updaters are stopped last to first; a Stop that fails is only logged.
StopUpdater(c) ==
  /\ call[c] = "stopping" /\ at[c] > 0
  /\ updater' = [updater EXCEPT ![at[c]] = "stopped"]
  /\ at' = [at EXCEPT ![c] = @ - 1]
  /\ UNCHANGED <<lock, call, started, watching, stopCh, handlerVars, clusterVars>>

StopReturns(c) ==
  /\ call[c] = "stopping" /\ at[c] = 0
  /\ started' = FALSE
  /\ call' = [call EXCEPT ![c] = "idle"]
  /\ lock' = NoClient
  /\ UNCHANGED <<at, watching, stopCh, updater, handlerVars, clusterVars>>

-----------------------------------------------------------------------------
(* handleUpdates.                                                           *)

Receive(g) ==
  /\ handler[g] = "select" /\ pending
  /\ pending' = FALSE
  /\ handler' = [handler EXCEPT ![g] = "reading"]
  /\ UNCHANGED <<clientVars, lifeVars, working, read, result, updatesHealth,
                 applied, failures, version>>

\* updateIngresses returns err to handleUpdates.
Return(g, err) ==
  /\ handler' = [handler EXCEPT ![g] = "returned"]
  /\ result' = [result EXCEPT ![g] = err]

Fails == failures < MaxFailures /\ failures' = failures + 1

\* The reads of updateIngresses and its early returns; the entries are then
\* made for the updaters.
ReadCluster(g) ==
  /\ handler[g] = "reading"
  /\ \/ /\ read' = [read EXCEPT ![g] = version]
        /\ working' = [working EXCEPT ![g] = 1]
        /\ handler' = [handler EXCEPT ![g] = "updating"]
        /\ UNCHANGED <<result, failures>>
     \/ Fails /\ Return(g, "error") /\ UNCHANGED <<read, working>>
  /\ UNCHANGED <<clientVars, lifeVars, updatesHealth, applied, clusterVars>>

\* Mutation: an error is noted and the next updater is called all the same.
UpdateContinues(g) ==
  /\ handler[g] = "updating"
  /\ \/ /\ applied' = [applied EXCEPT ![working[g]] = read[g]]
        /\ UNCHANGED failures
     \/ Fails /\ UNCHANGED applied
  /\ IF working[g] < N
     THEN /\ working' = [working EXCEPT ![g] = @ + 1]
          /\ UNCHANGED <<handler, result>>
     ELSE Return(g, "ok") /\ UNCHANGED working
  /\ UNCHANGED <<clientVars, lifeVars, read, updatesHealth, clusterVars>>

\* u.Update(entries) returns nil: on to the next updater.
UpdateNil(g) ==
  /\ handler[g] = "updating"
  /\ applied' = [applied EXCEPT ![working[g]] = read[g]]
  /\ IF working[g] < N
     THEN /\ working' = [working EXCEPT ![g] = @ + 1]
          /\ UNCHANGED <<handler, result>>
     ELSE Return(g, "ok") /\ UNCHANGED working
  /\ UNCHANGED <<clientVars, lifeVars, read, updatesHealth, failures, clusterVars>>

\* The first error, or a recovered panic, is returned: the updaters after this
\* one are not called.
UpdateErr(g) ==
  /\ handler[g] = "updating"
  /\ Return(g, "error")
  /\ UNCHANGED <<clientVars, lifeVars, working, applied, read, updatesHealth, clusterVars>>

Update(g) == UpdateNil(g) \/ (Fails /\ UpdateErr(g))

\* Mutation: the error is shadowed and health is always set to nil.
SetHealthShadowed(g) ==
  /\ handler[g] = "returned"
  /\ updatesHealth' = "ok"
  /\ handler' = [handler EXCEPT ![g] = "select"]
  /\ UNCHANGED <<clientVars, lifeVars, working, read, result, applied, failures,
                 clusterVars>>

\* Mutation: handleUpdates returns after an error.
SetHealthAndExit(g) ==
  /\ handler[g] = "returned"
  /\ updatesHealth' = result[g]
  /\ handler' = [handler EXCEPT ![g] = IF result[g] = "error" THEN "stopped" ELSE "select"]
  /\ UNCHANGED <<clientVars, lifeVars, working, read, result, applied, failures,
                 clusterVars>>

SetHealth(g) ==
  /\ handler[g] = "returned"
  /\ updatesHealth' = result[g]
  /\ handler' = [handler EXCEPT ![g] = "select"]
  /\ UNCHANGED <<clientVars, lifeVars, working, read, result, applied, failures,
                 clusterVars>>

HandlerStops(g) ==
  /\ handler[g] = "select" /\ stopCh
  /\ handler' = [handler EXCEPT ![g] = "stopped"]
  /\ UNCHANGED <<clientVars, lifeVars, working, read, result, updatesHealth,
                 applied, failures, clusterVars>>

-----------------------------------------------------------------------------
(* The cluster and its watchers: a change, and the informers' resync, put   *)
(* an update in the combined channel (capacity 1).                          *)

Change ==
  /\ version < MaxVersion
  /\ version' = version + 1
  /\ pending' = TRUE
  /\ UNCHANGED <<clientVars, lifeVars, handlerVars>>

Resync ==
  /\ ~stopCh /\ watching /\ version > 0
  /\ pending' = TRUE
  /\ UNCHANGED <<clientVars, lifeVars, handlerVars, version>>

-----------------------------------------------------------------------------
Client(c) ==
  \/ Start(c) \/ StartUpdater(c) \/ StopStarted(c) \/ StartFails(c)
  \/ watchForUpdates(c) \/ Stop(c) \/ StopUpdater(c) \/ StopReturns(c)

handleUpdates(g) ==
  \/ Receive(g) \/ ReadCluster(g) \/ Update(g) \/ SetHealth(g) \/ HandlerStops(g)

Next ==
  \/ \E c \in Clients : Client(c)
  \/ \E g \in Goroutines : handleUpdates(g)
  \/ Change
  \/ Resync

\* The goroutine of handleUpdates runs, and informers resync periodically.
\* Calls of the methods and changes of the cluster need not happen.
Fairness ==
  /\ \A g \in Goroutines : WF_vars(handleUpdates(g))
  /\ WF_vars(Resync)

SafetySpec == Init /\ [][Next]_vars
Spec == SafetySpec /\ Fairness

-----------------------------------------------------------------------------
\* Update "should only be called by a single go routine" (updater.go): there
\* are never two goroutines between the read and the return of updateIngresses,
\* however often Start and Stop are called.
SingleUpdater ==
  \A g, h \in Goroutines :
    handler[g] = "updating" /\ handler[h] = "updating" => g = h

\* A later updater never works from a newer cluster than an earlier one: the
\* load balancers and the ingress statuses never run ahead of nginx, because the
\* first Update that fails ends updateIngresses.
NeverAhead == \A u, v \in Updaters : u < v => applied[v] <= applied[u]

\* Whenever no method call is running, the updaters are all started if the
\* controller is, and none is left started if it is not: Start that fails half
\* way cleans up, and Stop reaches every updater although others fail to stop.
LifecyclesAgree ==
  lock = NoClient => \A u \in Updaters : (updater[u] = "started") <=> started

\* Health is honest at rest: when the handler waits and no update is on its
\* way, an updatesHealth without error means that every updater has the
\* current cluster.
HealthAtRest ==
  \A g \in Goroutines :
    handler[g] = "select" /\ ~pending /\ updatesHealth = "ok"
      => \A u \in Updaters : applied[u] = version

\* A failed update is retried: every updater gets the current cluster in the
\* end, through later changes or resyncs, unless the controller is stopped.
EventuallyApplied ==
  (watching /\ version > applied[N]) ~> (applied[N] = version \/ stopCh)
=============================================================================
