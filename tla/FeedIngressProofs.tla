------------------------- MODULE FeedIngressProofs --------------------------
(***************************************************************************)
(* Proofs about the composed program feed-ingress, for every finite set of *)
(* target groups and every number of changes, failures and calls of Stop.  *)
(***************************************************************************)
EXTENDS FeedIngress, TLAPS

Clients == {"main", "signal", "port"}

\* The types that the argument needs, by the module that has the variables.
ClientSorts ==
  /\ lock \in Clients \cup {C!NoClient}
  /\ call \in [Clients -> {"idle", "starting", "cleaning", "stopping"}]
  /\ at \in [Clients -> 0..3]
  /\ stopper \in [Stoppers -> {"waiting", "stop", "stopping", "stopped"}]

HandlerSorts ==
  /\ handler \in [{1} -> {"none", "select", "reading", "updating", "returned", "stopped"}]
  /\ working \in [{1} -> 1..2]

AlbSorts ==
  /\ existing \subseteq TargetGroups /\ albARNs \subseteq TargetGroups
  /\ stopTodo \subseteq TargetGroups /\ undetached \subseteq TargetGroups
  /\ update \in {"idle", "find", "register"}
  /\ stop \in {"idle", "deregister", "nil"}

NginxSorts ==
  /\ nginx \in {"none", "up", "quit", "crashed"}
  /\ stopping \in {"idle", "waiting", "nil", "error"}

\* The controller's mutex: one client at a time is in Start or Stop, Start never
\* runs once the watcher is set, and Stop gets past its first test only once.
LifeInv ==
  /\ \A c \in Clients : call[c] # "idle" => lock = c
  /\ call["main"] # "stopping"
  /\ call["main"] # "idle" => ~watching
  /\ \A s \in Stoppers :
       /\ call[s] \in {"idle", "stopping"}
       /\ stopper[s] = "stopping" <=> call[s] = "stopping"
       /\ call[s] = "stopping" => stopCh /\ at[s] \in 0..2
  /\ started \/ stopCh => watching
  /\ started /\ stopCh => lock \in Stoppers
  /\ stop # "idle" => stopCh

\* handleUpdates is in the Update of one updater at a time, in the alb updater's
\* only after nginx has been started; it is late if it is at work once stopCh is
\* closed.
HandlerInv ==
  /\ update # "idle" => handler[1] = "updating" /\ working[1] = 2
  /\ updating => handler[1] = "updating" /\ working[1] = 1
  /\ handler[1] = "updating" /\ working[1] = 2 => nginx # "none"
  /\ updated \/ registered # {} => nginx # "none"
  /\ stopCh /\ ~late => handler[1] \notin {"reading", "updating"}
  /\ overlap => late
  /\ late => stopCh

\* How far the two Stops have come, by the place of the client in its loop.
StopInv ==
  /\ \A s \in Stoppers : call[s] = "stopping" /\ at[s] < 2 => stop = "nil"
  /\ \A s \in Stoppers : call[s] = "stopping" /\ at[s] = 0 => stopping \in {"nil", "error"}
  /\ \A s \in Stoppers : stopper[s] = "stopped" => stop = "nil" /\ stopping \in {"nil", "error"}
  /\ stopping # "idle" => stop = "nil"
  /\ nginx = "quit" => stopping # "idle"
  /\ stopping \in {"nil", "error"} /\ ~late => nginx # "up"
  /\ exit = "ok" => stopper["signal"] = "stopped"

\* What the alb updater knows of its registrations.
AttachInv ==
  /\ registered \subseteq albARNs /\ albARNs \subseteq existing /\ todo \subseteq albARNs
  /\ stop # "idle" /\ ~overlap => update = "idle"
  /\ stop = "deregister" /\ ~overlap => registered \subseteq stopTodo \cup undetached
  /\ stop = "nil" /\ ~overlap => registered \subseteq undetached
  /\ stop = "idle" /\ update = "register" => albARNs \ todo \subseteq registered
  /\ stop = "idle" /\ registeredFrontends = Cardinality(TargetGroups) =>
       TargetGroups \subseteq registered

Inv ==
  /\ ClientSorts /\ HandlerSorts /\ AlbSorts /\ NginxSorts
  /\ LifeInv /\ HandlerInv /\ StopInv /\ AttachInv

-----------------------------------------------------------------------------
\* What the count of target groups tells about them, because they are finite.
Sizes ==
  /\ Cardinality({}) = 0
  /\ \A S \in SUBSET TargetGroups : Cardinality(S) = Cardinality(TargetGroups) => S = TargetGroups

\* The number of target groups that the alb updater counts is their number.
LEMMA SameCardinality == ASSUME NEW S PROVE A!Cardinality(S) = Cardinality(S)
  BY DEF A!Cardinality, Cardinality

-----------------------------------------------------------------------------
\* The invariant holds when runCmd has made the controller and its updaters.
LEMMA InitInv == Sizes /\ Init => Inv
<1> SUFFICES ASSUME Sizes, Init PROVE Inv
  OBVIOUS
<1>1. ClientSorts /\ HandlerSorts
  BY DEF Init, C!Init, Clients, Stoppers, ClientSorts, HandlerSorts
<1>2. AlbSorts /\ NginxSorts
  BY DEF Init, A!Init, Service!Init, AlbSorts, NginxSorts
<1>3. LifeInv
  BY DEF Init, C!Init, A!Init, Clients, Stoppers, LifeInv
<1>4. HandlerInv
  BY DEF Init, C!Init, A!Init, Service!Init, HandlerInv
<1>5. StopInv
  BY DEF Init, C!Init, Service!Init, Clients, Stoppers, StopInv
<1>6. AttachInv
  <2>1. Cardinality(TargetGroups) = 0 => TargetGroups = {}
    BY DEF Sizes
  <2> QED
    BY <2>1 DEF AttachInv, Init, A!Init
<1> QED
  BY <1>1, <1>2, <1>3, <1>4, <1>5, <1>6 DEF Inv

-----------------------------------------------------------------------------
(* Each part of the invariant is kept by a step that changes nothing it speaks of. *)

\* The controller's variables that a client changes, and those of the handler.
clientSide  == <<lock, call, at, started, watching, stopCh, stopper>>
handlerSide == <<handler, working>>

\* The mutex and its clients.
LEMMA SameClients ==
  ClientSorts /\ LifeInv /\ UNCHANGED clientSide /\ UNCHANGED stop => ClientSorts' /\ LifeInv'
  BY DEF clientSide, ClientSorts, LifeInv

\* handleUpdates and what it has done to the updaters.
LEMMA SameHandler ==
  HandlerSorts /\ HandlerInv /\ UNCHANGED <<handlerSide, albVars, nginxVars, stopCh, late>>
    => HandlerSorts' /\ HandlerInv'
  BY DEF handlerSide, albVars, nginxVars, HandlerSorts, HandlerInv

\* The alb updater.
LEMMA SameAlb == AlbSorts /\ AttachInv /\ UNCHANGED albVars => AlbSorts' /\ AttachInv' /\ UNCHANGED stop
  BY DEF albVars, AlbSorts, AttachInv

\* nginx.
LEMMA SameNginx == NginxSorts /\ UNCHANGED nginxVars => NginxSorts'
  BY DEF nginxVars, NginxSorts

\* The two Stops: of the clients, only those that stop matter.
LEMMA SameStops ==
  ASSUME StopInv, UNCHANGED <<stopper, stop, nginxVars, late, exit>>,
         \A s \in Stoppers : call'[s] = call[s] /\ at'[s] = at[s]
  PROVE  StopInv'
  BY DEF nginxVars, StopInv

\* The whole invariant.
LEMMA SameAll ==
  Inv /\ UNCHANGED <<clientSide, handlerSide, albVars, nginxVars, late, exit>> => Inv'
<1> SUFFICES ASSUME Inv, UNCHANGED <<clientSide, handlerSide, albVars, nginxVars, late, exit>>
             PROVE  Inv'
  OBVIOUS
<1>1. UNCHANGED <<stopper, stopCh, call, at>>
  BY DEF clientSide
<1>2. AlbSorts' /\ AttachInv' /\ UNCHANGED stop
  BY SameAlb DEF Inv
<1>3. ClientSorts' /\ LifeInv'
  BY <1>2, SameClients DEF Inv
<1>4. HandlerSorts' /\ HandlerInv'
  BY <1>1, SameHandler DEF Inv
<1>5. NginxSorts'
  BY SameNginx DEF Inv
<1>6. StopInv'
  BY <1>1, <1>2, SameStops DEF Inv
<1> QED
  BY <1>2, <1>3, <1>4, <1>5, <1>6 DEF Inv

-----------------------------------------------------------------------------
(* The main goroutine.                                                      *)

\* Start takes the mutex.
LEMMA CallStartStep == ASSUME Inv, CallStart PROVE Inv'
<1>1. /\ lock = C!NoClient /\ ~watching
      /\ lock' = "main" /\ call' = [call EXCEPT !["main"] = "starting"]
      /\ at' = [at EXCEPT !["main"] = 1]
      /\ UNCHANGED <<started, watching, stopCh, stopper, late, exit>>
      /\ UNCHANGED <<handlerSide, albVars, nginxVars>>
  BY DEF CallStart, C!Start, C!lifeVars, C!handlerVars, handlerSide
<1>2. AlbSorts' /\ AttachInv' /\ UNCHANGED stop
  BY <1>1, SameAlb DEF Inv
<1>3. HandlerSorts' /\ HandlerInv' /\ NginxSorts'
  BY <1>1, SameHandler, SameNginx DEF Inv
<1>4. ClientSorts'
  BY <1>1 DEF Inv, ClientSorts, Clients
<1>5. LifeInv'
  BY <1>1, <1>2, Zenon DEF Inv, ClientSorts, LifeInv, Clients, Stoppers, C!NoClient
<1>6. StopInv'
  <2>1. \A s \in Stoppers : call'[s] = call[s] /\ at'[s] = at[s]
    BY <1>1 DEF Inv, ClientSorts, Clients, Stoppers
  <2> QED
    BY <1>1, <1>2, <2>1, SameStops DEF Inv
<1> QED
  BY <1>2, <1>3, <1>4, <1>5, <1>6 DEF Inv

\* Start calls the Start of an updater.
LEMMA StartUpdaterStep == ASSUME Inv, StartUpdater PROVE Inv'
<1>1. /\ call["main"] = "starting" /\ at["main"] \in 1..2
      /\ \/ call' = call /\ at' = [at EXCEPT !["main"] = @ + 1]
         \/ call' = [call EXCEPT !["main"] = "cleaning"] /\ at' = at
      /\ UNCHANGED <<lock, started, watching, stopCh, stopper, late, exit>>
      /\ UNCHANGED <<handlerSide, albVars, nginxVars>>
  BY DEF StartUpdater, C!StartUpdater, C!Updaters, C!handlerVars, handlerSide, programVars
<1>2. AlbSorts' /\ AttachInv' /\ UNCHANGED stop
  BY <1>1, SameAlb DEF Inv
<1>3. HandlerSorts' /\ HandlerInv' /\ NginxSorts'
  BY <1>1, SameHandler, SameNginx DEF Inv
<1>4. ClientSorts'
  BY <1>1 DEF Inv, ClientSorts, Clients
<1>5. LifeInv'
  BY <1>1, <1>2 DEF Inv, ClientSorts, LifeInv, Clients, Stoppers
<1>6. StopInv'
  <2>1. \A s \in Stoppers : call'[s] = call[s] /\ at'[s] = at[s]
    BY <1>1 DEF Inv, ClientSorts, Clients, Stoppers
  <2> QED
    BY <1>1, <1>2, <2>1, SameStops DEF Inv
<1> QED
  BY <1>2, <1>3, <1>4, <1>5, <1>6 DEF Inv

\* Start returns nil, with handleUpdates running.
LEMMA StartReturnsStep == ASSUME Inv, StartReturns PROVE Inv'
<1>1. /\ call["main"] = "starting" /\ handler[1] = "none"
      /\ lock' = C!NoClient /\ call' = [call EXCEPT !["main"] = "idle"]
      /\ started' = TRUE /\ watching' = TRUE
      /\ handler' = [handler EXCEPT ![1] = "select"]
      /\ UNCHANGED <<at, working, stopCh, stopper, late, exit>>
      /\ UNCHANGED <<albVars, nginxVars>>
  BY DEF StartReturns, C!watchForUpdates, programVars
<1>2. AlbSorts' /\ AttachInv' /\ UNCHANGED stop
  BY <1>1, SameAlb DEF Inv
<1>3. NginxSorts'
  BY <1>1, SameNginx DEF Inv
<1>4. ClientSorts' /\ HandlerSorts'
  BY <1>1 DEF Inv, ClientSorts, HandlerSorts, Clients
<1>5. LifeInv'
  <2>1. ~stopCh
    BY <1>1 DEF Inv, LifeInv
  <2> QED
    BY <1>1, <1>2, <2>1 DEF Inv, ClientSorts, LifeInv, Clients, Stoppers
<1>6. HandlerInv'
  <2>1. UNCHANGED <<update, updating, nginx, updated, registered, overlap>>
    BY <1>1 DEF albVars, nginxVars
  <2> QED
    BY <1>1, <2>1 DEF Inv, HandlerSorts, HandlerInv
<1>7. StopInv'
  <2>1. \A s \in Stoppers : call'[s] = call[s] /\ at'[s] = at[s]
    BY <1>1 DEF Inv, ClientSorts, Clients, Stoppers
  <2> QED
    BY <1>1, <1>2, <2>1, SameStops DEF Inv
<1> QED
  BY <1>2, <1>3, <1>4, <1>5, <1>6, <1>7 DEF Inv

\* Start fails, and the program with it.
LEMMA StartFailsStep == ASSUME Inv, StartFails PROVE Inv'
<1>1. /\ call["main"] = "cleaning"
      /\ lock' = C!NoClient /\ call' = [call EXCEPT !["main"] = "idle"]
      /\ exit' = "fatal"
      /\ UNCHANGED <<at, started, watching, stopCh, stopper, late>>
      /\ UNCHANGED <<handlerSide, albVars, nginxVars>>
  BY DEF StartFails, C!StartFails, C!lifeVars, C!handlerVars, handlerSide
<1>2. AlbSorts' /\ AttachInv' /\ UNCHANGED stop
  BY <1>1, SameAlb DEF Inv
<1>3. HandlerSorts' /\ HandlerInv' /\ NginxSorts'
  BY <1>1, SameHandler, SameNginx DEF Inv
<1>4. ClientSorts'
  BY <1>1 DEF Inv, ClientSorts, Clients
<1>5. LifeInv'
  BY <1>1, <1>2 DEF Inv, ClientSorts, LifeInv, Clients, Stoppers
<1>6. StopInv'
  <2>1. \A s \in Stoppers : call'[s] = call[s] /\ at'[s] = at[s]
    BY <1>1 DEF Inv, ClientSorts, Clients, Stoppers
  <2>2. UNCHANGED <<nginx, stopping>>
    BY <1>1 DEF nginxVars
  <2> QED
    BY <1>1, <1>2, <2>1, <2>2 DEF Inv, StopInv
<1> QED
  BY <1>2, <1>3, <1>4, <1>5, <1>6 DEF Inv

-----------------------------------------------------------------------------
(* handleUpdates.                                                           *)

\* A step of handleUpdates between two Updates leaves most of the invariant alone.
LEMMA HandlerFrame ==
  ASSUME Inv, HandlerSorts', HandlerInv',
         UNCHANGED <<clientSide, albVars, nginxVars, exit>>, late' \/ ~late
  PROVE  Inv'
<1>1. UNCHANGED <<stopper, stopCh, call, at>>
  BY DEF clientSide
<1>2. AlbSorts' /\ AttachInv' /\ UNCHANGED stop
  BY SameAlb DEF Inv
<1>3. ClientSorts' /\ LifeInv' /\ NginxSorts'
  BY <1>2, SameClients, SameNginx DEF Inv
<1>4. UNCHANGED <<nginx, stopping>>
  BY DEF nginxVars
<1>5. StopInv'
  BY <1>1, <1>2, <1>4 DEF Inv, StopInv
<1> QED
  BY <1>2, <1>3, <1>5 DEF Inv

\* handleUpdates receives an update.
LEMMA ReceiveStep == ASSUME Inv, Receive PROVE Inv'
<1>1. /\ handler[1] = "select" /\ handler' = [handler EXCEPT ![1] = "reading"]
      /\ working' = working
      /\ UNCHANGED <<clientSide, albVars, nginxVars, exit>>
  BY DEF Receive, C!Receive, C!clientVars, C!lifeVars, clientSide
<1>2. late' = (late \/ stopCh)
  BY DEF Receive
<1>3. UNCHANGED <<update, updating, nginx, updated, registered, overlap, stopCh>>
  BY <1>1 DEF albVars, nginxVars, clientSide
<1>4. HandlerSorts'
  BY <1>1 DEF Inv, HandlerSorts
<1>5. HandlerInv'
  BY <1>1, <1>2, <1>3, Zenon DEF Inv, HandlerSorts, HandlerInv
<1> QED
  BY <1>1, <1>2, <1>4, <1>5, HandlerFrame, Zenon

\* handleUpdates reads the cluster, sets updatesHealth, or ends.
LEMMA InternalStep == ASSUME Inv, Internal PROVE Inv'
<1>1. /\ handler[1] \in {"reading", "returned", "select"}
      /\ \/ /\ handler[1] = "reading" /\ handler' = [handler EXCEPT ![1] = "updating"]
            /\ working' = [working EXCEPT ![1] = 1]
         \/ /\ working' = working
            /\ \E h \in {"returned", "select", "stopped"} : handler' = [handler EXCEPT ![1] = h]
      /\ UNCHANGED <<clientSide, albVars, nginxVars, exit, late>>
  <2>1. UNCHANGED <<clientSide, albVars, nginxVars, exit, late>>
    BY DEF Internal, C!ReadCluster, C!SetHealth, C!HandlerStops, C!clientVars, C!lifeVars,
           clientSide, programVars
  <2> QED
    BY <2>1 DEF Internal, C!ReadCluster, C!SetHealth, C!HandlerStops, C!Return
<1>2. UNCHANGED <<update, updating, nginx, updated, registered, overlap, stopCh>>
  BY <1>1 DEF albVars, nginxVars, clientSide
<1>3. HandlerSorts'
  BY <1>1 DEF Inv, HandlerSorts
<1>4. HandlerInv'
  BY <1>1, <1>2 DEF Inv, HandlerSorts, HandlerInv
<1> QED
  BY <1>1, <1>3, <1>4, HandlerFrame

\* What handleUpdates does when the Update of an updater is running or returns.
LEMMA ReturnFacts ==
  ASSUME NEW i \in 1..2, HandlerSorts, handler[1] = "updating", working[1] = i,
         UNCHANGED controllerVars \/ C!UpdateNil(1) \/ C!UpdateErr(1)
  PROVE  /\ UNCHANGED <<lock, call, at, started, watching, stopCh>>
         /\ HandlerSorts'
         /\ \/ UNCHANGED handlerSide
            \/ handler'[1] = "returned"
            \/ i = 1 /\ handler'[1] = "updating" /\ working'[1] = 2 /\ C!UpdateNil(1)
<1>1. CASE UNCHANGED controllerVars
  BY <1>1 DEF controllerVars, handlerSide, HandlerSorts
<1>2. CASE C!UpdateErr(1)
  BY <1>2, Zenon DEF C!UpdateErr, C!Return, C!clientVars, C!lifeVars, HandlerSorts
<1>3. CASE C!UpdateNil(1)
  <2>1. UNCHANGED <<lock, call, at, started, watching, stopCh>>
    BY <1>3 DEF C!UpdateNil, C!clientVars, C!lifeVars
  <2> QED
    BY <1>3, <2>1 DEF C!UpdateNil, C!Return, HandlerSorts
<1> QED
  BY <1>1, <1>2, <1>3

\* The nginx updater's Update.
LEMMA UpdateNginxStep == ASSUME Inv, UpdateNginx PROVE Inv'
<1>1. handler[1] = "updating" /\ working[1] = 1
  BY DEF UpdateNginx, Updating, Updaters, Inv, HandlerSorts
<1>2. /\ UNCHANGED <<lock, call, at, started, watching, stopCh>>
      /\ HandlerSorts'
      /\ \/ UNCHANGED handlerSide
         \/ handler'[1] = "returned"
         \/ handler'[1] = "updating" /\ working'[1] = 2 /\ C!UpdateNil(1)
  <2>1. UNCHANGED controllerVars \/ C!UpdateNil(1) \/ C!UpdateErr(1)
    BY DEF UpdateNginx
  <2> QED
    BY <1>1, <2>1, ReturnFacts DEF Inv
<1>3. UNCHANGED <<albVars, stopper, exit, late>>
  BY DEF UpdateNginx, programVars
<1>4. /\ stopping' = stopping
      /\ \/ UNCHANGED controllerVars /\ updating' /\ updated' = updated /\ nginx' = nginx
         \/ UNCHANGED controllerVars /\ Service!Boot
         \/ ~updating' /\ nginx' = nginx /\ updated' /\ nginx # "none"
         \/ ~updating' /\ nginx' = nginx /\ updated' = updated /\ C!UpdateErr(1)
  BY DEF UpdateNginx, Service!BeginUpdate, Service!Boot, Service!UpdateSucceeds, Service!UpdateFails
<1>5. AlbSorts' /\ AttachInv' /\ UNCHANGED stop
  BY <1>3, SameAlb DEF Inv
<1>6. ClientSorts' /\ LifeInv'
  BY <1>2, <1>3, <1>5, SameClients DEF Inv, clientSide
<1>7. NginxSorts'
  BY <1>4 DEF Inv, NginxSorts, Service!Boot
<1>8. HandlerInv'
  <2>1. UNCHANGED <<update, registered, overlap>>
    BY <1>3, Zenon DEF albVars
  <2>2. CASE UNCHANGED controllerVars
    <3>1. UNCHANGED handlerSide
      BY <2>2 DEF controllerVars, handlerSide
    <3> QED
      BY <1>1, <1>2, <1>3, <1>4, <2>1, <3>1 DEF Inv, HandlerInv, handlerSide, Service!Boot
  <2>3. CASE ~updating' /\ nginx' = nginx /\ updated' /\ nginx # "none"
    BY <1>1, <1>2, <1>3, <2>1, <2>3 DEF Inv, HandlerInv, handlerSide
  <2>4. CASE ~updating' /\ nginx' = nginx /\ updated' = updated /\ C!UpdateErr(1)
    <3>1. handler'[1] = "returned"
      BY <2>4, Zenon DEF C!UpdateErr, C!Return, Inv, HandlerSorts
    <3> QED
      BY <1>1, <1>2, <1>3, <2>1, <2>4, <3>1 DEF Inv, HandlerInv
  <2> QED
    BY <1>4, <2>2, <2>3, <2>4
<1>9. StopInv'
  <2>1. nginx' = nginx \/ (updating /\ nginx' = "up")
    BY <1>4 DEF Service!Boot
  <2>2. stopCh /\ updating => late
    BY DEF Inv, HandlerInv
  <2>3. stopping # "idle" => stopCh
    BY DEF Inv, StopInv, LifeInv
  <2> QED
    BY <1>2, <1>3, <1>4, <1>5, <2>1, <2>2, <2>3 DEF Inv, StopInv
<1> QED
  BY <1>2, <1>5, <1>6, <1>7, <1>8, <1>9 DEF Inv

\* What each step of the alb updater's Update changes.
LEMMA AlbUpdateFacts ==
  ASSUME A!Update \/ A!UpdateSteps
  PROVE  /\ UNCHANGED <<existing, stop, stopTodo, undetached>>
         /\ overlap' = overlap \/ (A!Update /\ update' = "find" /\ overlap' = (overlap \/ stop # "idle"))
         /\ albARNs' \in {albARNs, existing} /\ update' \in {"idle", "find", "register"}
<1>1. CASE A!Update
  BY <1>1 DEF A!Update
<1>2. CASE A!Find
  BY <1>2 DEF A!Find, A!ReturnError
<1>3. CASE A!Register
  BY <1>3 DEF A!Register, A!ReturnError
<1>4. CASE A!Attached
  BY <1>4 DEF A!Attached
<1> QED
  BY <1>1, <1>2, <1>3, <1>4, Zenon DEF A!UpdateSteps

\* A step of the alb updater's Update keeps what the updater knows.
LEMMA AlbUpdateAttach ==
  ASSUME Sizes, AlbSorts, AttachInv, A!Update \/ A!UpdateSteps PROVE AlbSorts' /\ AttachInv'
<1>1. AlbSorts'
  BY AlbUpdateFacts DEF AlbSorts
<1>2. CASE A!Update
  <2>1. /\ UNCHANGED <<existing, registered, albARNs, registeredFrontends, todo, stop, stopTodo,
                       undetached>>
        /\ update = "idle" /\ update' \in {"idle", "find"}
    BY <1>2 DEF A!Update
  <2>2. ~overlap' => ~overlap /\ (update' = "idle" \/ stop = "idle")
    BY <1>2, <2>1, ZenonT(40) DEF A!Update
  <2> QED
    BY <1>1, <2>1, <2>2 DEF AttachInv
<1>3. CASE A!Find
  BY <1>1, <1>3, Zenon DEF A!Find, A!ReturnError, AttachInv, AlbSorts
<1>4. CASE A!Register
  <2>1. PICK tg \in todo :
          \/ /\ registered' = registered \cup {tg} /\ todo' = todo \ {tg} /\ update' = update
          \/ /\ registered' \in {registered, registered \cup {tg}} /\ todo' = {} /\ update' = "idle"
    BY <1>4 DEF A!Register, A!ReturnError
  <2>2. UNCHANGED <<existing, albARNs, registeredFrontends, stop, stopTodo, undetached, overlap>>
    BY <1>4 DEF A!Register
  <2>3. update = "register"
    BY <1>4 DEF A!Register
  <2> QED
    BY <1>1, <2>1, <2>2, <2>3 DEF AttachInv
<1>5. CASE A!Attached
  <2>1. /\ registeredFrontends' = Cardinality(albARNs)
        /\ update' = "idle" /\ todo = {} /\ update = "register"
        /\ UNCHANGED <<existing, registered, albARNs, todo, stop, stopTodo, undetached, overlap>>
    BY <1>5, SameCardinality DEF A!Attached
  <2>2. Cardinality(albARNs) = Cardinality(TargetGroups) => albARNs = TargetGroups
    BY DEF Sizes, AlbSorts
  <2> QED
    BY <1>1, <2>1, <2>2, Zenon DEF AttachInv
<1> QED
  BY <1>2, <1>3, <1>4, <1>5 DEF A!UpdateSteps

\* The alb updater's Update.
LEMMA UpdateAlbStep == ASSUME Sizes, Inv, UpdateAlb PROVE Inv'
<1>1. handler[1] = "updating" /\ working[1] = 2
  BY DEF UpdateAlb, Updating, Updaters, Inv, HandlerSorts
<1>2. A!Update \/ A!UpdateSteps
  BY DEF UpdateAlb
<1>3. /\ UNCHANGED controllerVars \/ C!UpdateNil(1) \/ C!UpdateErr(1)
      /\ UNCHANGED controllerVars \/ update' = "idle"
      /\ UNCHANGED <<nginxVars, stopper, exit, late>>
  BY DEF UpdateAlb, programVars
<1>4. /\ UNCHANGED <<lock, call, at, started, watching, stopCh>>
      /\ HandlerSorts'
      /\ UNCHANGED handlerSide \/ handler'[1] = "returned"
  BY <1>1, <1>3, ReturnFacts DEF Inv
<1>5. /\ UNCHANGED <<existing, stop, stopTodo, undetached>>
      /\ overlap' = overlap \/ overlap' = (overlap \/ stop # "idle")
  BY <1>2, AlbUpdateFacts
<1>6. AlbSorts' /\ AttachInv'
  BY <1>2, AlbUpdateAttach, Zenon DEF Inv
<1>7. ClientSorts' /\ LifeInv' /\ NginxSorts'
  BY <1>3, <1>4, <1>5, SameClients, SameNginx, Zenon DEF Inv, clientSide
<1>8. HandlerInv'
  <2>1. UNCHANGED <<nginx, updating, updated>>
    BY <1>3 DEF nginxVars
  <2>2. stop # "idle" => late
    BY <1>1 DEF Inv, LifeInv, HandlerInv
  <2>3. overlap' => late
    BY <1>5, <2>2, ZenonT(40) DEF Inv, HandlerInv
  <2>4. update' # "idle" => UNCHANGED handlerSide
    BY <1>3, Zenon DEF controllerVars, handlerSide
  <2> QED
    BY <1>1, <1>3, <1>4, <2>1, <2>3, <2>4 DEF Inv, HandlerInv, handlerSide
<1>9. StopInv'
  BY <1>3, <1>4, <1>5, SameStops DEF Inv
<1> QED
  BY <1>4, <1>6, <1>7, <1>8, <1>9 DEF Inv

-----------------------------------------------------------------------------
(* The goroutines that call Stop.                                           *)

\* A signal arrives, or the health port is lost.
LEMMA WakeStep == ASSUME Inv, NEW s \in Stoppers, Wake(s) PROVE Inv'
<1>1. /\ stopper[s] = "waiting" /\ stopper' = [stopper EXCEPT ![s] = "stop"]
      /\ UNCHANGED <<lock, call, at, started, watching, stopCh, late, exit, handlerSide>>
      /\ UNCHANGED <<albVars, nginxVars>>
  BY DEF Wake, controllerVars, handlerSide
<1>2. AlbSorts' /\ AttachInv' /\ UNCHANGED stop
  BY <1>1, SameAlb DEF Inv
<1>3. HandlerSorts' /\ HandlerInv' /\ NginxSorts'
  BY <1>1, SameHandler, SameNginx, Zenon DEF Inv
<1>4. ClientSorts'
  BY <1>1, Zenon DEF Inv, ClientSorts
<1>5. LifeInv'
  BY <1>1, <1>2, Zenon DEF Inv, ClientSorts, LifeInv
<1>6. StopInv'
  <2>1. UNCHANGED <<nginx, stopping>>
    BY <1>1 DEF nginxVars
  <2>2. \A t \in Stoppers : stopper'[t] = "stopped" <=> stopper[t] = "stopped"
    BY <1>1 DEF Inv, ClientSorts
  <2> QED
    BY <1>1, <1>2, <2>1, <2>2 DEF Inv, StopInv, Stoppers
<1> QED
  BY <1>2, <1>3, <1>4, <1>5, <1>6, Zenon DEF Inv

\* Stop takes the mutex and closes stopCh; it does so once.
LEMMA CallStopStep == ASSUME Inv, NEW s \in Stoppers, CallStop(s) PROVE Inv'
<1>1. /\ stopper[s] = "stop" /\ lock = C!NoClient /\ started
      /\ stopCh' = TRUE /\ lock' = s
      /\ call' = [call EXCEPT ![s] = "stopping"] /\ at' = [at EXCEPT ![s] = 2]
      /\ stopper' = [stopper EXCEPT ![s] = "stopping"]
      /\ UNCHANGED <<started, watching, exit, handlerSide, albVars, nginxVars>>
  BY DEF CallStop, C!Stop, C!handlerVars, handlerSide
<1>2. late' = (handler[1] \in {"reading", "updating"})
  BY DEF CallStop
<1>3. \A c \in Clients : call[c] = "idle"
  BY <1>1, ZenonT(40) DEF Inv, LifeInv, Clients, C!NoClient
<1>4. ~stopCh
  BY <1>1, ZenonT(40) DEF Inv, LifeInv, Stoppers, C!NoClient
<1>5. stop = "idle" /\ stopping = "idle" /\ ~late /\ ~overlap
  <2>1. stop = "idle" /\ ~late
    BY <1>4 DEF Inv, LifeInv, HandlerInv
  <2> QED
    BY <2>1 DEF Inv, StopInv, HandlerInv
<1>6. AlbSorts' /\ AttachInv' /\ UNCHANGED stop
  BY <1>1, SameAlb DEF Inv
<1>7. NginxSorts'
  BY <1>1, SameNginx, Zenon DEF Inv
<1>8. ClientSorts' /\ HandlerSorts'
  BY <1>1 DEF Inv, ClientSorts, HandlerSorts, handlerSide, Clients, Stoppers
<1>9. LifeInv'
  <2>1. call'[s] = "stopping" /\ stopper'[s] = "stopping" /\ at'[s] = 2
    BY <1>1 DEF Inv, ClientSorts, Clients, Stoppers
  <2>2. \A c \in Clients : c # s => call'[c] = "idle"
    BY <1>1, <1>3
  <2>3. \A t \in Stoppers : t # s => stopper'[t] = stopper[t] /\ t \in Clients
    BY <1>1 DEF Inv, ClientSorts, Clients, Stoppers
  <2>4. \A t \in Stoppers : t # s => stopper'[t] # "stopping"
    BY <1>3, <2>3, Zenon DEF Inv, LifeInv
  <2>5. "main" \in Clients /\ s # "main" /\ watching
    BY <1>1 DEF Inv, LifeInv, Clients, Stoppers
  <2>6. /\ \A c \in Clients : call'[c] # "idle" => lock' = c
        /\ call'["main"] # "stopping"
        /\ call'["main"] # "idle" => ~watching'
    BY <1>1, <2>1, <2>2, <2>5, Zenon
  <2>7. \A t \in Stoppers :
          /\ call'[t] \in {"idle", "stopping"}
          /\ stopper'[t] = "stopping" <=> call'[t] = "stopping"
          /\ call'[t] = "stopping" => stopCh' /\ at'[t] \in 0..2
    BY <1>1, <2>1, <2>2, <2>3, <2>4
  <2>8. /\ started' \/ stopCh' => watching'
        /\ started' /\ stopCh' => lock' \in Stoppers
        /\ stop' # "idle" => stopCh'
    BY <1>1, <2>5
  <2> QED
    BY <2>6, <2>7, <2>8, Zenon DEF LifeInv
<1>10. HandlerInv'
  <2>1. UNCHANGED <<update, updating, nginx, updated, registered, overlap, handler, working>>
    BY <1>1, Zenon DEF albVars, nginxVars, handlerSide
  <2> QED
    BY <1>1, <1>2, <1>5, <2>1, Zenon DEF Inv, HandlerInv
<1>11. StopInv'
  <2>1. UNCHANGED <<nginx, stopping>>
    BY <1>1 DEF nginxVars
  <2>2. \A t \in Stoppers : stopper[t] # "stopped"
    BY <1>5 DEF Inv, StopInv
  <2>3. \A t \in Stoppers : stopper'[t] # "stopped"
    BY <1>1, <2>2, Zenon DEF Inv, ClientSorts
  <2>4. \A t \in Stoppers : call'[t] = "stopping" => at'[t] = 2
    BY <1>1, <1>3 DEF Inv, ClientSorts, Clients, Stoppers
  <2> QED
    BY <1>1, <1>5, <2>1, <2>2, <2>3, <2>4 DEF Inv, StopInv, Stoppers
<1> QED
  BY <1>6, <1>7, <1>8, <1>9, <1>10, <1>11, ZenonT(60) DEF Inv

\* The program exits, with or without a stopped controller.
LEMMA ExitStep == ASSUME Inv, NEW s \in Stoppers, NotStarted(s) \/ Exit(s) PROVE Inv'
<1>1. /\ UNCHANGED <<clientSide, handlerSide, albVars, nginxVars, late>>
      /\ exit' = "ok" => stopper["signal"] = "stopped"
  BY DEF NotStarted, Exit, controllerVars, clientSide, handlerSide
<1>2. AlbSorts' /\ AttachInv' /\ UNCHANGED stop
  BY <1>1, SameAlb DEF Inv
<1>3. ClientSorts' /\ LifeInv' /\ NginxSorts'
  BY <1>1, <1>2, SameClients, SameNginx DEF Inv
<1>4. UNCHANGED <<call, at, stopCh, stopper>>
  BY <1>1 DEF clientSide
<1>5. HandlerSorts' /\ HandlerInv'
  BY <1>1, <1>4, SameHandler, Zenon DEF Inv
<1>6. StopInv'
  <2>1. UNCHANGED <<nginx, stopping>>
    BY <1>1 DEF nginxVars
  <2> QED
    BY <1>1, <1>2, <1>4, <2>1 DEF Inv, StopInv
<1> QED
  BY <1>2, <1>3, <1>5, <1>6, Zenon DEF Inv

\* Stop returns.
LEMMA StopReturnsStep == ASSUME Inv, NEW s \in Stoppers, StopReturns(s) PROVE Inv'
<1>1. /\ call[s] = "stopping" /\ at[s] = 0
      /\ started' = FALSE /\ call' = [call EXCEPT ![s] = "idle"] /\ lock' = C!NoClient
      /\ stopper' = [stopper EXCEPT ![s] = "stopped"]
      /\ UNCHANGED <<at, watching, stopCh, exit, late, handlerSide, albVars, nginxVars>>
  BY Zenon DEF StopReturns, C!StopReturns, C!handlerVars, handlerSide
<1>2. AlbSorts' /\ AttachInv' /\ UNCHANGED stop
  BY <1>1, SameAlb, Zenon DEF Inv
<1>3. HandlerSorts' /\ HandlerInv' /\ NginxSorts'
  BY <1>1, SameHandler, SameNginx, Zenon DEF Inv
<1>4. ClientSorts'
  BY <1>1 DEF Inv, ClientSorts, Clients, Stoppers
<1>5. LifeInv'
  <2>1. \A c \in Clients : c # s => call[c] = "idle"
    BY <1>1, Zenon DEF Inv, LifeInv, Clients, Stoppers
  <2> QED
    BY <1>1, <1>2, <2>1, ZenonT(40) DEF Inv, ClientSorts, LifeInv, Clients, Stoppers
<1>6. StopInv'
  <2>1. UNCHANGED <<nginx, stopping>>
    BY <1>1, Zenon DEF nginxVars
  <2>2. stop = "nil" /\ stopping \in {"nil", "error"}
    BY <1>1 DEF Inv, StopInv
  <2> QED
    BY <1>1, <1>2, <2>1, <2>2 DEF Inv, ClientSorts, StopInv, Stoppers
<1> QED
  BY <1>2, <1>3, <1>4, <1>5, <1>6 DEF Inv

\* The mutex, when a Stop goes on to the next updater.
LEMMA StopTurn ==
  ASSUME LifeInv, UNCHANGED <<lock, call, started, watching, stopCh, stopper>>,
         \A t \in Stoppers : call[t] = "stopping" => at'[t] \in 0..2, stop' # "idle" => stopCh
  PROVE  LifeInv'
<1>1. \A t \in Stoppers :
        /\ call'[t] \in {"idle", "stopping"}
        /\ stopper'[t] = "stopping" <=> call'[t] = "stopping"
        /\ call'[t] = "stopping" => stopCh' /\ at'[t] \in 0..2
  BY DEF LifeInv
<1>2. \A c \in Clients : call'[c] # "idle" => lock' = c
  BY DEF LifeInv
<1>3. /\ call'["main"] # "stopping"
      /\ call'["main"] # "idle" => ~watching'
  BY DEF LifeInv
<1>4. /\ started' \/ stopCh' => watching'
      /\ started' /\ stopCh' => lock' \in Stoppers
      /\ stop' # "idle" => stopCh'
  BY DEF LifeInv
<1> QED
  BY <1>1, <1>2, <1>3, <1>4, Zenon DEF LifeInv

\* A step of the alb updater's Stop keeps what the updater knows.
LEMMA AlbStopAttach ==
  ASSUME AlbSorts, AttachInv, A!Stop \/ A!Deregister \/ A!StopReturns
  PROVE  AlbSorts' /\ AttachInv'
<1>1. CASE A!Stop
  <2>1. /\ UNCHANGED <<existing, registered, albARNs, todo, update, undetached, registeredFrontends>>
        /\ stop' = "deregister" /\ stopTodo' = albARNs
    BY <1>1 DEF A!Stop, A!updateVars
  <2>2. ~overlap' => update = "idle"
    BY <1>1, ZenonT(40) DEF A!Stop
  <2> QED
    BY <2>1, <2>2, Zenon DEF AlbSorts, AttachInv
<1>2. CASE A!Deregister
  <2>1. PICK tg \in stopTodo :
          /\ stopTodo' = stopTodo \ {tg}
          /\ \/ registered' = registered \ {tg} /\ undetached' = undetached
             \/ /\ undetached' = undetached \cup {tg}
                /\ registered' \in {registered, registered \ {tg}}
    BY <1>2, Zenon DEF A!Deregister
  <2>2. /\ UNCHANGED <<existing, albARNs, todo, update, registeredFrontends, stop, overlap>>
        /\ stop = "deregister"
    BY <1>2, Zenon DEF A!Deregister, A!updateVars
  <2>3. AlbSorts'
    BY <2>1, <2>2, Zenon DEF AlbSorts
  <2> QED
    BY <2>1, <2>2, <2>3, Zenon DEF AttachInv
<1>3. CASE A!StopReturns
  <2>1. /\ UNCHANGED <<existing, registered, albARNs, todo, update, undetached, registeredFrontends,
                       stopTodo, overlap>>
        /\ stop = "deregister" /\ stop' = "nil" /\ stopTodo = {}
    BY <1>3, Zenon DEF A!StopReturns, A!updateVars
  <2> QED
    BY <2>1, Zenon DEF AlbSorts, AttachInv
<1> QED
  BY <1>1, <1>2, <1>3, Zenon

\* Stop is in the alb updater's Stop.
LEMMA StopAlbStep == ASSUME Inv, NEW s \in Stoppers, StopAlb(s) PROVE Inv'
<1>1. call[s] = "stopping" /\ at[s] = 2
  BY DEF StopAlb, Stopping, Updaters, Inv, ClientSorts, LifeInv
<1>2. /\ UNCHANGED <<lock, call, started, watching, stopCh, handlerSide>>
      /\ \/ at' = at
         \/ stop' = "nil" /\ at' = [at EXCEPT ![s] = @ - 1]
  <2>1. CASE UNCHANGED controllerVars
    BY <2>1, Zenon DEF controllerVars, handlerSide
  <2>2. CASE A!StopReturns /\ C!StopUpdater(s)
    BY <2>2 DEF A!StopReturns, C!StopUpdater, C!handlerVars, handlerSide
  <2> QED
    BY <2>1, <2>2 DEF StopAlb
<1>3. UNCHANGED <<nginxVars, stopper, exit, late>>
  BY DEF StopAlb, programVars
<1>4. A!Stop \/ A!Deregister \/ A!StopReturns
  BY Zenon DEF StopAlb
<1>5. /\ stop # "nil" /\ update' = update /\ registered' \subseteq registered
      /\ overlap' = overlap \/ overlap' = (update # "idle")
  BY <1>4 DEF A!Stop, A!Deregister, A!StopReturns, A!updateVars
<1>6. AlbSorts' /\ AttachInv'
  BY <1>4, AlbStopAttach DEF Inv
<1>7. NginxSorts'
  BY <1>3, SameNginx, Zenon DEF Inv
<1>8. ClientSorts' /\ HandlerSorts'
  BY <1>1, <1>2, <1>3 DEF Inv, ClientSorts, HandlerSorts, handlerSide, Clients, Stoppers
<1>9. LifeInv'
  <2>1. stopCh
    BY <1>1, Zenon DEF Inv, LifeInv
  <2>2. \A t \in Stoppers : at'[t] = at[t] \/ (t = s /\ at'[t] = 1)
    BY <1>1, <1>2 DEF Inv, ClientSorts, Clients, Stoppers
  <2>3. \A t \in Stoppers : call[t] = "stopping" => at'[t] \in 0..2
    BY <2>2 DEF Inv, LifeInv
  <2> QED
    BY <1>2, <1>3, <2>1, <2>3, StopTurn, Zenon DEF Inv
<1>10. HandlerInv'
  <2>1. UNCHANGED <<nginx, updating, updated, handler, working>>
    BY <1>2, <1>3, Zenon DEF nginxVars, handlerSide
  <2>2. update # "idle" => late
    BY <1>1 DEF Inv, LifeInv, HandlerInv
  <2>3. overlap' => late
    BY <1>5, <2>2, Zenon DEF Inv, HandlerInv
  <2>4. registered # {} => nginx # "none"
    BY Zenon DEF Inv, HandlerInv
  <2> QED
    BY <1>2, <1>3, <1>5, <2>1, <2>3, <2>4, ZenonT(60) DEF Inv, HandlerInv
<1>11. StopInv'
  <2>1. UNCHANGED <<nginx, stopping>>
    BY <1>3, Zenon DEF nginxVars
  <2>2. \A t \in Stoppers : call[t] = "stopping" => t = s
    BY <1>1, Zenon DEF Inv, LifeInv, Clients, Stoppers
  <2>3. \A t \in Stoppers : call'[t] = "stopping" => at'[t] # 0 /\ (at'[t] < 2 => stop' = "nil")
    BY <1>1, <1>2, <2>2 DEF Inv, ClientSorts, Clients, Stoppers
  <2>4. stopping = "idle" /\ \A t \in Stoppers : stopper[t] # "stopped"
    BY <1>5, Zenon DEF Inv, StopInv
  <2> QED
    BY <1>2, <1>3, <2>1, <2>3, <2>4, Zenon DEF Inv, StopInv
<1> QED
  BY <1>6, <1>7, <1>8, <1>9, <1>10, <1>11, Zenon DEF Inv

\* Stop is in the nginx updater's Stop.
LEMMA StopNginxStep == ASSUME Inv, NEW s \in Stoppers, StopNginx(s) PROVE Inv'
<1>1. call[s] = "stopping" /\ at[s] = 1
  BY DEF StopNginx, Stopping, Updaters, Inv, ClientSorts, LifeInv
<1>2. /\ UNCHANGED <<lock, call, started, watching, stopCh, handlerSide>>
      /\ \/ stopping' = "waiting" /\ at' = at
         \/ stopping' # "waiting" /\ at' = [at EXCEPT ![s] = @ - 1]
  <2>1. CASE stopping' = "waiting"
    BY <2>1, Zenon DEF StopNginx, controllerVars, handlerSide
  <2>2. CASE stopping' # "waiting"
    BY <2>2 DEF StopNginx, C!StopUpdater, C!handlerVars, handlerSide
  <2> QED
    BY <2>1, <2>2, Zenon
<1>3. UNCHANGED <<albVars, stopper, exit, late>>
  BY Zenon DEF StopNginx, programVars
<1>4. /\ UNCHANGED <<nginx, updating, updated>>
      /\ stopping' \in {"waiting", "nil", "error"}
      /\ stopping' # "waiting" => nginx # "up" \/ updating
  BY DEF StopNginx, Service!Stop, Service!StopReturns, Service!Gone
<1>5. AlbSorts' /\ AttachInv' /\ UNCHANGED stop
  BY <1>3, SameAlb DEF Inv
<1>6. NginxSorts'
  BY <1>4, Zenon DEF Inv, NginxSorts
<1>7. ClientSorts' /\ HandlerSorts'
  BY <1>1, <1>2, <1>3 DEF Inv, ClientSorts, HandlerSorts, handlerSide, Clients, Stoppers
<1>8. \A t \in Stoppers : call[t] = "stopping" => t = s
  BY <1>1, Zenon DEF Inv, LifeInv, Clients, Stoppers
<1>9. \A t \in Stoppers : at'[t] = at[t] \/ (t = s /\ at'[t] = 0 /\ stopping' # "waiting")
  BY <1>1, <1>2 DEF Inv, ClientSorts, Clients, Stoppers
<1>10. LifeInv'
  <2>1. \A t \in Stoppers : call[t] = "stopping" => at'[t] \in 0..2
    BY <1>9 DEF Inv, LifeInv
  <2>2. stop' # "idle" => stopCh
    BY <1>5, Zenon DEF Inv, LifeInv
  <2> QED
    BY <1>2, <1>3, <2>1, <2>2, StopTurn, ZenonT(60) DEF Inv
<1>11. HandlerInv'
  <2>1. UNCHANGED <<update, registered, overlap, handler, working>>
    BY <1>2, <1>3 DEF albVars, handlerSide
  <2> QED
    BY <1>2, <1>3, <1>4, <2>1, Zenon DEF Inv, HandlerInv
<1>12. StopInv'
  <2>1. stop = "nil" /\ stopCh
    BY <1>1 DEF Inv, StopInv, LifeInv
  <2>2. updating => late
    BY <2>1 DEF Inv, HandlerInv
  <2>3. stopping' \in {"nil", "error"} /\ ~late => nginx # "up"
    BY <1>4, <2>2, Zenon
  <2>4. \A t \in Stoppers : stopper[t] = "stopped" => stopping' \in {"nil", "error"}
    BY Zenon DEF Inv, StopInv, StopNginx, Service!Stop, Service!StopReturns
  <2>5. \A t \in Stoppers : call'[t] = "stopping" /\ at'[t] = 0 => stopping' \in {"nil", "error"}
    BY <1>1, <1>2, <1>4, <1>8, <1>9
  <2> QED
    BY <1>2, <1>3, <1>4, <1>5, <2>1, <2>3, <2>4, <2>5, ZenonT(40) DEF Inv, StopInv
<1> QED
  BY <1>5, <1>6, <1>7, <1>10, <1>11, <1>12, Zenon DEF Inv

-----------------------------------------------------------------------------
(* nginx and the world.                                                     *)

\* nginx quits or crashes, or the nginx updater ends the program.
LEMMA NginxStep == ASSUME Inv, Nginx PROVE Inv'
<1>1. UNCHANGED <<clientSide, handlerSide, albVars, late>>
  BY Zenon DEF Nginx, controllerVars, clientSide, handlerSide
<1>2. /\ UNCHANGED <<updating, updated, stopping>>
      /\ \/ nginx = "up" /\ stopping = "waiting" /\ nginx' = "quit"
         \/ nginx = "up" /\ nginx' = "crashed"
         \/ nginx' = nginx
      /\ exit' \in {exit, "fatal"}
  BY DEF Nginx, Service!Quit, Service!Crash, Service!Fatal
<1>3. AlbSorts' /\ AttachInv' /\ UNCHANGED stop
  BY <1>1, SameAlb DEF Inv
<1>4. ClientSorts' /\ LifeInv'
  BY <1>1, <1>3, SameClients, Zenon DEF Inv
<1>5. HandlerSorts' /\ NginxSorts'
  BY <1>1, <1>2 DEF Inv, HandlerSorts, NginxSorts, handlerSide
<1>6. UNCHANGED <<call, at, stopCh, stopper>>
  BY <1>1, Zenon DEF clientSide
<1>7. HandlerInv'
  <2>1. UNCHANGED <<update, registered, overlap, handler, working>>
    BY <1>1, Zenon DEF albVars, handlerSide
  <2> QED
    BY <1>1, <1>2, <1>6, <2>1, Zenon DEF Inv, HandlerInv
<1>8. StopInv'
  BY <1>1, <1>2, <1>3, <1>6 DEF Inv, StopInv
<1> QED
  BY <1>3, <1>4, <1>5, <1>7, <1>8, Zenon DEF Inv

\* The cluster changes, or a target group is created.
LEMMA WorldStep == ASSUME Inv, World PROVE Inv'
<1>1. UNCHANGED <<nginxVars, stopper, exit, late>>
  BY Zenon DEF World, programVars
<1>2. UNCHANGED <<lock, call, at, started, watching, stopCh, handlerSide>>
  BY DEF World, C!Change, C!Resync, C!clientVars, C!lifeVars, C!handlerVars, controllerVars,
         handlerSide
<1>3. CASE UNCHANGED albVars
  BY <1>1, <1>2, <1>3, SameAll, Zenon DEF clientSide
<1>4. CASE A!Create
  <2>1. /\ UNCHANGED <<registered, albARNs, todo, stop, update, overlap, stopTodo, undetached,
                       registeredFrontends>>
        /\ existing \subseteq existing' /\ existing' \subseteq existing \cup TargetGroups
    BY <1>4, Zenon DEF A!Create, A!updateVars
  <2>2. AlbSorts' /\ AttachInv'
    BY <2>1, Zenon DEF Inv, AlbSorts, AttachInv
  <2>3. ClientSorts' /\ LifeInv' /\ NginxSorts'
    BY <1>1, <1>2, <2>1, SameClients, SameNginx, ZenonT(60) DEF Inv, clientSide
  <2>4. HandlerSorts'
    BY <1>2 DEF Inv, HandlerSorts, handlerSide
  <2>5. HandlerInv'
    BY <1>1, <1>2, <2>1, ZenonT(40) DEF Inv, HandlerInv, handlerSide, nginxVars
  <2>6. StopInv'
    BY <1>1, <1>2, <2>1, SameStops, ZenonT(40) DEF Inv
  <2> QED
    BY <2>2, <2>3, <2>4, <2>5, <2>6, Zenon DEF Inv
<1> QED
  BY <1>3, <1>4 DEF World

\* A probe changes nothing but itself.
LEMMA ProbeStep == ASSUME Inv, Ask \/ Health \/ Readiness PROVE Inv'
<1>1. UNCHANGED <<controllerVars, albVars, nginxVars, stopper, exit, late>>
  BY DEF Ask, Health, Readiness
<1> QED
  BY <1>1, SameAll, Zenon DEF controllerVars, clientSide, handlerSide

\* Every step of the program keeps the invariant.
LEMMA StepInv == Sizes /\ Inv /\ [Next]_vars => Inv'
<1> SUFFICES ASSUME Sizes, Inv, [Next]_vars PROVE Inv'
  OBVIOUS
<1>1. CASE Main
  BY <1>1, CallStartStep, StartUpdaterStep, StartReturnsStep, StartFailsStep DEF Main
<1>2. CASE Handler
  BY <1>2, ReceiveStep, InternalStep, UpdateNginxStep, UpdateAlbStep DEF Handler
<1>3. CASE Ask \/ Health \/ Readiness
  BY <1>3, ProbeStep
<1>4. CASE Nginx
  BY <1>4, NginxStep
<1>5. CASE World
  BY <1>5, WorldStep, Zenon
<1>6. ASSUME NEW s \in Stoppers, Wake(s) \/ StopProgram(s) PROVE Inv'
  BY <1>6, WakeStep, CallStopStep, ExitStep, StopReturnsStep, StopAlbStep, StopNginxStep, ZenonT(60)
     DEF StopProgram
<1>7. CASE UNCHANGED vars
  <2>1. UNCHANGED <<controllerVars, albVars, nginxVars, stopper, exit, late>>
    BY <1>7 DEF vars, programVars
  <2> QED
    BY <2>1, SameAll, Zenon DEF controllerVars, clientSide, handlerSide
<1> QED
  BY <1>1, <1>2, <1>3, <1>4, <1>5, <1>6, <1>7, Zenon DEF Next

-----------------------------------------------------------------------------
\* Only the alb updater's steps, and the world, change what it keeps.
LEMMA AlbFrame ==
  [Next]_vars => \/ UpdateAlb \/ World \/ UNCHANGED albVars
                 \/ \E s \in Stoppers : StopAlb(s)
<1> SUFFICES ASSUME [Next]_vars
             PROVE  \/ UpdateAlb \/ World \/ UNCHANGED albVars
                    \/ \E s \in Stoppers : StopAlb(s)
  OBVIOUS
<1>1. Main \/ Receive \/ Internal \/ UpdateNginx \/ Ask \/ Health \/ Readiness \/ Nginx
        => UNCHANGED albVars
  BY ZenonT(40) DEF Main, CallStart, StartUpdater, StartReturns, StartFails, Receive, Internal, UpdateNginx,
         Ask, Health, Readiness, Nginx
<1>2. ASSUME NEW s \in Stoppers, Wake(s) \/ StopProgram(s)
      PROVE  StopAlb(s) \/ UNCHANGED albVars
  BY <1>2, Zenon DEF Wake, StopProgram, CallStop, NotStarted, StopNginx, StopReturns, Exit
<1>3. UNCHANGED vars => UNCHANGED albVars
  BY DEF vars
<1> QED
  BY <1>1, <1>2, <1>3, Zenon DEF Next, Handler

\* Every step of the program is one that a frontend may take, or leaves it alone.
LEMMA FrontendStep == Inv /\ Inv' /\ [Next]_vars => [A!F!Next]_(A!F!vars)
<1> SUFFICES ASSUME Inv, Inv', [Next]_vars PROVE [A!F!Next]_(A!F!vars)
  OBVIOUS
<1>1. CASE UpdateAlb
  <2>1. CASE A!Update
    BY <2>1 DEF A!Update, A!F!Next, A!F!BeginUpdate, A!F!vars
  <2>2. CASE A!Find
    BY <2>2, ZenonT(40) DEF A!Find, A!ReturnError, A!F!vars, A!F!Next, A!F!Attach, Inv, AlbSorts, AttachInv
  <2>3. CASE A!Register
    BY <2>3, ZenonT(40)
       DEF A!Register, A!ReturnError, A!F!vars, A!F!Next, A!F!Attach, Inv, AlbSorts, AttachInv
  <2>4. CASE A!Attached
    BY <2>4, Zenon DEF A!Attached, A!F!vars, A!F!Next, A!F!Attach, Inv, AlbSorts, AttachInv
  <2> QED
    BY <1>1, <2>1, <2>2, <2>3, <2>4, Zenon DEF UpdateAlb, A!UpdateSteps
<1>2. ASSUME NEW s \in Stoppers, StopAlb(s) PROVE [A!F!Next]_(A!F!vars)
  <2>1. CASE A!Stop
    BY <2>1 DEF A!Stop, A!updateVars, A!F!Next, A!F!BeginStop, A!F!vars
  <2>2. CASE A!Deregister
    BY <2>2, ZenonT(40)
       DEF A!Deregister, A!updateVars, A!F!Next, A!F!Detach, A!F!vars, Inv, AlbSorts, AttachInv
  <2>3. CASE A!StopReturns
    BY <2>3 DEF A!StopReturns, A!updateVars, A!F!Next, A!F!EndStop, A!F!vars, Inv, AlbSorts, AttachInv
  <2> QED
    BY <1>2, <2>1, <2>2, <2>3, Zenon DEF StopAlb
<1>3. CASE World
  <2>1. UNCHANGED <<registered, undetached, update, stop, overlap>>
    BY <1>3, Zenon DEF World, albVars, A!Create, A!updateVars
  <2> QED
    BY <2>1, Zenon DEF A!F!vars
<1>4. CASE UNCHANGED albVars
  BY <1>4, Zenon DEF albVars, A!F!vars
<1> QED
  BY <1>1, <1>2, <1>3, <1>4, AlbFrame, Zenon

-----------------------------------------------------------------------------
\* The library's theorems are about its own instances of the operators on sets.
Library == INSTANCE FiniteSetTheorems

\* The instances are the operators of FiniteSets.
LEMMA SameOperators ==
  ASSUME NEW S
  PROVE  /\ Library!IsFiniteSet(S) = IsFiniteSet(S)
         /\ Library!Cardinality(S) = Cardinality(S)
  BY DEF Library!IsFiniteSet, IsFiniteSet, Library!Cardinality, Cardinality

\* A finite set has more members than any of its proper subsets.
LEMMA FiniteSizes == Sizes
<1>1. Cardinality({}) = 0
  BY SameOperators, Library!FS_EmptySet, ZenonT(60)
<1>2. ASSUME NEW S \in SUBSET TargetGroups, Cardinality(S) = Cardinality(TargetGroups)
      PROVE  S = TargetGroups
  <2>1. Library!IsFiniteSet(TargetGroups)
    BY FeedAssumption, SameOperators, ZenonT(60)
  <2>2. Library!Cardinality(S) = Library!Cardinality(TargetGroups)
    BY <1>2, SameOperators, Zenon
  <2> QED
    BY <2>1, <2>2, Library!FS_Subset, ZenonT(60)
<1> QED
  BY <1>1, <1>2, Zenon DEF Sizes

\* The inductive invariant holds throughout.
LEMMA Invariance == Spec => []Inv
<1>1. Init => Inv
  BY InitInv, FiniteSizes, ZenonT(60)
<1>2. Inv /\ [Next]_vars => Inv'
  BY StepInv, FiniteSizes, ZenonT(60)
<1> QED
  BY <1>1, <1>2, PTL DEF Spec

-----------------------------------------------------------------------------
\* Load balancers send traffic only to a running nginx: handleUpdates updates nginx
\* first, and controller.Stop stops it last.
THEOREM TrafficAlwaysServed == Spec => []TrafficIsServed
<1>1. Inv => TrafficIsServed
  BY ZenonT(40) DEF Inv, AlbSorts, NginxSorts, HandlerInv, StopInv, AttachInv, TrafficIsServed
<1> QED
  BY Invariance, <1>1, PTL

\* os.Exit(0) is reached only with the instance deregistered and nginx ended.
THEOREM ExitIsClean == Spec => []CleanExit
<1>1. Inv => CleanExit
  BY Zenon DEF Inv, HandlerInv, StopInv, AttachInv, CleanExit, Stoppers
<1> QED
  BY Invariance, <1>1, PTL

\* readinessHandler answers 200 only for an instance that is attached and served,
\* unless Stop has begun.
THEOREM ReadinessIsServing == Spec => []ReadyMeansServing
<1>1. Inv => ReadyMeansServing
  <2> SUFFICES ASSUME Inv, Ready, ~stopCh PROVE registered = TargetGroups /\ nginx # "none"
    BY DEF ReadyMeansServing
  <2>1. nginx # "none"
    BY Zenon DEF Ready, Inv, HandlerInv
  <2>2. stop = "idle"
    BY DEF Inv, LifeInv
  <2>3. registeredFrontends = Cardinality(TargetGroups)
    BY SameCardinality, Zenon DEF Ready, A!Readiness, A!Health
  <2>4. TargetGroups \subseteq registered
    BY <2>2, <2>3, ZenonT(60) DEF Inv, AttachInv
  <2>5. registered \subseteq TargetGroups
    BY DEF Inv, AlbSorts, AttachInv
  <2> QED
    BY <2>1, <2>4, <2>5, ZenonT(60)
<1> QED
  BY Invariance, <1>1, PTL

\* The alb updater, called by handleUpdates and by controller.Stop as the program
\* does, keeps the promise of a frontend.
THEOREM RefinesFrontend == Spec => ImplementsFrontend
<1>1. Init => A!F!Init
  BY Zenon DEF Init, A!Init, A!F!Init
<1> QED
  BY Invariance, <1>1, FrontendStep, PTL
     DEF Spec, ImplementsFrontend, A!ImplementsFrontend, A!F!Spec
-----------------------------------------------------------------------------
(* The controller in the program.  Its invariant and the proof that its steps *)
(* keep it are those of ControllerProofs, for the two updaters and the one    *)
(* goroutine of handleUpdates that the program has.                           *)

CP == INSTANCE ControllerProofs WITH N <- 2, Goroutines <- {1}

\* What ControllerProofs shows of a controller holds of the one in the program,
\* whose updaters are nginx and the alb updater: alb never has a newer cluster than
\* nginx, Start and Stop are all or nothing, and at rest a controller without an
\* update error has applied the cluster it sees.
ControllerPromises ==
  C!SingleUpdater /\ C!NeverAhead /\ C!LifecyclesAgree /\ C!HealthAtRest

\* The assumptions that ControllerProofs makes.
LEMMA ControllerFits == CP!ControllerAssumption /\ CP!NoClientAssumption
<1>1. CP!ControllerAssumption
  BY FeedAssumption DEF CP!ControllerAssumption
<1>2. CP!NoClientAssumption
  BY Zenon DEF CP!NoClientAssumption, CP!NoClient, Clients
<1> QED
  BY <1>1, <1>2, ZenonT(60)

\* The two instances of Controller are one: Start and Stop,
LEMMA SameClient ==
  ASSUME NEW c \in Clients
  PROVE  /\ C!Start(c) => CP!Client(c)
         /\ C!StartUpdater(c) => CP!Client(c)
         /\ C!StartFails(c) => CP!Client(c)
         /\ C!watchForUpdates(c) => CP!Client(c)
         /\ C!Stop(c) => CP!Client(c)
         /\ C!StopUpdater(c) => CP!Client(c)
         /\ C!StopReturns(c) => CP!Client(c)
<1> USE DEF C!NoClient, CP!NoClient, C!Updaters, CP!Updaters, C!clientVars, CP!clientVars,
            C!lifeVars, CP!lifeVars, C!handlerVars, CP!handlerVars, C!clusterVars, CP!clusterVars,
            CP!Client
<1>1. C!Start(c) => CP!Client(c)
  BY Zenon DEF C!Start, CP!Start
<1>2. C!StartUpdater(c) => CP!Client(c)
  BY Zenon DEF C!StartUpdater, CP!StartUpdater
<1>3. C!StartFails(c) => CP!Client(c)
  BY Zenon DEF C!StartFails, CP!StartFails
<1>4. C!watchForUpdates(c) => CP!Client(c)
  BY Zenon DEF C!watchForUpdates, CP!watchForUpdates
<1>5. C!Stop(c) => CP!Client(c)
  BY Zenon DEF C!Stop, CP!Stop
<1>6. C!StopUpdater(c) => CP!Client(c)
  BY Zenon DEF C!StopUpdater, CP!StopUpdater
<1>7. C!StopReturns(c) => CP!Client(c)
  BY Zenon DEF C!StopReturns, CP!StopReturns
<1> QED
  BY <1>1, <1>2, <1>3, <1>4, <1>5, <1>6, <1>7, ZenonT(60)

\* and handleUpdates and the cluster.
LEMMA SameController ==
  /\ C!Receive(1) => CP!handleUpdates(1)
  /\ C!ReadCluster(1) => CP!handleUpdates(1)
  /\ C!UpdateNil(1) => CP!handleUpdates(1)
  /\ C!UpdateErr(1) => CP!UpdateErr(1)
  /\ C!SetHealth(1) => CP!handleUpdates(1)
  /\ C!HandlerStops(1) => CP!handleUpdates(1)
  /\ C!Change => CP!Change
  /\ C!Resync => CP!Resync
<1> USE DEF C!clientVars, CP!clientVars, C!lifeVars, CP!lifeVars, C!handlerVars, CP!handlerVars,
            C!clusterVars, CP!clusterVars, C!Return, CP!Return, CP!handleUpdates
<1>1. C!Receive(1) => CP!handleUpdates(1)
  BY Zenon DEF C!Receive, CP!Receive
<1>2. C!ReadCluster(1) => CP!handleUpdates(1)
  BY Zenon DEF C!ReadCluster, CP!ReadCluster, C!Fails, CP!Fails
<1>3. C!UpdateNil(1) => CP!handleUpdates(1)
  BY Zenon DEF C!UpdateNil, CP!UpdateNil, CP!Update
<1>4. C!UpdateErr(1) => CP!UpdateErr(1)
  BY Zenon DEF C!UpdateErr, CP!UpdateErr
<1>5. C!SetHealth(1) => CP!handleUpdates(1)
  BY Zenon DEF C!SetHealth, CP!SetHealth
<1>6. C!HandlerStops(1) => CP!handleUpdates(1)
  BY Zenon DEF C!HandlerStops, CP!HandlerStops
<1>7. C!Change => CP!Change
  BY Zenon DEF C!Change, CP!Change
<1>8. C!Resync => CP!Resync
  BY Zenon DEF C!Resync, CP!Resync
<1> QED
  BY <1>1, <1>2, <1>3, <1>4, <1>5, <1>6, <1>7, <1>8, ZenonT(60)

\* Every step of the program is a step of its controller, or leaves it alone.
LEMMA ProgramMoves == [Next]_vars => CP!Moves
<1> SUFFICES ASSUME [Next]_vars PROVE CP!Moves
  BY Zenon
<1>1. ASSUME UNCHANGED controllerVars PROVE CP!Moves
  BY <1>1, ZenonT(60) DEF controllerVars, CP!Moves, CP!clientVars, CP!lifeVars, CP!clusterVars
<1>2. ASSUME NEW c \in Clients, CP!Client(c) PROVE CP!Moves
  BY <1>2, ZenonT(60) DEF CP!Moves
<1>3. CP!handleUpdates(1) \/ CP!UpdateErr(1) \/ CP!Change \/ CP!Resync => CP!Moves
  BY Zenon DEF CP!Moves
<1>4. "main" \in Clients /\ \A s \in Stoppers : s \in Clients
  BY DEF Clients, Stoppers
<1>5. CASE Main
  BY <1>2, <1>4, <1>5, SameClient, Zenon
     DEF Main, CallStart, StartUpdater, StartReturns, StartFails
<1>6. CASE Handler
  BY <1>1, <1>3, <1>6, SameController, Zenon DEF Handler, Receive, Internal, UpdateNginx, UpdateAlb
<1>7. CASE Ask \/ Health \/ Readiness \/ Nginx
  BY <1>1, <1>7, Zenon DEF Ask, Health, Readiness, Nginx
<1>8. CASE World
  BY <1>1, <1>3, <1>8, SameController, Zenon DEF World
<1>9. ASSUME NEW s \in Stoppers, Wake(s) \/ NotStarted(s) \/ Exit(s) PROVE CP!Moves
  BY <1>1, <1>9, Zenon DEF Wake, NotStarted, Exit
<1>10. ASSUME NEW s \in Stoppers, CallStop(s) \/ StopReturns(s) PROVE CP!Moves
  BY <1>2, <1>4, <1>10, SameClient, Zenon DEF CallStop, StopReturns
<1>11. ASSUME NEW s \in Stoppers, StopAlb(s) \/ StopNginx(s) PROVE CP!Moves
  BY <1>1, <1>2, <1>4, <1>11, SameClient, Zenon DEF StopAlb, StopNginx
<1>12. CASE UNCHANGED vars
  BY <1>1, <1>12, ZenonT(60) DEF vars
<1> QED
  BY <1>5, <1>6, <1>7, <1>8, <1>9, <1>10, <1>11, <1>12, Zenon DEF Next, StopProgram

\* The parts of the program share the count of failures and its bound.
LEMMA SharedFailures ==
  failures \in 0..MaxFailures /\ [Next]_vars => failures' \in 0..MaxFailures
<1> SUFFICES ASSUME failures \in 0..MaxFailures, [Next]_vars PROVE failures' \in 0..MaxFailures
  BY ZenonT(60)
<1>1. A!Fails \/ C!Fails \/ UNCHANGED failures
  BY ZenonT(60)
     DEF Next, Main, CallStart, StartUpdater, StartReturns, StartFails, Handler, Receive, Internal,
         UpdateNginx, UpdateAlb, Ask, Health, Readiness, Nginx, World, Wake, StopProgram, CallStop,
         NotStarted, StopAlb, StopNginx, StopReturns, Exit, vars, C!Start, C!StartUpdater,
         C!watchForUpdates, C!StartFails, C!Stop, C!StopUpdater, C!StopReturns, C!handlerVars,
         C!Receive, C!ReadCluster, C!SetHealth, C!HandlerStops, C!UpdateNil, C!Change, C!Resync,
         A!Update, A!UpdateSteps, A!Find, A!Register, A!Attached, A!Stop, A!Deregister,
         A!StopReturns, A!Create
<1> QED
  BY <1>1, FeedAssumption DEF A!Fails, C!Fails

\* The invariant of ControllerProofs holds in the program.
LEMMA ControllerInvariance == Spec => []CP!Inv
<1>1. Init => CP!Inv
  <2>1. Init => CP!Init
    BY Zenon DEF Init, C!Init, CP!Init, C!NoClient, CP!NoClient, C!Updaters, CP!Updaters, Clients
  <2> QED
    BY <2>1, ControllerFits, CP!InitInv, ZenonT(60)
<1>2. CP!Inv /\ [Next]_vars => CP!Inv'
  <2> SUFFICES ASSUME CP!Inv, [Next]_vars PROVE CP!Inv'
    BY Zenon
  <2>1. failures' \in 0..MaxFailures
    BY SharedFailures, ZenonT(60) DEF CP!Inv, CP!TypeOK
  <2> QED
    BY <2>1, ProgramMoves, ControllerFits, CP!MovesInv, ZenonT(60)
<1> QED
  BY <1>1, <1>2, PTL DEF Spec

\* The controller keeps its promises in the program.
THEOREM ControllerInProgram == Spec => []ControllerPromises
<1>1. CP!Inv => ControllerPromises
  <2> SUFFICES ASSUME CP!Inv PROVE ControllerPromises
    OBVIOUS
  <2>1. C!SingleUpdater
    BY Zenon DEF C!SingleUpdater
  <2>2. C!NeverAhead
    BY Zenon DEF CP!Inv, CP!OrderInv, CP!NeverAhead, C!NeverAhead, CP!Updaters, C!Updaters
  <2>3. C!LifecyclesAgree
    BY Zenon DEF CP!Inv, CP!CallInv, CP!LifecyclesAgree, C!LifecyclesAgree, CP!Updaters, C!Updaters,
                 CP!NoClient, C!NoClient
  <2>4. C!HealthAtRest
    BY Zenon DEF CP!Inv, CP!FreshInv, CP!HealthAtRest, C!HealthAtRest, CP!Updaters, C!Updaters
  <2> QED
    BY <2>1, <2>2, <2>3, <2>4, ZenonT(60) DEF ControllerPromises
<1> QED
  BY ControllerInvariance, <1>1, PTL
=============================================================================
