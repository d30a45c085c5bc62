---------------------------- MODULE FeedIngress -----------------------------
(***************************************************************************)
(* The program feed-ingress as "feed-ingress alb" runs it: runCmd          *)
(* (feed-ingress/cmd/common.go) makes a controller of the nginx updater    *)
(* and the ALB updater and starts it, the goroutines of util/cmd/cmd.go    *)
(* answer probes and stop it, and handleUpdates calls its updaters.        *)
(*                                                                         *)
(* Three modules are composed, each step of theirs at its place in the     *)
(* code: Controller, with the clients main, signal and port; AlbUpdater,   *)
(* call by call; and, for nginx, the promise NginxService that             *)
(* NginxUpdater keeps.                                                     *)
(***************************************************************************)
EXTENDS Naturals, FiniteSets

CONSTANTS
  TargetGroups,  \* names of the target groups to attach to
  Missing,       \* those of them that do not exist at first
  MaxVersion,    \* bound: changes of the cluster
  MaxFailures,   \* bound: failing reads of the cluster, failing calls of AWS, crashes of nginx
  MaxStops       \* bound: goroutines that call Stop

ASSUME FeedAssumption ==
  IsFiniteSet(TargetGroups) /\ MaxVersion \in Nat /\ MaxFailures \in Nat

VARIABLES
  lock, call, at, started, watching, stopCh, updater, handler, working, read, result,
  updatesHealth, version, pending, applied,  \* Controller
  existing, registered, albARNs, done, registeredFrontends, ready, update, todo, stop,
  stopTodo, undetached, overlap,             \* AlbUpdater
  failures,                                  \* shared by both
  nginx, updating, updated, stopping, fatal, \* NginxService
  main,     \* program counter of the main goroutine
  stopper,  \* program counters of the goroutines that call Stop
  request,  \* program counter of a probe of /readiness
  exit,     \* how the program has ended
  late      \* history: handleUpdates was at work after Stop had closed stopCh

C == INSTANCE Controller WITH N <- 2, Clients <- {"main", "signal", "port"}, Goroutines <- {1}
A == INSTANCE AlbUpdater
Service == INSTANCE NginxService

\* The signal handler, and the goroutine that serves the health port.
Stoppers == {"signal", "port"}

controllerVars == <<lock, call, at, started, watching, stopCh, updater, handler, working, read,
                    result, updatesHealth, version, pending, applied>>
albVars     == <<existing, registered, albARNs, done, registeredFrontends, ready, update, todo,
                 stop, stopTodo, undetached, overlap>>
nginxVars   == <<nginx, updating, updated, stopping, fatal>>
programVars == <<main, stopper, request, exit, late>>
vars == <<controllerVars, albVars, failures, nginxVars, programVars>>

\* Mutant: the frontend comes before nginx.
FrontendFirst == <<"alb", "nginx">>

\* createIngressUpdaters: nginx, then what appendAlbIngressUpdaters adds.
Updaters == <<"nginx", "alb">>

Init ==
  /\ C!Init /\ A!Init /\ Service!Init
  /\ main = "new"
  /\ stopper = [s \in Stoppers |-> "waiting"]
  /\ request = "none" /\ exit = "no" /\ late = FALSE

Alive == exit = "no"

-----------------------------------------------------------------------------
(* The main goroutine: runCmd.                                              *)

CallStart ==
  /\ Alive /\ main = "new" /\ main' = "started"
  /\ C!Start("main")
  /\ UNCHANGED <<albVars, nginxVars, stopper, request, exit, late>>

\* alb.Start does nothing and returns nil.
StartUpdater ==
  /\ Alive /\ C!StartUpdater("main")
  /\ Updaters[at["main"]] = "alb" => call'["main"] = "starting"
  /\ UNCHANGED <<albVars, nginxVars, programVars>>

StartReturns ==
  /\ Alive /\ C!watchForUpdates("main")
  /\ UNCHANGED <<albVars, nginxVars, programVars>>

\* "Error while starting controller": log.Fatal.
StartFails ==
  /\ Alive /\ C!StartFails("main")
  /\ exit' = "fatal"
  /\ UNCHANGED <<albVars, nginxVars, main, stopper, request, late>>

Main == CallStart \/ StartUpdater \/ StartReturns \/ StartFails

-----------------------------------------------------------------------------
(* AddSignalHandler and AddHealthPort.                                      *)

\* SIGTERM or SIGINT arrives; or ListenAndServe returns.
Wake(s) ==
  /\ Alive /\ stopper[s] = "waiting"
  /\ Cardinality({t \in Stoppers : stopper[t] # "waiting"}) < MaxStops
  /\ stopper' = [stopper EXCEPT ![s] = "stop"]
  /\ UNCHANGED <<controllerVars, albVars, failures, nginxVars, main, request, exit, late>>

CallStop(s) ==
  /\ Alive /\ stopper[s] = "stop"
  /\ C!Stop(s)
  /\ stopper' = [stopper EXCEPT ![s] = "stopping"]
  /\ late' = (handler[1] \in {"reading", "updating"})
  /\ UNCHANGED <<albVars, nginxVars, main, request, exit>>

\* Mutant: the error is logged and the goroutine waits for another signal.
NotStartedWaits(s) ==
  /\ Alive /\ stopper[s] = "stop"
  /\ lock = C!NoClient /\ ~started
  /\ stopper' = [stopper EXCEPT ![s] = "waiting"]
  /\ UNCHANGED <<controllerVars, albVars, failures, nginxVars, main, request, exit, late>>

\* "cannot stop, not started": os.Exit(-1).
NotStarted(s) ==
  /\ Alive /\ stopper[s] = "stop"
  /\ lock = C!NoClient /\ ~started
  /\ exit' = "error"
  /\ UNCHANGED <<controllerVars, albVars, failures, nginxVars, main, stopper, request, late>>

\* Stop has come to updater u.
Stopping(s, u) == Alive /\ call[s] = "stopping" /\ at[s] > 0 /\ Updaters[at[s]] = u

StopAlb(s) ==
  /\ Stopping(s, "alb")
  /\ \/ (A!Stop \/ A!Deregister) /\ UNCHANGED controllerVars
     \/ A!StopReturns /\ C!StopUpdater(s)
  /\ UNCHANGED <<nginxVars, programVars>>

StopNginx(s) ==
  /\ Stopping(s, "nginx")
  /\ Service!Stop \/ Service!StopReturns
  /\ IF stopping' = "waiting"
     THEN UNCHANGED <<controllerVars, failures>>
     ELSE C!StopUpdater(s)
  /\ UNCHANGED <<albVars, programVars>>

StopReturns(s) ==
  /\ Alive /\ C!StopReturns(s)
  /\ stopper' = [stopper EXCEPT ![s] = "stopped"]
  /\ UNCHANGED <<albVars, nginxVars, main, request, exit, late>>

\* Mutant: the goroutine does not wait for Stop.
ExitAtOnce(s) ==
  /\ Alive /\ stopper[s] \in {"stopping", "stopped"}
  /\ exit' = IF s = "signal" THEN "ok" ELSE "error"
  /\ UNCHANGED <<controllerVars, albVars, failures, nginxVars, main, stopper, request, late>>

\* os.Exit(0), or os.Exit(-1) where the health port is lost.
Exit(s) ==
  /\ Alive /\ stopper[s] = "stopped"
  /\ exit' = IF s = "signal" THEN "ok" ELSE "error"
  /\ UNCHANGED <<controllerVars, albVars, failures, nginxVars, main, stopper, request, late>>

StopProgram(s) ==
  CallStop(s) \/ NotStarted(s) \/ StopAlb(s) \/ StopNginx(s) \/ StopReturns(s) \/ Exit(s)

-----------------------------------------------------------------------------
(* handleUpdates.                                                           *)

Receive ==
  /\ Alive /\ C!Receive(1)
  /\ late' = (late \/ stopCh)
  /\ UNCHANGED <<albVars, nginxVars, main, stopper, request, exit>>

Internal ==
  /\ Alive /\ (C!ReadCluster(1) \/ C!SetHealth(1) \/ C!HandlerStops(1))
  /\ UNCHANGED <<albVars, nginxVars, programVars>>

\* updateIngresses is in the Update of updater u.
Updating(u) == Alive /\ handler[1] = "updating" /\ Updaters[working[1]] = u

UpdateNginx ==
  /\ Updating("nginx")
  /\ \/ (Service!BeginUpdate \/ Service!Boot) /\ UNCHANGED <<controllerVars, failures>>
     \/ Service!UpdateSucceeds /\ C!UpdateNil(1)
     \/ Service!UpdateFails /\ C!UpdateErr(1) /\ UNCHANGED failures
  /\ UNCHANGED <<albVars, programVars>>

\* alb.Update returns nil if it leaves initialised.done set.
UpdateAlb ==
  /\ Updating("alb")
  /\ \/ (A!Update \/ A!UpdateSteps) /\ update' # "idle" /\ UNCHANGED controllerVars
     \/ (A!Update \/ A!UpdateSteps) /\ update' = "idle" /\ done' /\ C!UpdateNil(1)
     \/ A!UpdateSteps /\ update' = "idle" /\ ~done' /\ C!UpdateErr(1)
  /\ UNCHANGED <<nginxVars, programVars>>

Handler == Receive \/ Internal \/ UpdateNginx \/ UpdateAlb

-----------------------------------------------------------------------------
(* readinessHandler; healthHandler and addUnhealthyLogger do its first half. *)

Ask ==
  /\ Alive /\ request = "none"
  /\ request' = "health"
  /\ UNCHANGED <<controllerVars, albVars, failures, nginxVars, main, stopper, exit, late>>

\* controller.Health, under the lock; an error is answered at once.  nginx is
\* healthy only if an Update has succeeded.
Health ==
  /\ Alive /\ request = "health" /\ lock = C!NoClient
  /\ \/ /\ started /\ updated /\ A!Health /\ updatesHealth = "ok"
        /\ request' = "readiness"
     \/ request' = "none"
  /\ UNCHANGED <<controllerVars, albVars, failures, nginxVars, main, stopper, exit, late>>

\* The updaters' Readiness may all be nil.
Ready == updated /\ A!Readiness

\* The second half of controller.Readiness, without the lock: the answer is 200
\* only if Ready.
Readiness ==
  /\ Alive /\ request = "readiness"
  /\ request' = "none"
  /\ UNCHANGED <<controllerVars, albVars, failures, nginxVars, main, stopper, exit, late>>

-----------------------------------------------------------------------------
\* nginx by itself, and the end of the program by the nginx updater.
Nginx ==
  /\ Alive
  /\ \/ Service!Quit /\ UNCHANGED <<failures, exit>>
     \/ Service!Crash /\ A!Fails /\ UNCHANGED exit
     \/ Service!Fatal /\ exit' = "fatal" /\ UNCHANGED failures
  /\ UNCHANGED <<controllerVars, albVars, main, stopper, request, late>>

\* The cluster, the resync of the informers, and AWS.
World ==
  /\ Alive
  /\ \/ (C!Change \/ C!Resync) /\ UNCHANGED albVars
     \/ A!Create /\ UNCHANGED controllerVars
  /\ UNCHANGED <<nginxVars, programVars>>

Next ==
  \/ Main \/ Handler \/ Ask \/ Health \/ Readiness \/ Nginx \/ World
  \/ \E s \in Stoppers : Wake(s) \/ StopProgram(s)

\* Goroutines are scheduled, and nginx quits when it is told to.  Nothing has to
\* be asked, to change, to fail or to crash.
Fairness ==
  /\ WF_vars(Main) /\ WF_vars(Handler) /\ WF_vars(Health \/ Readiness)
  /\ \A s \in Stoppers : WF_vars(StopProgram(s))
  /\ WF_vars(Service!Quit /\ Nginx)

Spec == Init /\ [][Next]_vars /\ Fairness

-----------------------------------------------------------------------------
\* Traffic is sent to this instance only while nginx serves it: it is attached
\* after nginx has been started and detached before nginx is told to quit, because
\* updaters are updated first to last and stopped last to first.  The exceptions
\* are a crash of nginx, a deregistration that failed and that alb.Stop only
\* logged, and an Update that attached beside or after Stop.
TrafficIsServed ==
  ~overlap => \A tg \in registered \ undetached : nginx \in {"up", "crashed"}

\* A program that exits with 0 has left neither a registration nor nginx behind,
\* unless handleUpdates, which Stop does not wait for, was still at work, or a
\* deregistration failed.
CleanExit ==
  exit = "ok" /\ ~late => registered \subseteq undetached /\ nginx # "up"

\* /readiness answers 200 only if nginx has been started and the instance is
\* registered with every target group, or if Stop has begun since the probe was
\* asked: the second half of Readiness holds no lock.
ReadyMeansServing ==
  request = "readiness" /\ Ready /\ ~stopCh => registered = TargetGroups /\ nginx # "none"

\* A probe that waits for the mutex is answered or the program ends: neither
\* Start nor Stop keeps it for ever.
ProbesAreAnswered ==
  (request \in {"health", "readiness"}) ~> (request = "none" \/ ~Alive)

\* SIGTERM ends the program, whether it comes before, during or after Start.
SignalEndsProgram == (stopper["signal"] = "stop") ~> ~Alive

\* The ALB updater keeps the promise of a frontend when the program drives it: a
\* failed deregistration is forgotten, and nil is returned all the same.
ImplementsFrontend == A!ImplementsFrontend
=============================================================================
