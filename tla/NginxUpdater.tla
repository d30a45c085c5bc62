---------------------------- MODULE NginxUpdater ----------------------------
(***************************************************************************)
(* The nginx updater (nginx/nginx.go): the goroutine that calls Update, the *)
(* one that calls Stop, the goroutines backgroundSignaller,                *)
(* waitForNginxToFinish and periodicallyUpdateMetrics, and the nginx       *)
(* process they drive through its configuration file and signals.          *)
(*                                                                         *)
(* A configuration stands for the text that createConfig makes of a list   *)
(* of entries.  Update is called by one goroutine, which module Controller *)
(* proves of its caller.                                                   *)
(***************************************************************************)
EXTENDS Naturals

CONSTANTS
  Configs,       \* what createConfig may return for entries
  Bad,           \* those that nginx refuses
  MaxFailures    \* bound: failures of commands and of file system calls

ASSUME NginxAssumption ==
  /\ Bad \subseteq Configs
  /\ MaxFailures \in Nat

\* Contents of nginx.conf: none yet, the one without entries that Start
\* writes, one cut short (while WriteFile works, or because it failed).
NoFile  == "no file"
Empty   == "empty"
Partial == "partial"

ASSUME FilesAssumption == Configs \cap {NoFile, Empty, Partial} = {}

Files == Configs \cup {NoFile, Empty, Partial}

Valid(f) == f \in Configs \ Bad \/ f = Empty

VARIABLES
  file,           \* nginx.conf
  target,         \* Update: the configuration made of its entries
  update,         \* program counter of the goroutine that calls Update
  hasChanged,     \* Update: result of updateNginxConf
  initialUpdateAttempted,
  done,           \* nginxStarted.done
  running,        \* n.running
  updateRequired, \* n.updateRequired
  signaller,      \* program counter of backgroundSignaller
  waiter,         \* program counter of waitForNginxToFinish
  lastErr,        \* n.lastErr
  doneCh,         \* n.doneCh is closed
  metrics,        \* program counter of periodicallyUpdateMetrics
  metricsUnhealthy,
  stopper,        \* program counter of the goroutine that calls Stop
  fatal,          \* log.Fatalf has ended the program
  process,        \* the nginx process
  loaded,         \* the configuration nginx works with
  hup, quit,      \* signals sent to nginx and not yet handled
  failures,       \* failures so far (bounded by MaxFailures)
  raced,          \* history: a reload was requested after the signaller's Get
  forgotten       \* history: the file changed and nobody will ask for a reload

updateVars  == <<target, update, hasChanged, initialUpdateAttempted, done>>
signalVars  == <<updateRequired, signaller, raced, fatal>>
waitVars    == <<waiter, lastErr, doneCh>>
metricsVars == <<metrics, metricsUnhealthy>>
processVars == <<process, loaded, hup, quit>>
vars == <<file, updateVars, running, signalVars, waitVars, metricsVars, stopper,
          processVars, failures, forgotten>>

Errors == {"nil", "error"}

TypeOK ==
  /\ file \in Files /\ target \in Files /\ loaded \in Files
  /\ update \in {"new", "idle", "diff", "writing", "check", "ensure", "setRunning",
                 "sleep", "finish", "request"}
  /\ hasChanged \in BOOLEAN /\ initialUpdateAttempted \in BOOLEAN /\ done \in BOOLEAN
  /\ running \in BOOLEAN /\ updateRequired \in BOOLEAN
  /\ signaller \in {"none", "select", "sighup", "clear", "returned"}
  /\ waiter \in {"none", "waiting", "reaped", "setErr", "close", "returned"}
  /\ lastErr \in Errors /\ doneCh \in BOOLEAN
  /\ metrics \in {"none", "polling", "returned"} /\ metricsUnhealthy \in BOOLEAN
  /\ stopper \in {"idle", "sigquit", "waiting", "nil", "error"}
  /\ fatal \in BOOLEAN
  /\ process \in {"none", "booting", "running", "quit", "crashed"}
  /\ hup \in BOOLEAN /\ quit \in BOOLEAN
  /\ failures \in 0..MaxFailures
  /\ raced \in BOOLEAN /\ forgotten \in BOOLEAN

Init ==
  /\ file = NoFile /\ target = NoFile /\ loaded = NoFile
  /\ update = "new"
  /\ hasChanged = FALSE /\ initialUpdateAttempted = FALSE /\ done = FALSE
  /\ running = FALSE /\ updateRequired = FALSE
  /\ signaller = "none" /\ waiter = "none" /\ metrics = "none"
  /\ lastErr = "nil" /\ doneCh = FALSE
  /\ metricsUnhealthy = FALSE
  /\ stopper = "idle"
  /\ fatal = FALSE
  /\ process = "none"
  /\ hup = FALSE /\ quit = FALSE
  /\ failures = 0
  /\ raced = FALSE /\ forgotten = FALSE

Fails == failures < MaxFailures /\ failures' = failures + 1

-----------------------------------------------------------------------------
(* Start and Update.                                                        *)

\* nginx -v; the old file is removed and one without entries is written.
Start ==
  /\ ~fatal /\ update = "new"
  /\ file' = Empty
  /\ update' = "idle"
  /\ UNCHANGED <<target, hasChanged, initialUpdateAttempted, done, running, signalVars,
                 waitVars, metricsVars, stopper, processVars, failures, forgotten>>

\* Update with at least one entry; 0 entries are refused at once.
Update ==
  /\ ~fatal /\ update = "idle"
  /\ \E c \in Configs : target' = c
  /\ update' = "diff"
  /\ UNCHANGED <<file, hasChanged, initialUpdateAttempted, done, running, signalVars,
                 waitVars, metricsVars, stopper, processVars, failures, forgotten>>

\* diff has an output.
Differs(existing, updated) == existing # updated

\* diffAndUpdate: "Configuration has not changed", or WriteFile truncates the
\* file; createConfig or diff may fail before that.
Diff ==
  /\ ~fatal /\ update = "diff"
  /\ \/ /\ ~Differs(file, target)
        /\ hasChanged' = FALSE /\ update' = "ensure"
        /\ UNCHANGED <<file, failures>>
     \/ /\ Differs(file, target)
        /\ file' = Partial /\ update' = "writing"
        /\ UNCHANGED <<hasChanged, failures>>
     \/ /\ Fails /\ update' = "idle"
        /\ UNCHANGED <<file, hasChanged>>
  /\ UNCHANGED <<target, initialUpdateAttempted, done, running, signalVars, waitVars,
                 metricsVars, stopper, processVars, forgotten>>

\* WriteFile ends; if it fails Update returns the error.
Write ==
  /\ ~fatal /\ update = "writing"
  /\ \/ file' = target /\ update' = "check" /\ UNCHANGED <<failures, forgotten>>
     \/ Fails /\ update' = "idle" /\ forgotten' = TRUE /\ UNCHANGED file
  /\ UNCHANGED <<target, hasChanged, initialUpdateAttempted, done, running, signalVars,
                 waitVars, metricsVars, stopper, processVars>>

\* checkNginxConfig, "nginx -t", after the file has been replaced; when it
\* fails Update returns the error and the file stays.
Check ==
  /\ ~fatal /\ update = "check"
  /\ \/ Valid(file) /\ hasChanged' = TRUE /\ update' = "ensure" /\ UNCHANGED <<failures, forgotten>>
     \/ /\ ~Valid(file)
        /\ update' = "idle" /\ forgotten' = TRUE /\ UNCHANGED <<hasChanged, failures>>
     \/ Fails /\ update' = "idle" /\ forgotten' = TRUE /\ UNCHANGED hasChanged
  /\ UNCHANGED <<file, target, initialUpdateAttempted, done, running, signalVars,
                 waitVars, metricsVars, stopper, processVars>>

\* ensureNginxRunning: started already, or nginx.Start(), which fails for ever
\* once it has succeeded (exec.Cmd runs once).
EnsureNginxRunning ==
  /\ ~fatal /\ update = "ensure"
  /\ \/ done /\ update' = "request" /\ UNCHANGED <<process, failures>>
     \/ /\ ~done /\ process = "none"
        /\ process' = "booting" /\ update' = "setRunning"
        /\ UNCHANGED failures
     \/ ~done /\ process # "none" /\ update' = "idle" /\ UNCHANGED <<process, failures>>
     \/ ~done /\ process = "none" /\ Fails /\ update' = "idle" /\ UNCHANGED process
  /\ UNCHANGED <<file, target, hasChanged, initialUpdateAttempted, done, running, signalVars,
                 waitVars, metricsVars, stopper, loaded, hup, quit, forgotten>>

\* running.Set(true), go waitForNginxToFinish().
SetRunning ==
  /\ ~fatal /\ update = "setRunning"
  /\ running' = TRUE
  /\ waiter' = "waiting"
  /\ update' = "sleep"
  /\ UNCHANGED <<file, target, hasChanged, initialUpdateAttempted, done, signalVars, lastErr,
                 doneCh, metricsVars, stopper, processVars, failures, forgotten>>

\* After nginxStartDelay: "nginx died shortly after starting", or go on.
AfterDelay ==
  /\ ~fatal /\ update = "sleep"
  /\ update' = IF running THEN "finish" ELSE "idle"
  /\ UNCHANGED <<file, target, hasChanged, initialUpdateAttempted, done, running, signalVars,
                 waitVars, metricsVars, stopper, processVars, failures, forgotten>>

FinishStart ==
  /\ ~fatal /\ update = "finish"
  /\ metrics' = "polling"
  /\ signaller' = "select"
  /\ done' = TRUE
  /\ update' = "request"
  /\ UNCHANGED <<file, target, hasChanged, initialUpdateAttempted, running, updateRequired,
                 raced, fatal, waitVars, metricsUnhealthy, stopper, processVars, failures,
                 forgotten>>

\* Mutant: no reload is requested while the signaller is sending one.
RequestReloadUnlessSending ==
  /\ ~fatal /\ update = "request"
  /\ IF initialUpdateAttempted /\ hasChanged /\ signaller = "select"
     THEN updateRequired' = TRUE
     ELSE UNCHANGED updateRequired
  /\ initialUpdateAttempted' = TRUE
  /\ update' = "idle"
  /\ UNCHANGED <<file, target, hasChanged, done, running, signaller, raced, fatal, waitVars,
                 metricsVars, stopper, processVars, failures, forgotten>>

\* The end of Update: signalRequired, if this is not the first update and the
\* configuration has changed; initialUpdateAttempted.Set(true).
RequestReload ==
  /\ ~fatal /\ update = "request"
  /\ IF initialUpdateAttempted /\ hasChanged
     THEN /\ updateRequired' = TRUE
          /\ raced' = (signaller \in {"sighup", "clear"})
     ELSE UNCHANGED <<updateRequired, raced>>
  /\ initialUpdateAttempted' = TRUE
  /\ update' = "idle"
  /\ UNCHANGED <<file, target, hasChanged, done, running, signaller, fatal, waitVars,
                 metricsVars, stopper, processVars, failures, forgotten>>

-----------------------------------------------------------------------------
(* backgroundSignaller.                                                     *)

\* A tick of the throttle: signalIfRequired reads updateRequired.
Tick ==
  /\ ~fatal /\ signaller = "select" /\ updateRequired
  /\ signaller' = "sighup"
  /\ raced' = FALSE
  /\ UNCHANGED <<file, updateVars, running, updateRequired, fatal, waitVars, metricsVars,
                 stopper, processVars, failures, forgotten>>

\* sighup fails once the process has been waited for: log.Fatalf.
Sighup ==
  /\ ~fatal /\ signaller = "sighup"
  /\ IF waiter = "waiting"
     THEN /\ hup' = (process \in {"booting", "running"})
          /\ signaller' = "clear"
          /\ UNCHANGED fatal
     ELSE fatal' = TRUE /\ UNCHANGED <<hup, signaller>>
  /\ UNCHANGED <<file, updateVars, running, updateRequired, raced, waitVars, metricsVars,
                 stopper, process, loaded, quit, failures, forgotten>>

\* updateRequired.Set(false), whatever was requested since it was read.
ClearRequired ==
  /\ ~fatal /\ signaller = "clear"
  /\ updateRequired' = FALSE
  /\ forgotten' = (forgotten \/ raced)
  /\ raced' = FALSE
  /\ signaller' = "select"
  /\ UNCHANGED <<file, updateVars, running, fatal, waitVars, metricsVars, stopper,
                 processVars, failures>>

SignallerReturns ==
  /\ ~fatal /\ signaller = "select" /\ doneCh
  /\ signaller' = "returned"
  /\ UNCHANGED <<file, updateVars, running, updateRequired, raced, fatal, waitVars,
                 metricsVars, stopper, processVars, failures, forgotten>>

-----------------------------------------------------------------------------
(* waitForNginxToFinish, one shared write at a time.                        *)

WaitReturns ==
  /\ ~fatal /\ waiter = "waiting" /\ process \in {"quit", "crashed"}
  /\ waiter' = "reaped"
  /\ UNCHANGED <<file, updateVars, running, signalVars, lastErr, doneCh, metricsVars,
                 stopper, processVars, failures, forgotten>>

\* Mutant: doneCh is closed before lastErr is set.
ClearRunningAndClose ==
  /\ ~fatal /\ waiter = "reaped"
  /\ running' = FALSE
  /\ doneCh' = TRUE
  /\ waiter' = "setErr"
  /\ UNCHANGED <<file, updateVars, signalVars, lastErr, metricsVars, stopper,
                 processVars, failures, forgotten>>

ClearRunning ==
  /\ ~fatal /\ waiter = "reaped"
  /\ running' = FALSE
  /\ waiter' = "setErr"
  /\ UNCHANGED <<file, updateVars, signalVars, lastErr, doneCh, metricsVars, stopper,
                 processVars, failures, forgotten>>

SetLastErr ==
  /\ ~fatal /\ waiter = "setErr"
  /\ lastErr' = IF process = "crashed" THEN "error" ELSE "nil"
  /\ waiter' = "close"
  /\ UNCHANGED <<file, updateVars, running, signalVars, doneCh, metricsVars, stopper,
                 processVars, failures, forgotten>>

\* Mutant: waitForNginxToFinish returns on an error before it closes doneCh.
CloseDoneChIfNil ==
  /\ ~fatal /\ waiter = "close"
  /\ doneCh' = (lastErr = "nil")
  /\ waiter' = "returned"
  /\ UNCHANGED <<file, updateVars, running, signalVars, lastErr, metricsVars, stopper,
                 processVars, failures, forgotten>>

CloseDoneCh ==
  /\ ~fatal /\ waiter = "close"
  /\ doneCh' = TRUE
  /\ waiter' = "returned"
  /\ UNCHANGED <<file, updateVars, running, signalVars, lastErr, metricsVars, stopper,
                 processVars, failures, forgotten>>

-----------------------------------------------------------------------------
(* periodicallyUpdateMetrics.                                               *)

UpdateMetrics ==
  /\ ~fatal /\ metrics = "polling"
  /\ metricsUnhealthy' \in BOOLEAN
  /\ UNCHANGED <<file, updateVars, running, signalVars, waitVars, metrics, stopper,
                 processVars, failures, forgotten>>

\* Mutant: the goroutine returns after a clean shutdown only.
MetricsReturnsIfNil ==
  /\ ~fatal /\ metrics = "polling" /\ doneCh /\ lastErr = "nil"
  /\ metrics' = "returned"
  /\ UNCHANGED <<file, updateVars, running, signalVars, waitVars, metricsUnhealthy, stopper,
                 processVars, failures, forgotten>>

MetricsReturns ==
  /\ ~fatal /\ metrics = "polling" /\ doneCh
  /\ metrics' = "returned"
  /\ UNCHANGED <<file, updateVars, running, signalVars, waitVars, metricsUnhealthy, stopper,
                 processVars, failures, forgotten>>

-----------------------------------------------------------------------------
(* Stop.                                                                    *)

Stop ==
  /\ ~fatal /\ stopper = "idle" /\ update # "new"
  /\ stopper' = IF running THEN "sigquit" ELSE "nil"
  /\ UNCHANGED <<file, updateVars, running, signalVars, waitVars, metricsVars, processVars,
                 failures, forgotten>>

\* "error shutting down nginx" once the process has been waited for.
Sigquit ==
  /\ ~fatal /\ stopper = "sigquit"
  /\ IF waiter = "waiting"
     THEN /\ quit' = (process \in {"booting", "running"})
          /\ stopper' = "waiting"
     ELSE stopper' = "error" /\ UNCHANGED quit
  /\ UNCHANGED <<file, updateVars, running, signalVars, waitVars, metricsVars, process, loaded,
                 hup, failures, forgotten>>

StopReturns ==
  /\ ~fatal /\ stopper = "waiting" /\ doneCh
  /\ stopper' = lastErr
  /\ UNCHANGED <<file, updateVars, running, signalVars, waitVars, metricsVars, processVars,
                 failures, forgotten>>

-----------------------------------------------------------------------------
(* The nginx process (external).                                            *)

Exit(how) == process' = how /\ hup' = FALSE /\ quit' = FALSE /\ UNCHANGED loaded

\* nginx reads its file when it starts, and exits if it is invalid.
Boot ==
  /\ process = "booting"
  /\ IF Valid(file)
     THEN /\ process' = "running" /\ loaded' = file /\ forgotten' = FALSE
          /\ UNCHANGED <<hup, quit>>
     ELSE Exit("crashed") /\ UNCHANGED forgotten
  /\ UNCHANGED <<file, updateVars, running, signalVars, waitVars, metricsVars, stopper, failures>>

\* A reload reads the file again; an invalid one leaves nginx as it was.
Reload ==
  /\ process = "running" /\ hup
  /\ hup' = FALSE
  /\ IF Valid(file)
     THEN loaded' = file /\ forgotten' = FALSE
     ELSE UNCHANGED <<loaded, forgotten>>
  /\ UNCHANGED <<file, updateVars, running, signalVars, waitVars, metricsVars, stopper,
                 process, quit, failures>>

Quit ==
  /\ process = "running" /\ quit
  /\ Exit("quit")
  /\ UNCHANGED <<file, updateVars, running, signalVars, waitVars, metricsVars, stopper,
                 failures, forgotten>>

\* nginx is killed, or crashes.
Crash ==
  /\ process \in {"booting", "running"}
  /\ Fails
  /\ Exit("crashed")
  /\ UNCHANGED <<file, updateVars, running, signalVars, waitVars, metricsVars, stopper, forgotten>>

-----------------------------------------------------------------------------
UpdateSteps ==
  \/ Diff \/ Write \/ Check \/ EnsureNginxRunning \/ SetRunning \/ AfterDelay
  \/ FinishStart \/ RequestReload

Signaller == Tick \/ Sighup \/ ClearRequired \/ SignallerReturns

Waiter == WaitReturns \/ ClearRunning \/ SetLastErr \/ CloseDoneCh

Metrics == UpdateMetrics \/ MetricsReturns

StopSteps == Sigquit \/ StopReturns

Nginx == Boot \/ Reload \/ Quit

Next ==
  \/ Start \/ Update \/ UpdateSteps \/ Signaller \/ Waiter \/ Metrics
  \/ Stop \/ StopSteps \/ Nginx \/ Crash

\* Goroutines are scheduled, tickers tick, nginx starts, reloads and quits when
\* it is told to.  A select whose doneCh is closed does not prefer its ticker
\* for ever, so the returns of the two tickers' loops are strongly fair.  Calls
\* of Update and Stop, and crashes, need not happen.
Fairness ==
  /\ WF_vars(UpdateSteps) /\ WF_vars(Signaller) /\ WF_vars(Waiter) /\ WF_vars(StopSteps)
  /\ WF_vars(Boot) /\ WF_vars(Reload) /\ WF_vars(Quit)
  /\ SF_vars(SignallerReturns) /\ SF_vars(MetricsReturns)

SafetySpec == Init /\ [][Next]_vars
Spec == SafetySpec /\ Fairness

-----------------------------------------------------------------------------
\* Health and Readiness answer nil.
Health == running /\ initialUpdateAttempted /\ ~metricsUnhealthy

\* Nothing is on its way that would make nginx load its file.
AtRest ==
  /\ process = "running" /\ update = "idle" /\ signaller = "select"
  /\ ~updateRequired /\ ~hup

\* nginx is left with an old configuration only in two ways: an Update that
\* replaced the file and then returned an error, or a reload that was requested
\* between the signaller's read and its reset of updateRequired.  In every other
\* interleaving of Update, backgroundSignaller and nginx's reloads a changed file
\* is loaded or its reload is still on its way.
StaleOnlyIfForgotten == AtRest /\ loaded # file => forgotten

\* n.running tells the truth once waitForNginxToFinish has returned: Health never
\* reports a process that is gone, although the goroutine that started nginx set
\* the flag without a lock.
DeadIsNotRunning == waiter = "returned" => ~running /\ process \in {"quit", "crashed"}

\* Stop that waited for nginx and returns nil has stopped it gracefully
\* (TestStopWaitsForGracefulShutdownOfNginx): lastErr and doneCh are written in
\* the order that Stop relies on.
WaitedMeansQuit ==
  [][stopper = "waiting" /\ stopper' = "nil" => process = "quit"]_vars

\* The updater keeps the promise that the composition of the program relies on:
\* who may start and end nginx, what an Update and a Stop that return have achieved,
\* and that log.Fatalf is reached only after nginx has ended.
S == INSTANCE NginxService WITH
       nginx <- IF process \in {"booting", "running"} THEN "up" ELSE process,
       updating <- update \notin {"new", "idle"},
       updated <- initialUpdateAttempted,
       stopping <- IF stopper = "sigquit" THEN "waiting" ELSE stopper

ImplementsNginxService == S!Spec

\* The call of Stop returns: doneCh is closed whatever way nginx ends.
StopEventuallyReturns ==
  (stopper = "sigquit") ~> (stopper \in {"nil", "error"} \/ fatal)

\* When nginx has ended Health comes to say so, also if it ended while Update
\* was starting it, and the goroutines that serve it have returned or never start.
DeathIsNoticed ==
  (process \in {"quit", "crashed"}) ~>
     \/ fatal
     \/ /\ ~Health /\ update \notin {"setRunning", "sleep", "finish"}
        /\ signaller \in {"none", "returned"} /\ metrics \in {"none", "returned"}

\* "If Nginx is already running and there are changes then reload the config":
\* at rest nginx works with the file that the last Update wrote.
LoadedAtRest == AtRest => loaded = file
=============================================================================
