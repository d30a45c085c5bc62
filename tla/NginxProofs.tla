----------------------------- MODULE NginxProofs -----------------------------
(***************************************************************************)
(* Proofs about the nginx updater, for every set of configurations and     *)
(* every number of failures.                                               *)
(***************************************************************************)
EXTENDS NginxUpdater, TLAPS

Alive == process \in {"booting", "running"}

\* Where the goroutines are, given what has been started.  nginx is started by
\* the first Update that gets so far, and only that Update runs until it sets
\* initialUpdateAttempted or finds nginx dead.
StartInv ==
  /\ update = "new" => process = "none"
  /\ initialUpdateAttempted => done
  /\ done <=> signaller # "none"
  /\ update = "request" => done
  /\ update \in {"setRunning", "sleep", "finish"} => ~done
  /\ update \in {"setRunning", "sleep", "finish"} => process # "none"
  /\ update = "setRunning" <=> (waiter = "none" /\ process # "none")
  /\ Alive /\ ~initialUpdateAttempted => update \in {"setRunning", "sleep", "finish", "request"}

\* What the steps of waitForNginxToFinish have established.
WaitInv ==
  /\ waiter \notin {"none", "waiting"} => process \in {"quit", "crashed"}
  /\ waiter = "waiting" => process # "none"
  /\ waiter \in {"none", "setErr", "close", "returned"} => ~running
  /\ waiter \in {"waiting", "reaped"} => running
  /\ waiter \in {"close", "returned"} => (lastErr = "nil" <=> process = "quit")
  /\ doneCh => waiter = "returned"

\* An invalid file is being written or checked, or its Update has failed.
FileInv == ~Valid(file) => forgotten \/ update \in {"new", "writing", "check"}

\* Somebody is still going to make nginx load its file.
OnItsWay ==
  \/ update \in {"writing", "check"}
  \/ update \in {"ensure", "request"} /\ hasChanged
  \/ hup
  \/ updateRequired /\ (signaller = "clear" => raced)

StaleInv ==
  process = "running" /\ loaded # file =>
    forgotten \/ (initialUpdateAttempted /\ OnItsWay)

\* What the callers of Update and Stop may rely on: only a started nginx is
\* signalled, and it is told to quit only by the Stop that waits for it.
ServiceInv ==
  /\ done => process # "none"
  /\ updateRequired \/ signaller \in {"sighup", "clear"} => initialUpdateAttempted
  /\ stopper \in {"sigquit", "waiting"} => waiter # "none"
  /\ quit => Alive /\ stopper = "waiting"

Inv == TypeOK /\ StartInv /\ WaitInv /\ FileInv /\ StaleInv /\ ServiceInv

-----------------------------------------------------------------------------
\* The type invariant in two halves: Zenon reasons about the flags, SMT about the
\* rest.
Flags ==
  /\ hasChanged \in BOOLEAN /\ initialUpdateAttempted \in BOOLEAN /\ done \in BOOLEAN
  /\ running \in BOOLEAN /\ updateRequired \in BOOLEAN
  /\ doneCh \in BOOLEAN /\ metricsUnhealthy \in BOOLEAN
  /\ fatal \in BOOLEAN
  /\ hup \in BOOLEAN /\ quit \in BOOLEAN
  /\ raced \in BOOLEAN /\ forgotten \in BOOLEAN

Sorts ==
  /\ file \in Files /\ target \in Files /\ loaded \in Files
  /\ update \in {"new", "idle", "diff", "writing", "check", "ensure", "setRunning",
                 "sleep", "finish", "request"}
  /\ signaller \in {"none", "select", "sighup", "clear", "returned"}
  /\ waiter \in {"none", "waiting", "reaped", "setErr", "close", "returned"}
  /\ lastErr \in Errors
  /\ metrics \in {"none", "polling", "returned"}
  /\ stopper \in {"idle", "sigquit", "waiting", "nil", "error"}
  /\ process \in {"none", "booting", "running", "quit", "crashed"}
  /\ failures \in 0..MaxFailures

\* The fields New and the first Start leave have their types.
LEMMA TypeInit == Init => TypeOK
<1> SUFFICES ASSUME Init PROVE TypeOK
  OBVIOUS
<1>1. Flags
  BY Zenon DEF Init, Flags
<1>2. Sorts
  BY NginxAssumption, SMTT(40) DEF Init, Sorts, Files, Errors
<1>3. QED
  BY <1>1, <1>2 DEF TypeOK, Flags, Sorts

\* No flag changes.
SameFlags ==
  /\ hasChanged' = hasChanged /\ initialUpdateAttempted' = initialUpdateAttempted
  /\ done' = done /\ running' = running /\ updateRequired' = updateRequired
  /\ raced' = raced /\ fatal' = fatal /\ doneCh' = doneCh
  /\ metricsUnhealthy' = metricsUnhealthy /\ hup' = hup /\ quit' = quit
  /\ forgotten' = forgotten

\* A step that leaves every flag alone keeps them all Boolean.
LEMMA FlagsKept == Flags /\ SameFlags => Flags'
  BY SMT DEF Flags, SameFlags

\* The flags stay Boolean.
LEMMA FlagsStep ==
  ASSUME Flags, [Next]_vars
  PROVE  Flags'
<1>1. CASE Start
  <2>1. SameFlags
    BY <1>1 DEF SameFlags, Start,
           updateVars, signalVars, waitVars, metricsVars, processVars
  <2> QED BY <2>1, FlagsKept
<1>2. CASE Update
  <2>1. SameFlags
    BY <1>2 DEF SameFlags, Update,
           updateVars, signalVars, waitVars, metricsVars, processVars
  <2> QED BY <2>1, FlagsKept
<1>3. CASE Diff
  <2>1. /\ initialUpdateAttempted' = initialUpdateAttempted /\ done' = done
        /\ running' = running /\ updateRequired' = updateRequired /\ raced' = raced
        /\ fatal' = fatal /\ doneCh' = doneCh /\ metricsUnhealthy' = metricsUnhealthy
        /\ hup' = hup /\ quit' = quit /\ forgotten' = forgotten
    BY <1>3 DEF Diff, updateVars, signalVars, waitVars, metricsVars, processVars
  <2>2. hasChanged' \in BOOLEAN
    BY <1>3, Zenon DEF Diff, Flags
  <2> QED BY <2>1, <2>2, SMT DEF Flags
<1>4. CASE Write
  <2>1. /\ hasChanged' = hasChanged /\ initialUpdateAttempted' = initialUpdateAttempted
        /\ done' = done /\ running' = running /\ updateRequired' = updateRequired
        /\ raced' = raced /\ fatal' = fatal /\ doneCh' = doneCh
        /\ metricsUnhealthy' = metricsUnhealthy /\ hup' = hup /\ quit' = quit
    BY <1>4 DEF Write, updateVars, signalVars, waitVars, metricsVars, processVars
  <2>2. forgotten' \in BOOLEAN
    BY <1>4, Zenon DEF Write, Flags
  <2> QED BY <2>1, <2>2, SMT DEF Flags
<1>5. CASE Check
  <2>1. /\ initialUpdateAttempted' = initialUpdateAttempted /\ done' = done
        /\ running' = running /\ updateRequired' = updateRequired /\ raced' = raced
        /\ fatal' = fatal /\ doneCh' = doneCh /\ metricsUnhealthy' = metricsUnhealthy
        /\ hup' = hup /\ quit' = quit
    BY <1>5 DEF Check, updateVars, signalVars, waitVars, metricsVars, processVars
  <2>2. hasChanged' \in BOOLEAN /\ forgotten' \in BOOLEAN
    BY <1>5, Zenon DEF Check, Flags
  <2> QED BY <2>1, <2>2, SMT DEF Flags
<1>6. CASE EnsureNginxRunning
  <2>1. SameFlags
    BY <1>6 DEF SameFlags, EnsureNginxRunning,
           updateVars, signalVars, waitVars, metricsVars, processVars
  <2> QED BY <2>1, FlagsKept
<1>7. CASE SetRunning
  <2>1. /\ hasChanged' = hasChanged /\ initialUpdateAttempted' = initialUpdateAttempted
        /\ done' = done /\ updateRequired' = updateRequired /\ raced' = raced
        /\ fatal' = fatal /\ doneCh' = doneCh /\ metricsUnhealthy' = metricsUnhealthy
        /\ hup' = hup /\ quit' = quit /\ forgotten' = forgotten
    BY <1>7 DEF SetRunning, updateVars, signalVars, waitVars, metricsVars, processVars
  <2>2. running' \in BOOLEAN
    BY <1>7, Zenon DEF SetRunning, Flags
  <2> QED BY <2>1, <2>2, SMT DEF Flags
<1>8. CASE AfterDelay
  <2>1. SameFlags
    BY <1>8 DEF SameFlags, AfterDelay,
           updateVars, signalVars, waitVars, metricsVars, processVars
  <2> QED BY <2>1, FlagsKept
<1>9. CASE FinishStart
  <2>1. /\ hasChanged' = hasChanged /\ initialUpdateAttempted' = initialUpdateAttempted
        /\ running' = running /\ updateRequired' = updateRequired /\ raced' = raced
        /\ fatal' = fatal /\ doneCh' = doneCh /\ metricsUnhealthy' = metricsUnhealthy
        /\ hup' = hup /\ quit' = quit /\ forgotten' = forgotten
    BY <1>9 DEF FinishStart, updateVars, signalVars, waitVars, metricsVars, processVars
  <2>2. done' \in BOOLEAN
    BY <1>9, Zenon DEF FinishStart, Flags
  <2> QED BY <2>1, <2>2, SMT DEF Flags
<1>10. CASE RequestReload
  <2>1. /\ hasChanged' = hasChanged /\ done' = done /\ running' = running
        /\ fatal' = fatal /\ doneCh' = doneCh /\ metricsUnhealthy' = metricsUnhealthy
        /\ hup' = hup /\ quit' = quit /\ forgotten' = forgotten
    BY <1>10 DEF RequestReload, updateVars, signalVars, waitVars, metricsVars, processVars
  <2>2. updateRequired' \in BOOLEAN /\ initialUpdateAttempted' \in BOOLEAN
    BY <1>10, Zenon DEF RequestReload, Flags
  <2>3. (signaller \in {"sighup", "clear"}) \in BOOLEAN
    OBVIOUS
  <2>4. raced' \in BOOLEAN
    BY <1>10, <2>3, Zenon DEF RequestReload, Flags
  <2> QED BY <2>1, <2>2, <2>4, Zenon DEF Flags
<1>11. CASE Tick
  <2>1. /\ hasChanged' = hasChanged /\ initialUpdateAttempted' = initialUpdateAttempted
        /\ done' = done /\ running' = running /\ updateRequired' = updateRequired
        /\ fatal' = fatal /\ doneCh' = doneCh /\ metricsUnhealthy' = metricsUnhealthy
        /\ hup' = hup /\ quit' = quit /\ forgotten' = forgotten
    BY <1>11 DEF Tick, updateVars, signalVars, waitVars, metricsVars, processVars
  <2>2. raced' \in BOOLEAN
    BY <1>11, Zenon DEF Tick, Flags
  <2> QED BY <2>1, <2>2, SMT DEF Flags
<1>12. CASE Sighup
  <2>1. /\ hasChanged' = hasChanged /\ initialUpdateAttempted' = initialUpdateAttempted
        /\ done' = done /\ running' = running /\ updateRequired' = updateRequired
        /\ raced' = raced /\ doneCh' = doneCh /\ metricsUnhealthy' = metricsUnhealthy
        /\ quit' = quit /\ forgotten' = forgotten
    BY <1>12 DEF Sighup, updateVars, signalVars, waitVars, metricsVars, processVars
  <2>2. (process \in {"booting", "running"}) \in BOOLEAN
    OBVIOUS
  <2>3. hup' \in BOOLEAN /\ fatal' \in BOOLEAN
    BY <1>12, <2>2, Zenon DEF Sighup, Flags
  <2> QED BY <2>1, <2>3, Zenon DEF Flags
<1>13. CASE ClearRequired
  <2>1. /\ hasChanged' = hasChanged /\ initialUpdateAttempted' = initialUpdateAttempted
        /\ done' = done /\ running' = running /\ fatal' = fatal /\ doneCh' = doneCh
        /\ metricsUnhealthy' = metricsUnhealthy /\ hup' = hup /\ quit' = quit
    BY <1>13 DEF ClearRequired, updateVars, signalVars, waitVars, metricsVars, processVars
  <2>2. updateRequired' \in BOOLEAN /\ forgotten' \in BOOLEAN /\ raced' \in BOOLEAN
    BY <1>13, Zenon DEF ClearRequired, Flags
  <2> QED BY <2>1, <2>2, SMT DEF Flags
<1>14. CASE SignallerReturns
  <2>1. SameFlags
    BY <1>14 DEF SameFlags, SignallerReturns,
           updateVars, signalVars, waitVars, metricsVars, processVars
  <2> QED BY <2>1, FlagsKept
<1>15. CASE WaitReturns
  <2>1. SameFlags
    BY <1>15 DEF SameFlags, WaitReturns,
           updateVars, signalVars, waitVars, metricsVars, processVars
  <2> QED BY <2>1, FlagsKept
<1>16. CASE ClearRunning
  <2>1. /\ hasChanged' = hasChanged /\ initialUpdateAttempted' = initialUpdateAttempted
        /\ done' = done /\ updateRequired' = updateRequired /\ raced' = raced
        /\ fatal' = fatal /\ doneCh' = doneCh /\ metricsUnhealthy' = metricsUnhealthy
        /\ hup' = hup /\ quit' = quit /\ forgotten' = forgotten
    BY <1>16 DEF ClearRunning, updateVars, signalVars, waitVars, metricsVars, processVars
  <2>2. running' \in BOOLEAN
    BY <1>16, Zenon DEF ClearRunning, Flags
  <2> QED BY <2>1, <2>2, SMT DEF Flags
<1>17. CASE SetLastErr
  <2>1. SameFlags
    BY <1>17 DEF SameFlags, SetLastErr,
           updateVars, signalVars, waitVars, metricsVars, processVars
  <2> QED BY <2>1, FlagsKept
<1>18. CASE CloseDoneCh
  <2>1. /\ hasChanged' = hasChanged /\ initialUpdateAttempted' = initialUpdateAttempted
        /\ done' = done /\ running' = running /\ updateRequired' = updateRequired
        /\ raced' = raced /\ fatal' = fatal /\ metricsUnhealthy' = metricsUnhealthy
        /\ hup' = hup /\ quit' = quit /\ forgotten' = forgotten
    BY <1>18 DEF CloseDoneCh, updateVars, signalVars, waitVars, metricsVars, processVars
  <2>2. doneCh' \in BOOLEAN
    BY <1>18, Zenon DEF CloseDoneCh, Flags
  <2> QED BY <2>1, <2>2, SMT DEF Flags
<1>19. CASE UpdateMetrics
  <2>1. /\ hasChanged' = hasChanged /\ initialUpdateAttempted' = initialUpdateAttempted
        /\ done' = done /\ running' = running /\ updateRequired' = updateRequired
        /\ raced' = raced /\ fatal' = fatal /\ doneCh' = doneCh /\ hup' = hup
        /\ quit' = quit /\ forgotten' = forgotten
    BY <1>19 DEF UpdateMetrics, updateVars, signalVars, waitVars, metricsVars, processVars
  <2>2. metricsUnhealthy' \in BOOLEAN
    BY <1>19, Zenon DEF UpdateMetrics, Flags
  <2> QED BY <2>1, <2>2, SMT DEF Flags
<1>20. CASE MetricsReturns
  <2>1. SameFlags
    BY <1>20 DEF SameFlags, MetricsReturns,
           updateVars, signalVars, waitVars, metricsVars, processVars
  <2> QED BY <2>1, FlagsKept
<1>21. CASE Stop
  <2>1. SameFlags
    BY <1>21 DEF SameFlags, Stop,
           updateVars, signalVars, waitVars, metricsVars, processVars
  <2> QED BY <2>1, FlagsKept
<1>22. CASE Sigquit
  <2>1. /\ hasChanged' = hasChanged /\ initialUpdateAttempted' = initialUpdateAttempted
        /\ done' = done /\ running' = running /\ updateRequired' = updateRequired
        /\ raced' = raced /\ fatal' = fatal /\ doneCh' = doneCh
        /\ metricsUnhealthy' = metricsUnhealthy /\ hup' = hup /\ forgotten' = forgotten
    BY <1>22 DEF Sigquit, updateVars, signalVars, waitVars, metricsVars, processVars
  <2>2. (process \in {"booting", "running"}) \in BOOLEAN
    OBVIOUS
  <2>3. quit' \in BOOLEAN
    BY <1>22, <2>2, ZenonT(60) DEF Sigquit, Flags
  <2> QED BY <2>1, <2>3, Zenon DEF Flags
<1>23. CASE StopReturns
  <2>1. SameFlags
    BY <1>23 DEF SameFlags, StopReturns,
           updateVars, signalVars, waitVars, metricsVars, processVars
  <2> QED BY <2>1, FlagsKept
<1>24. CASE Boot
  <2>1. /\ hasChanged' = hasChanged /\ initialUpdateAttempted' = initialUpdateAttempted
        /\ done' = done /\ running' = running /\ updateRequired' = updateRequired
        /\ raced' = raced /\ fatal' = fatal /\ doneCh' = doneCh
        /\ metricsUnhealthy' = metricsUnhealthy
    BY <1>24 DEF Boot, Exit, updateVars, signalVars, waitVars, metricsVars, processVars
  <2>2. hup' \in BOOLEAN /\ quit' \in BOOLEAN /\ forgotten' \in BOOLEAN
    BY <1>24, Zenon DEF Boot, Exit, Flags
  <2> QED BY <2>1, <2>2, SMT DEF Flags
<1>25. CASE Reload
  <2>1. /\ hasChanged' = hasChanged /\ initialUpdateAttempted' = initialUpdateAttempted
        /\ done' = done /\ running' = running /\ updateRequired' = updateRequired
        /\ raced' = raced /\ fatal' = fatal /\ doneCh' = doneCh
        /\ metricsUnhealthy' = metricsUnhealthy /\ quit' = quit
    BY <1>25 DEF Reload, updateVars, signalVars, waitVars, metricsVars, processVars
  <2>2. hup' \in BOOLEAN /\ forgotten' \in BOOLEAN
    BY <1>25, Zenon DEF Reload, Flags
  <2> QED BY <2>1, <2>2, SMT DEF Flags
<1>26. CASE Quit
  <2>1. /\ hasChanged' = hasChanged /\ initialUpdateAttempted' = initialUpdateAttempted
        /\ done' = done /\ running' = running /\ updateRequired' = updateRequired
        /\ raced' = raced /\ fatal' = fatal /\ doneCh' = doneCh
        /\ metricsUnhealthy' = metricsUnhealthy /\ forgotten' = forgotten
    BY <1>26 DEF Quit, Exit, updateVars, signalVars, waitVars, metricsVars, processVars
  <2>2. hup' \in BOOLEAN /\ quit' \in BOOLEAN
    BY <1>26, Zenon DEF Quit, Exit, Flags
  <2> QED BY <2>1, <2>2, SMT DEF Flags
<1>27. CASE Crash
  <2>1. /\ hasChanged' = hasChanged /\ initialUpdateAttempted' = initialUpdateAttempted
        /\ done' = done /\ running' = running /\ updateRequired' = updateRequired
        /\ raced' = raced /\ fatal' = fatal /\ doneCh' = doneCh
        /\ metricsUnhealthy' = metricsUnhealthy /\ forgotten' = forgotten
    BY <1>27 DEF Crash, Exit, updateVars, signalVars, waitVars, metricsVars, processVars
  <2>2. hup' \in BOOLEAN /\ quit' \in BOOLEAN
    BY <1>27, Zenon DEF Crash, Exit, Flags
  <2> QED BY <2>1, <2>2, SMT DEF Flags
<1>28. CASE UNCHANGED vars
  <2>1. SameFlags
    BY <1>28 DEF SameFlags, vars,
           updateVars, signalVars, waitVars, metricsVars, processVars
  <2> QED BY <2>1, FlagsKept
<1>29. QED
  BY <1>1, <1>2, <1>3, <1>4, <1>5, <1>6, <1>7, <1>8, <1>9, <1>10, <1>11, <1>12, <1>13,
     <1>14, <1>15, <1>16, <1>17, <1>18, <1>19, <1>20, <1>21, <1>22, <1>23, <1>24,
     <1>25, <1>26, <1>27, <1>28, ZenonT(40) DEF Next, UpdateSteps, Signaller, Waiter, Metrics,
     StopSteps, Nginx

\* The other variables keep their types.
LEMMA SortsStep ==
  ASSUME Sorts, [Next]_vars
  PROVE  Sorts'
<1> USE DEF Sorts, Errors, Files, updateVars, signalVars, waitVars, metricsVars, processVars
<1>1. CASE Start
  BY <1>1, NginxAssumption DEF Start, Valid
<1>2. CASE Update
  BY <1>2, NginxAssumption DEF Update
<1>3. CASE Diff
  BY <1>3, NginxAssumption DEF Diff, Differs, Fails
<1>4. CASE Write
  BY <1>4, NginxAssumption DEF Write, Fails
<1>5. CASE Check
  BY <1>5, NginxAssumption DEF Check, Fails, Valid
<1>6. CASE EnsureNginxRunning
  BY <1>6, NginxAssumption DEF EnsureNginxRunning, Fails
<1>7. CASE SetRunning
  BY <1>7, NginxAssumption DEF SetRunning
<1>8. CASE AfterDelay
  BY <1>8, NginxAssumption DEF AfterDelay
<1>9. CASE FinishStart
  BY <1>9, NginxAssumption DEF FinishStart
<1>10. CASE RequestReload
  BY <1>10, NginxAssumption DEF RequestReload
<1>11. CASE Tick
  BY <1>11, NginxAssumption DEF Tick
<1>12. CASE Sighup
  BY <1>12, NginxAssumption DEF Sighup
<1>13. CASE ClearRequired
  BY <1>13, NginxAssumption DEF ClearRequired
<1>14. CASE SignallerReturns
  BY <1>14, NginxAssumption DEF SignallerReturns
<1>15. CASE WaitReturns
  BY <1>15, NginxAssumption DEF WaitReturns
<1>16. CASE ClearRunning
  BY <1>16, NginxAssumption DEF ClearRunning
<1>17. CASE SetLastErr
  BY <1>17, NginxAssumption DEF SetLastErr
<1>18. CASE CloseDoneCh
  BY <1>18, NginxAssumption DEF CloseDoneCh
<1>19. CASE UpdateMetrics
  BY <1>19, NginxAssumption DEF UpdateMetrics
<1>20. CASE MetricsReturns
  BY <1>20, NginxAssumption DEF MetricsReturns
<1>21. CASE Stop
  BY <1>21, NginxAssumption DEF Stop
<1>22. CASE Sigquit
  BY <1>22, NginxAssumption DEF Sigquit
<1>23. CASE StopReturns
  BY <1>23, NginxAssumption DEF StopReturns
<1>24. CASE Boot
  BY <1>24, NginxAssumption DEF Boot, Exit, Valid
<1>25. CASE Reload
  BY <1>25, NginxAssumption DEF Reload, Valid
<1>26. CASE Quit
  BY <1>26, NginxAssumption DEF Quit, Exit
<1>27. CASE Crash
  BY <1>27, NginxAssumption DEF Crash, Fails, Exit
<1>28. CASE UNCHANGED vars
  BY <1>28, NginxAssumption DEF vars
<1> HIDE DEF Sorts, Errors, Files, updateVars, signalVars, waitVars, metricsVars, processVars
<1>29. QED
  BY <1>1, <1>2, <1>3, <1>4, <1>5, <1>6, <1>7, <1>8, <1>9, <1>10, <1>11, <1>12, <1>13,
     <1>14, <1>15, <1>16, <1>17, <1>18, <1>19, <1>20, <1>21, <1>22, <1>23, <1>24,
     <1>25, <1>26, <1>27, <1>28, ZenonT(40) DEF Next, UpdateSteps, Signaller, Waiter, Metrics,
     StopSteps, Nginx

\* Every step of feed and of nginx keeps the types; Flags and Sorts together.
LEMMA TypeStep == TypeOK /\ [Next]_vars => TypeOK'
  BY FlagsStep, SortsStep, SMTT(40) DEF TypeOK, Flags, Sorts

\* Only the Update that starts nginx moves it and its goroutines together.
LEMMA StartStep ==
  ASSUME TypeOK, StartInv, WaitInv, [Next]_vars
  PROVE  StartInv'
<1>28. CASE UNCHANGED vars
  BY <1>28 DEF vars, StartInv, Alive, updateVars, signalVars, waitVars, metricsVars, processVars
<1> USE DEF TypeOK, StartInv, WaitInv, Alive, updateVars, signalVars, waitVars, metricsVars, processVars
<1>1. CASE Start
  BY <1>1 DEF Start, Valid
<1>2. CASE Update
  BY <1>2 DEF Update
<1>3. CASE Diff
  BY <1>3 DEF Diff, Differs, Fails
<1>4. CASE Write
  BY <1>4 DEF Write, Fails
<1>5. CASE Check
  BY <1>5 DEF Check, Fails, Valid
<1>6. CASE EnsureNginxRunning
  BY <1>6 DEF EnsureNginxRunning, Fails
<1>7. CASE SetRunning
  BY <1>7 DEF SetRunning
<1>8. CASE AfterDelay
  BY <1>8 DEF AfterDelay
<1>9. CASE FinishStart
  BY <1>9 DEF FinishStart
<1>10. CASE RequestReload
  BY <1>10 DEF RequestReload
<1>11. CASE Tick
  BY <1>11 DEF Tick
<1>12. CASE Sighup
  BY <1>12 DEF Sighup
<1>13. CASE ClearRequired
  BY <1>13 DEF ClearRequired
<1>14. CASE SignallerReturns
  BY <1>14 DEF SignallerReturns
<1>15. CASE WaitReturns
  BY <1>15 DEF WaitReturns
<1>16. CASE ClearRunning
  BY <1>16 DEF ClearRunning
<1>17. CASE SetLastErr
  BY <1>17 DEF SetLastErr
<1>18. CASE CloseDoneCh
  BY <1>18 DEF CloseDoneCh
<1>19. CASE UpdateMetrics
  BY <1>19 DEF UpdateMetrics
<1>20. CASE MetricsReturns
  BY <1>20 DEF MetricsReturns
<1>21. CASE Stop
  BY <1>21 DEF Stop
<1>22. CASE Sigquit
  BY <1>22 DEF Sigquit
<1>23. CASE StopReturns
  BY <1>23 DEF StopReturns
<1>24. CASE Boot
  BY <1>24 DEF Boot, Exit, Valid
<1>25. CASE Reload
  BY <1>25 DEF Reload, Valid
<1>26. CASE Quit
  BY <1>26 DEF Quit, Exit
<1>27. CASE Crash
  BY <1>27 DEF Crash, Fails, Exit
<1> HIDE DEF TypeOK, StartInv, WaitInv, Alive, updateVars, signalVars, waitVars, metricsVars,
             processVars
<1>29. QED
  BY <1>1, <1>2, <1>3, <1>4, <1>5, <1>6, <1>7, <1>8, <1>9, <1>10, <1>11, <1>12, <1>13,
     <1>14, <1>15, <1>16, <1>17, <1>18, <1>19, <1>20, <1>21, <1>22, <1>23, <1>24,
     <1>25, <1>26, <1>27, <1>28, ZenonT(40) DEF Next, UpdateSteps, Signaller, Waiter, Metrics,
     StopSteps, Nginx

\* waitForNginxToFinish writes in the order that Health and Stop rely on.
LEMMA WaitStep ==
  ASSUME TypeOK, StartInv, WaitInv, [Next]_vars
  PROVE  WaitInv'
<1>28. CASE UNCHANGED vars
  BY <1>28 DEF vars, WaitInv, updateVars, signalVars, waitVars, metricsVars, processVars
<1> USE DEF TypeOK, StartInv, WaitInv, updateVars, signalVars, waitVars, metricsVars, processVars
<1>1. CASE Start
  BY <1>1 DEF Start, Valid
<1>2. CASE Update
  BY <1>2 DEF Update
<1>3. CASE Diff
  BY <1>3 DEF Diff, Differs, Fails
<1>4. CASE Write
  BY <1>4 DEF Write, Fails
<1>5. CASE Check
  BY <1>5 DEF Check, Fails, Valid
<1>6. CASE EnsureNginxRunning
  BY <1>6 DEF EnsureNginxRunning, Fails
<1>7. CASE SetRunning
  BY <1>7 DEF SetRunning
<1>8. CASE AfterDelay
  BY <1>8 DEF AfterDelay
<1>9. CASE FinishStart
  BY <1>9 DEF FinishStart
<1>10. CASE RequestReload
  BY <1>10 DEF RequestReload
<1>11. CASE Tick
  BY <1>11 DEF Tick
<1>12. CASE Sighup
  BY <1>12 DEF Sighup
<1>13. CASE ClearRequired
  BY <1>13 DEF ClearRequired
<1>14. CASE SignallerReturns
  BY <1>14 DEF SignallerReturns
<1>15. CASE WaitReturns
  BY <1>15 DEF WaitReturns
<1>16. CASE ClearRunning
  BY <1>16 DEF ClearRunning
<1>17. CASE SetLastErr
  BY <1>17 DEF SetLastErr
<1>18. CASE CloseDoneCh
  BY <1>18 DEF CloseDoneCh
<1>19. CASE UpdateMetrics
  BY <1>19 DEF UpdateMetrics
<1>20. CASE MetricsReturns
  BY <1>20 DEF MetricsReturns
<1>21. CASE Stop
  BY <1>21 DEF Stop
<1>22. CASE Sigquit
  BY <1>22 DEF Sigquit
<1>23. CASE StopReturns
  BY <1>23 DEF StopReturns
<1>24. CASE Boot
  BY <1>24 DEF Boot, Exit, Valid
<1>25. CASE Reload
  BY <1>25 DEF Reload, Valid
<1>26. CASE Quit
  BY <1>26 DEF Quit, Exit
<1>27. CASE Crash
  BY <1>27 DEF Crash, Fails, Exit
<1> HIDE DEF TypeOK, StartInv, WaitInv, updateVars, signalVars, waitVars, metricsVars,
             processVars
<1>29. QED
  BY <1>1, <1>2, <1>3, <1>4, <1>5, <1>6, <1>7, <1>8, <1>9, <1>10, <1>11, <1>12, <1>13,
     <1>14, <1>15, <1>16, <1>17, <1>18, <1>19, <1>20, <1>21, <1>22, <1>23, <1>24,
     <1>25, <1>26, <1>27, <1>28, ZenonT(40) DEF Next, UpdateSteps, Signaller, Waiter, Metrics,
     StopSteps, Nginx

\* A file that nginx refuses is accounted for.
LEMMA FileStep ==
  ASSUME TypeOK, StartInv, FileInv, [Next]_vars
  PROVE  FileInv'
<1>28. CASE UNCHANGED vars
  BY <1>28 DEF vars, FileInv, Valid, updateVars, signalVars, waitVars, metricsVars, processVars
<1> USE DEF TypeOK, StartInv, FileInv, Valid, updateVars, signalVars, waitVars, metricsVars, processVars
<1>1. CASE Start
  BY <1>1 DEF Start
<1>2. CASE Update
  BY <1>2 DEF Update
<1>3. CASE Diff
  BY <1>3 DEF Diff, Differs, Fails
<1>4. CASE Write
  BY <1>4 DEF Write, Fails
<1>5. CASE Check
  BY <1>5 DEF Check, Fails
<1>6. CASE EnsureNginxRunning
  BY <1>6 DEF EnsureNginxRunning, Fails
<1>7. CASE SetRunning
  BY <1>7 DEF SetRunning
<1>8. CASE AfterDelay
  BY <1>8 DEF AfterDelay
<1>9. CASE FinishStart
  BY <1>9 DEF FinishStart
<1>10. CASE RequestReload
  BY <1>10 DEF RequestReload
<1>11. CASE Tick
  BY <1>11 DEF Tick
<1>12. CASE Sighup
  BY <1>12 DEF Sighup
<1>13. CASE ClearRequired
  BY <1>13 DEF ClearRequired
<1>14. CASE SignallerReturns
  BY <1>14 DEF SignallerReturns
<1>15. CASE WaitReturns
  BY <1>15 DEF WaitReturns
<1>16. CASE ClearRunning
  BY <1>16 DEF ClearRunning
<1>17. CASE SetLastErr
  BY <1>17 DEF SetLastErr
<1>18. CASE CloseDoneCh
  BY <1>18 DEF CloseDoneCh
<1>19. CASE UpdateMetrics
  BY <1>19 DEF UpdateMetrics
<1>20. CASE MetricsReturns
  BY <1>20 DEF MetricsReturns
<1>21. CASE Stop
  BY <1>21 DEF Stop
<1>22. CASE Sigquit
  BY <1>22 DEF Sigquit
<1>23. CASE StopReturns
  BY <1>23 DEF StopReturns
<1>24. CASE Boot
  BY <1>24 DEF Boot, Exit
<1>25. CASE Reload
  BY <1>25 DEF Reload
<1>26. CASE Quit
  BY <1>26 DEF Quit, Exit
<1>27. CASE Crash
  BY <1>27 DEF Crash, Fails, Exit
<1> HIDE DEF TypeOK, StartInv, FileInv, Valid, updateVars, signalVars, waitVars, metricsVars,
             processVars
<1>29. QED
  BY <1>1, <1>2, <1>3, <1>4, <1>5, <1>6, <1>7, <1>8, <1>9, <1>10, <1>11, <1>12, <1>13,
     <1>14, <1>15, <1>16, <1>17, <1>18, <1>19, <1>20, <1>21, <1>22, <1>23, <1>24,
     <1>25, <1>26, <1>27, <1>28, ZenonT(40) DEF Next, UpdateSteps, Signaller, Waiter, Metrics,
     StopSteps, Nginx

\* A changed file keeps its reload on its way, or is forgotten in a way we name.
LEMMA StaleStep ==
  ASSUME TypeOK, StartInv, WaitInv, FileInv, StaleInv, [Next]_vars
  PROVE  StaleInv'
<1>28. CASE UNCHANGED vars
  BY <1>28 DEF vars, StaleInv, OnItsWay, updateVars, signalVars, waitVars, metricsVars, processVars
<1> USE DEF TypeOK, StartInv, WaitInv, FileInv, StaleInv, OnItsWay, Alive,
            updateVars, signalVars, waitVars, metricsVars, processVars
<1>1. CASE Start
  BY <1>1 DEF Start, Valid
<1>2. CASE Update
  BY <1>2 DEF Update
<1>3. CASE Diff
  BY <1>3 DEF Diff, Differs, Fails
<1>4. CASE Write
  BY <1>4 DEF Write, Fails
<1>5. CASE Check
  BY <1>5 DEF Check, Fails, Valid
<1>6. CASE EnsureNginxRunning
  BY <1>6, Zenon DEF EnsureNginxRunning, Fails
<1>7. CASE SetRunning
  BY <1>7, Zenon DEF SetRunning
<1>8. CASE AfterDelay
  BY <1>8 DEF AfterDelay
<1>9. CASE FinishStart
  BY <1>9 DEF FinishStart
<1>10. CASE RequestReload
  BY <1>10 DEF RequestReload
<1>11. CASE Tick
  BY <1>11 DEF Tick
<1>12. CASE Sighup
  BY <1>12, SMTT(40) DEF Sighup
<1>13. CASE ClearRequired
  BY <1>13 DEF ClearRequired
<1>14. CASE SignallerReturns
  BY <1>14 DEF SignallerReturns
<1>15. CASE WaitReturns
  BY <1>15 DEF WaitReturns
<1>16. CASE ClearRunning
  BY <1>16 DEF ClearRunning
<1>17. CASE SetLastErr
  BY <1>17 DEF SetLastErr
<1>18. CASE CloseDoneCh
  BY <1>18 DEF CloseDoneCh
<1>19. CASE UpdateMetrics
  BY <1>19 DEF UpdateMetrics
<1>20. CASE MetricsReturns
  BY <1>20 DEF MetricsReturns
<1>21. CASE Stop
  BY <1>21, Zenon DEF Stop
<1>22. CASE Sigquit
  BY <1>22 DEF Sigquit
<1>23. CASE StopReturns
  BY <1>23, Zenon DEF StopReturns
<1>24. CASE Boot
  BY <1>24 DEF Boot, Exit, Valid
<1>25. CASE Reload
  BY <1>25 DEF Reload
<1>26. CASE Quit
  BY <1>26 DEF Quit, Exit
<1>27. CASE Crash
  BY <1>27 DEF Crash, Fails, Exit
<1> HIDE DEF TypeOK, StartInv, WaitInv, FileInv, StaleInv, OnItsWay, Alive, updateVars,
             signalVars, waitVars, metricsVars, processVars
<1>29. QED
  BY <1>1, <1>2, <1>3, <1>4, <1>5, <1>6, <1>7, <1>8, <1>9, <1>10, <1>11, <1>12, <1>13,
     <1>14, <1>15, <1>16, <1>17, <1>18, <1>19, <1>20, <1>21, <1>22, <1>23, <1>24,
     <1>25, <1>26, <1>27, <1>28, ZenonT(40) DEF Next, UpdateSteps, Signaller, Waiter, Metrics,
     StopSteps, Nginx

\* The order in which nginx is started, signalled and told to quit is kept.
LEMMA ServiceStep ==
  ASSUME TypeOK, StartInv, WaitInv, ServiceInv, [Next]_vars
  PROVE  ServiceInv'
<1>28. CASE UNCHANGED vars
  BY <1>28 DEF vars, ServiceInv, Alive, updateVars, signalVars, waitVars, metricsVars, processVars
<1> USE DEF TypeOK, StartInv, WaitInv, ServiceInv, Alive, updateVars, signalVars, waitVars,
            metricsVars, processVars
<1>1. CASE Start
  BY <1>1 DEF Start, Valid
<1>2. CASE Update
  BY <1>2, Zenon DEF Update
<1>3. CASE Diff
  BY <1>3, Zenon DEF Diff, Differs, Fails
<1>4. CASE Write
  BY <1>4 DEF Write, Fails
<1>5. CASE Check
  BY <1>5 DEF Check, Fails, Valid
<1>6. CASE EnsureNginxRunning
  BY <1>6 DEF EnsureNginxRunning, Fails
<1>7. CASE SetRunning
  BY <1>7 DEF SetRunning
<1>8. CASE AfterDelay
  BY <1>8 DEF AfterDelay
<1>9. CASE FinishStart
  BY <1>9 DEF FinishStart
<1>10. CASE RequestReload
  BY <1>10 DEF RequestReload
<1>11. CASE Tick
  BY <1>11 DEF Tick
<1>12. CASE Sighup
  BY <1>12 DEF Sighup
<1>13. CASE ClearRequired
  BY <1>13, SMTT(40) DEF ClearRequired
<1>14. CASE SignallerReturns
  BY <1>14 DEF SignallerReturns
<1>15. CASE WaitReturns
  BY <1>15 DEF WaitReturns
<1>16. CASE ClearRunning
  BY <1>16 DEF ClearRunning
<1>17. CASE SetLastErr
  BY <1>17 DEF SetLastErr
<1>18. CASE CloseDoneCh
  BY <1>18 DEF CloseDoneCh
<1>19. CASE UpdateMetrics
  BY <1>19 DEF UpdateMetrics
<1>20. CASE MetricsReturns
  BY <1>20 DEF MetricsReturns
<1>21. CASE Stop
  BY <1>21, Zenon DEF Stop
<1>22. CASE Sigquit
  BY <1>22 DEF Sigquit
<1>23. CASE StopReturns
  BY <1>23 DEF StopReturns
<1>24. CASE Boot
  BY <1>24 DEF Boot, Exit, Valid
<1>25. CASE Reload
  BY <1>25 DEF Reload, Valid
<1>26. CASE Quit
  BY <1>26 DEF Quit, Exit
<1>27. CASE Crash
  BY <1>27 DEF Crash, Fails, Exit
<1> HIDE DEF TypeOK, StartInv, WaitInv, ServiceInv, Alive, updateVars, signalVars, waitVars,
             metricsVars, processVars
<1>29. QED
  BY <1>1, <1>2, <1>3, <1>4, <1>5, <1>6, <1>7, <1>8, <1>9, <1>10, <1>11, <1>12, <1>13,
     <1>14, <1>15, <1>16, <1>17, <1>18, <1>19, <1>20, <1>21, <1>22, <1>23, <1>24,
     <1>25, <1>26, <1>27, <1>28, ZenonT(40) DEF Next, UpdateSteps, Signaller, Waiter, Metrics,
     StopSteps, Nginx

\* The type of every variable of the updater.
THEOREM TypeCorrect == SafetySpec => []TypeOK
<1>1. TypeOK /\ [Next]_vars => TypeOK'
  BY TypeStep
<1>2. QED
  BY TypeInit, <1>1, PTL DEF SafetySpec

\* The inductive invariant holds before Start.
LEMMA InitInv == Init => Inv
<1> SUFFICES ASSUME Init PROVE Inv
  OBVIOUS
<1>1. TypeOK
  BY TypeInit
<1>2. StartInv /\ WaitInv /\ FileInv /\ StaleInv /\ ServiceInv
  BY DEF Init, StartInv, Alive, WaitInv, FileInv, StaleInv, ServiceInv
<1>3. QED
  BY <1>1, <1>2 DEF Inv

\* The inductive invariant holds throughout, by the preservation lemmas.
LEMMA Invariance == SafetySpec => []Inv
<1>1. Inv /\ [Next]_vars => Inv'
  BY TypeStep, StartStep, WaitStep, FileStep, StaleStep, ServiceStep DEF Inv
<1>2. QED
  BY InitInv, <1>1, PTL DEF SafetySpec

-----------------------------------------------------------------------------
\* A configuration that nginx does not work with, at rest, was lost in one of
\* the two ways that "forgotten" records (Update, backgroundSignaller).
THEOREM StaleIsForgotten == SafetySpec => []StaleOnlyIfForgotten
<1>1. Inv => StaleOnlyIfForgotten
  BY DEF Inv, TypeOK, StaleInv, OnItsWay, StaleOnlyIfForgotten, AtRest
<1>2. QED
  BY Invariance, <1>1, PTL

\* Health never reports an nginx that has been waited for (waitForNginxToFinish).
THEOREM HealthSeesDeath == SafetySpec => []DeadIsNotRunning
<1>1. Inv => DeadIsNotRunning
  BY DEF Inv, WaitInv, DeadIsNotRunning
<1>2. QED
  BY Invariance, <1>1, PTL

\* Stop that waits for nginx returns nil only if nginx has quit gracefully.
THEOREM StopIsGraceful == SafetySpec => WaitedMeansQuit
<1>1. Inv /\ [Next]_vars => [stopper = "waiting" /\ stopper' = "nil" => process = "quit"]_vars
  <2> SUFFICES ASSUME Inv, Next, stopper = "waiting", stopper' = "nil"
              PROVE  process = "quit"
    BY DEF vars
  <2>1. CASE StopReturns
    BY <2>1 DEF StopReturns, Inv, WaitInv
  <2>2. CASE ~StopReturns
    <3>1. stopper' = stopper \/ Stop \/ Sigquit
      BY <2>2, Zenon DEF Next, UpdateSteps, Signaller, Waiter, Metrics, StopSteps, Nginx, Start,
         Update, Diff, Write, Check, EnsureNginxRunning, SetRunning, AfterDelay,
         FinishStart, RequestReload, Tick, Sighup, ClearRequired, SignallerReturns,
         WaitReturns, ClearRunning, SetLastErr, CloseDoneCh, UpdateMetrics,
         MetricsReturns, Boot, Reload, Quit, Crash, Exit, updateVars, signalVars,
         waitVars, metricsVars, processVars
    <3>2. QED
      BY <3>1, SMTT(40) DEF Stop, Sigquit
  <2>3. QED
    BY <2>1, <2>2
<1>2. QED
  BY Invariance, <1>1, PTL DEF SafetySpec, WaitedMeansQuit

\* The updater (Update, Stop, the goroutines they start and the process) implements
\* the service that the composition of the program relies on: every step is a step
\* of the service or changes nothing of it.
THEOREM RefinesNginxService == Spec => ImplementsNginxService
<1>1. Init => S!Init
  BY SMTT(40) DEF Init, S!Init
<1>2. Inv /\ [Next]_vars => [S!Next]_S!vars
  <2> SUFFICES ASSUME Inv, [Next]_vars PROVE [S!Next]_S!vars
    OBVIOUS
  <2> USE DEF S!vars, updateVars, signalVars, waitVars, metricsVars, processVars
  <2>1. CASE Start
    BY <2>1 DEF Start, Valid
  <2>2. CASE Update
    BY <2>2 DEF Update, S!Next, S!BeginUpdate
  <2>3. CASE Diff
    BY <2>3 DEF Diff, Differs, Fails, S!Next, S!UpdateFails
  <2>4. CASE Write
    BY <2>4 DEF Write, Fails, S!Next, S!UpdateFails
  <2>5. CASE Check
    BY <2>5, Zenon DEF Check, Fails, Valid, S!Next, S!UpdateFails
  <2>6. CASE EnsureNginxRunning
    BY <2>6 DEF EnsureNginxRunning, Fails, S!Next, S!Boot, S!UpdateFails
  <2>7. CASE SetRunning
    BY <2>7, Zenon DEF SetRunning
  <2>8. CASE AfterDelay
    BY <2>8 DEF AfterDelay, S!Next, S!UpdateFails
  <2>9. CASE FinishStart
    BY <2>9 DEF FinishStart
  <2>10. CASE RequestReload
    BY <2>10, Zenon DEF RequestReload, S!Next, S!UpdateSucceeds,
         Inv, TypeOK, StartInv, ServiceInv
  <2>11. CASE Tick
    BY <2>11, Zenon DEF Tick
  <2>12. CASE Sighup
    BY <2>12 DEF Sighup, S!Next, S!Fatal, S!Gone,
         Inv, TypeOK, StartInv, WaitInv, ServiceInv
  <2>13. CASE ClearRequired
    BY <2>13 DEF ClearRequired
  <2>14. CASE SignallerReturns
    BY <2>14 DEF SignallerReturns
  <2>15. CASE WaitReturns
    BY <2>15 DEF WaitReturns
  <2>16. CASE ClearRunning
    BY <2>16 DEF ClearRunning
  <2>17. CASE SetLastErr
    BY <2>17 DEF SetLastErr
  <2>18. CASE CloseDoneCh
    BY <2>18 DEF CloseDoneCh
  <2>19. CASE UpdateMetrics
    BY <2>19 DEF UpdateMetrics
  <2>20. CASE MetricsReturns
    BY <2>20, Zenon DEF MetricsReturns
  <2>21. CASE Stop
    BY <2>21, Zenon DEF Stop, S!Next, S!Stop,
         Inv, TypeOK, StartInv, WaitInv, ServiceInv
  <2>22. CASE Sigquit
    BY <2>22, Zenon DEF Sigquit, S!Next, S!StopReturns, S!Gone,
         Inv, TypeOK, WaitInv, ServiceInv
  <2>23. CASE StopReturns
    BY <2>23 DEF StopReturns, S!Next, S!StopReturns, S!Gone,
         Inv, TypeOK, WaitInv, ServiceInv, Errors
  <2>24. CASE Boot
    BY <2>24 DEF Boot, Exit, Valid, S!Next, S!Crash
  <2>25. CASE Reload
    BY <2>25, Zenon DEF Reload, Valid
  <2>26. CASE Quit
    BY <2>26 DEF Quit, Exit, S!Next, S!Quit,
         Inv, ServiceInv
  <2>27. CASE Crash
    BY <2>27 DEF Crash, Fails, Exit, S!Next, S!Crash
  <2>28. CASE UNCHANGED vars
    BY <2>28 DEF vars
  <2>29. QED
    BY <2>1, <2>2, <2>3, <2>4, <2>5, <2>6, <2>7, <2>8, <2>9, <2>10, <2>11, <2>12, <2>13,
       <2>14, <2>15, <2>16, <2>17, <2>18, <2>19, <2>20, <2>21, <2>22, <2>23, <2>24,
       <2>25, <2>26, <2>27, <2>28, ZenonT(40) DEF Next, UpdateSteps, Signaller, Waiter, Metrics,
       StopSteps, Nginx
<1>3. QED
  BY Invariance, <1>1, <1>2, PTL DEF Spec, SafetySpec, ImplementsNginxService, S!Spec
=============================================================================
