---------------------------- MODULE NginxService ----------------------------
(***************************************************************************)
(* What the nginx updater promises to the rest of the program, without its *)
(* goroutines, files and signals: nginx is started by an Update, and has   *)
(* been started when an Update has succeeded; it quits only when Stop asks *)
(* it to; a Stop that returns leaves no nginx behind unless an Update was  *)
(* just starting one; and the program is ended only after nginx is gone.   *)
(***************************************************************************)
VARIABLES
  nginx,    \* the process: none yet, up, or how it ended
  updating, \* an Update is running
  updated,  \* an Update has succeeded
  stopping, \* no Stop yet, one that waits, or its result
  fatal     \* log.Fatalf has ended the program

vars == <<nginx, updating, updated, stopping, fatal>>

Gone == nginx \in {"quit", "crashed"}

Init ==
  /\ nginx = "none" /\ updating = FALSE /\ updated = FALSE
  /\ stopping = "idle" /\ fatal = FALSE

BeginUpdate ==
  /\ ~fatal /\ ~updating /\ updating' = TRUE
  /\ UNCHANGED <<nginx, updated, stopping, fatal>>

Boot ==
  /\ ~fatal /\ updating
  /\ nginx = "none" /\ nginx' = "up"
  /\ UNCHANGED <<updating, updated, stopping, fatal>>

UpdateSucceeds ==
  /\ ~fatal /\ updating /\ nginx # "none"
  /\ updating' = FALSE /\ updated' = TRUE
  /\ UNCHANGED <<nginx, stopping, fatal>>

UpdateFails ==
  /\ ~fatal /\ updating
  /\ updating' = FALSE
  /\ UNCHANGED <<nginx, updated, stopping, fatal>>

\* A Stop that finds nginx running waits; any other returns nil at once.
Stop ==
  /\ ~fatal /\ stopping = "idle"
  /\ \/ nginx # "none" /\ stopping' = "waiting"
     \/ (nginx = "up" => updating) /\ stopping' = "nil"
  /\ UNCHANGED <<nginx, updating, updated, fatal>>

StopReturns ==
  /\ ~fatal /\ stopping = "waiting" /\ Gone
  /\ \/ nginx = "quit" /\ stopping' = "nil"
     \/ stopping' = "error"
  /\ UNCHANGED <<nginx, updating, updated, fatal>>

Quit ==
  /\ nginx = "up" /\ stopping = "waiting"
  /\ nginx' = "quit"
  /\ UNCHANGED <<updating, updated, stopping, fatal>>

Crash ==
  /\ nginx = "up" /\ nginx' = "crashed"
  /\ UNCHANGED <<updating, updated, stopping, fatal>>

\* A reload is due and nginx cannot be signalled any more.
Fatal ==
  /\ ~fatal /\ updated /\ Gone
  /\ fatal' = TRUE
  /\ UNCHANGED <<nginx, updating, updated, stopping>>

Next ==
  \/ BeginUpdate \/ Boot \/ UpdateSucceeds \/ UpdateFails
  \/ Stop \/ StopReturns \/ Quit \/ Crash \/ Fatal

Spec == Init /\ [][Next]_vars
=============================================================================
