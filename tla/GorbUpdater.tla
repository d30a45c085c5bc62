---------------------------- MODULE GorbUpdater ----------------------------
(***************************************************************************)
(* The Gorb updater (gorb/gorb.go): the goroutine that calls Update, the   *)
(* one that calls Stop, the Gorb server both send requests to, and the     *)
(* loopback interface of the node both configure.  Every request and every *)
(* command is a step.  The updater keeps no state: each Update looks at    *)
(* the server and the interface again, also after a restart.               *)
(*                                                                         *)
(* A request or command that fails may have taken effect.                  *)
(***************************************************************************)
EXTENDS Naturals

CONSTANTS
  NumServices,    \* len(g.backend)
  NumVips,        \* len(strings.Split(g.config.VipLoadbalancer, ","))
  ManageLoopback, \* g.config.ManageLoopback
  MaxFailures,    \* bound: requests and commands that fail
  MaxRestarts,    \* bound: restarts of feed-ingress
  MaxLosses       \* bound: backends that the Gorb server loses

ASSUME GorbAssumption ==
  /\ NumServices \in Nat \ {0} /\ NumVips \in Nat \ {0}
  /\ ManageLoopback \in BOOLEAN
  /\ MaxFailures \in Nat /\ MaxRestarts \in Nat /\ MaxLosses \in Nat

Services == 1..NumServices
Vips     == 1..NumVips
Callers  == {"Update", "Stop"}

VARIABLES
  backend,   \* Gorb server: this node's backend of each service, by its weight
  lo,        \* node: VIPs with an address on the loopback interface
  arp,       \* node: arp_ignore and arp_announce of the interface
  pc,        \* program counter of the goroutine that calls Update, Stop
  i,         \* index of its current loop
  errorArr,  \* it has an error
  result,    \* what the last call returned
  failures, restarts, losses,
  unseen,    \* history: in this call, a check failed and the caller was not told
  disturbed, \* history: since Update began, others changed what it has set up
  overlap,   \* history: Update ran beside or after Stop
  abandoned  \* history: a process ended without a Stop that returned nil after it had begun

goVars  == <<pc, i, errorArr, result, unseen>>
bounds  == <<failures, restarts, losses>>
history == <<disturbed, overlap, abandoned>>
vars == <<backend, lo, arp, goVars, bounds, history>>

All(v) == [p \in Callers |-> v]

Init ==
  /\ backend = [s \in Services |-> "absent"] /\ lo = {}
  /\ arp = [arp_ignore |-> 0, arp_announce |-> 0]
  /\ pc = All("idle") /\ i = All(1)
  /\ errorArr = All(FALSE) /\ unseen = All(FALSE) /\ result = All("none")
  /\ failures = 0 /\ restarts = 0 /\ losses = 0
  /\ disturbed = FALSE /\ overlap = FALSE /\ abandoned = FALSE

Fails == failures < MaxFailures /\ failures' = failures + 1

At(p, label)   == pc[p] = label
Goto(p, label) == pc' = [pc EXCEPT ![p] = label] /\ UNCHANGED <<i, result>>
Enter(p, label) ==
  pc' = [pc EXCEPT ![p] = label] /\ i' = [i EXCEPT ![p] = 1] /\ UNCHANGED result

\* errorArr = multierror.Append(errorArr, err)
Append(p, failed) == errorArr' = [errorArr EXCEPT ![p] = @ \/ failed]

\* return errorArr.ErrorOrNil()
Return(p, failed) ==
  /\ pc' = [pc EXCEPT ![p] = "idle"] /\ i' = [i EXCEPT ![p] = 1]
  /\ result' = [result EXCEPT ![p] = IF errorArr[p] \/ failed THEN "error" ELSE "nil"]

-----------------------------------------------------------------------------
(* The loops.  Update: the VIPs, then the backends.  Stop: the backends are *)
(* drained, then the VIPs, then the backends are removed.                   *)

\* Where manageLoopBack returns to.
AfterLoopback == [Update |-> "get", Stop |-> "delete"]

\* Mutant: the loopback is configured first, on Stop as on Update.
FirstLoopback(p) == IF ManageLoopback THEN "show" ELSE IF p = "Update" THEN "get" ELSE "patch"

First(p) == IF p = "Stop" THEN "patch" ELSE IF ManageLoopback THEN "show" ELSE "get"

Begin(p) ==
  /\ At(p, "idle")
  /\ pc' = [pc EXCEPT ![p] = First(p)] /\ i' = [i EXCEPT ![p] = 1]
  /\ errorArr' = [errorArr EXCEPT ![p] = FALSE] /\ unseen' = [unseen EXCEPT ![p] = FALSE]
  /\ result' = [result EXCEPT ![p] = "none"]
  /\ UNCHANGED <<backend, lo, arp, bounds>>

\* Mutant: once it has succeeded, Update does nothing.
UpdateOnce ==
  /\ result["Update"] # "nil" /\ Begin("Update")
  /\ disturbed' = (pc["Stop"] # "idle" \/ result["Stop"] # "none")
  /\ overlap' = (overlap \/ disturbed')
  /\ UNCHANGED abandoned

Update ==
  /\ Begin("Update")
  /\ disturbed' = (pc["Stop"] # "idle" \/ result["Stop"] # "none")
  /\ overlap' = (overlap \/ disturbed')
  /\ UNCHANGED abandoned

\* The program calls Stop once.
Stop ==
  /\ result["Stop"] = "none" /\ Begin("Stop")
  /\ disturbed' = TRUE
  /\ overlap' = (overlap \/ pc["Update"] # "idle")
  /\ UNCHANGED abandoned

-----------------------------------------------------------------------------
(* Requests.                                                                *)

\* Mutant: a backend that is there ends the loop.
GetReturns ==
  /\ At("Update", "get")
  /\ IF backend[i["Update"]] = "absent" THEN Goto("Update", "put") ELSE Return("Update", FALSE)
  /\ UNCHANGED <<backend, lo, arp, errorArr, unseen, bounds, history>>

\* backendNotFound: an error, and any answer but 404, means that it is there.
Get ==
  /\ At("Update", "get")
  /\ LET s == i["Update"]
         next == IF s = NumServices THEN Return("Update", FALSE)
                 ELSE pc' = pc /\ i' = [i EXCEPT !["Update"] = s + 1] /\ UNCHANGED result
     IN \/ /\ IF backend[s] = "absent" THEN Goto("Update", "put") ELSE next
           /\ UNCHANGED <<failures, unseen>>
        \/ Fails /\ unseen' = [unseen EXCEPT !["Update"] = TRUE] /\ next
  /\ UNCHANGED <<backend, lo, arp, errorArr, restarts, losses, history>>

\* The end of a turn of the loop over g.backend at {label}.
NextBackend(p, label, failed) ==
  LET last == i[p] = NumServices IN
  \/ ~last /\ pc' = [pc EXCEPT ![p] = label] /\ i' = [i EXCEPT ![p] = @ + 1] /\ UNCHANGED result
  \/ last /\ label = "patch" /\ Enter(p, IF ManageLoopback THEN "show" ELSE "delete")
  \/ last /\ label # "patch" /\ Return(p, failed)

\* executeRequest {method}, in the loop at {label}: the server answers 200, or
\* the request fails; one on a backend that is not there may be refused.
Request(p, method, label, value) ==
  /\ At(p, method)
  /\ LET s == i[p]
         done == [backend EXCEPT ![s] = IF method # "put" /\ @ = "absent" THEN @ ELSE value]
     IN \E failed \in BOOLEAN :
          /\ IF ~failed THEN backend' = done /\ UNCHANGED failures
             ELSE \/ Fails /\ backend' \in {backend, done}
                  \/ backend[s] = "absent" /\ method # "put" /\ UNCHANGED <<backend, failures>>
          /\ Append(p, failed) /\ NextBackend(p, label, failed)
  /\ UNCHANGED <<lo, arp, unseen, restarts, losses, history>>

\* Mutant: the error is only logged.
removeLogs ==
  /\ At("Stop", "delete")
  /\ LET s == i["Stop"]
         done == [backend EXCEPT ![s] = "absent"]
     IN \/ backend' = done /\ UNCHANGED failures
        \/ Fails /\ backend' \in {backend, done}
  /\ NextBackend("Stop", "delete", FALSE)
  /\ UNCHANGED <<lo, arp, unseen, errorArr, restarts, losses, history>>

\* Mutant: the weight is left out of the payload.
addWeightless == Request("Update", "put", "get", "zero")

addBackend == Request("Update", "put", "get", "weight")
modifyBackend == Request("Stop", "patch", "patch", "zero")
removeBackend == Request("Stop", "delete", "delete", "absent")

-----------------------------------------------------------------------------
(* manageLoopBack.                                                          *)

\* loopbackInterfaceCount runs ip in a pipe into grep -c: when ip fails, the
\* pipe succeeds with a count of 0.  When the pipe itself fails, the error is
\* appended and the count -1 equals no expected one.
Show(p) ==
  /\ At(p, "show")
  /\ \E count \in 0..1, failed \in BOOLEAN :
       LET expected == IF p = "Update" THEN 0 ELSE 1 IN
       /\ IF ~failed
          THEN /\ \/ count = (IF i[p] \in lo THEN 1 ELSE 0) /\ UNCHANGED <<failures, unseen>>
                  \/ count = 0 /\ Fails /\ unseen' = [unseen EXCEPT ![p] = TRUE]
               /\ Goto(p, IF count = expected THEN "addr" ELSE "arp_ignore")
          ELSE count = 0 /\ Fails /\ UNCHANGED unseen /\ Goto(p, "arp_ignore")
       /\ Append(p, failed)
  /\ UNCHANGED <<backend, lo, arp, restarts, losses, history>>

\* ip addr add, ip addr del: refused if the address is, or is not, there.
Addr(p) ==
  /\ At(p, "addr")
  /\ LET done == IF p = "Update" THEN lo \cup {i[p]} ELSE lo \ {i[p]}
     IN \/ done # lo /\ lo' = done /\ Append(p, FALSE) /\ UNCHANGED failures
        \/ done = lo /\ Append(p, TRUE) /\ UNCHANGED <<lo, failures>>
        \/ Fails /\ lo' \in {lo, done} /\ Append(p, TRUE)
  /\ Goto(p, "arp_ignore")
  /\ UNCHANGED <<backend, arp, unseen, restarts, losses, history>>

arpValues == [arp_ignore |-> [Update |-> 1, Stop |-> 0], arp_announce |-> [Update |-> 2, Stop |-> 0]]

\* The two files, then the next VIP.
Tee(p, file) ==
  /\ At(p, file)
  /\ LET done == [arp EXCEPT ![file] = arpValues[file][p]]
     IN \/ arp' = done /\ Append(p, FALSE) /\ UNCHANGED failures
        \/ Fails /\ arp' \in {arp, done} /\ Append(p, TRUE)
  /\ \/ file = "arp_ignore" /\ Goto(p, "arp_announce")
     \/ /\ file = "arp_announce" /\ i[p] < NumVips
        /\ pc' = [pc EXCEPT ![p] = "show"] /\ i' = [i EXCEPT ![p] = @ + 1] /\ UNCHANGED result
     \/ file = "arp_announce" /\ i[p] = NumVips /\ Enter(p, AfterLoopback[p])
  /\ UNCHANGED <<backend, lo, unseen, restarts, losses, history>>

manageLoopBack(p) == Show(p) \/ Addr(p) \/ Tee(p, "arp_ignore") \/ Tee(p, "arp_announce")

-----------------------------------------------------------------------------
\* feed-ingress ends, killed or after Stop, and is started again on its node,
\* whose interface is the host's.
Restart ==
  /\ restarts < MaxRestarts /\ restarts' = restarts + 1
  /\ pc' = All("idle") /\ i' = All(1)
  /\ errorArr' = All(FALSE) /\ unseen' = All(FALSE) /\ result' = All("none")
  /\ abandoned' = (abandoned \/ pc["Stop"] # "idle" \/ result["Stop"] = "error")
  /\ UNCHANGED <<backend, lo, arp, failures, losses, disturbed, overlap>>

\* The Gorb server loses a backend.
Lose ==
  /\ losses < MaxLosses /\ losses' = losses + 1
  /\ \E s \in Services : backend[s] # "absent" /\ backend' = [backend EXCEPT ![s] = "absent"]
  /\ disturbed' = TRUE
  /\ UNCHANGED <<lo, arp, goVars, failures, restarts, overlap, abandoned>>

UpdateSteps == Get \/ addBackend \/ manageLoopBack("Update")
StopSteps   == modifyBackend \/ removeBackend \/ manageLoopBack("Stop")

Next == Update \/ UpdateSteps \/ Stop \/ StopSteps \/ Restart \/ Lose

\* The controller calls Update again at every resync of its informers.
Fairness == WF_vars(Update) /\ WF_vars(UpdateSteps) /\ WF_vars(StopSteps)

SafetySpec == Init /\ [][Next]_vars
Spec == SafetySpec /\ Fairness

-----------------------------------------------------------------------------
Disabled == [arp_ignore |-> 1, arp_announce |-> 2]
Enabled  == [arp_ignore |-> 0, arp_announce |-> 0]

\* What an Update that returns nil has achieved, if none of its checks failed
\* silently and nobody interfered.
Updated == result["Update"] = "nil" /\ ~unseen["Update"] /\ ~disturbed

\* An Update that returns nil leaves a backend for every service and, if it
\* manages the loopback, every VIP on an interface without ARP, whatever an
\* earlier process, killed at any step, has left behind.
UpdatedMeansSetUp ==
  Updated => /\ \A s \in Services : backend[s] # "absent"
             /\ ManageLoopback => lo = Vips /\ arp = Disabled

\* A Stop that returns nil, and that no Update ran beside or after, leaves no
\* backend and, unless it missed one, no VIP, and ARP as it was.
StopCleansUp ==
  result["Stop"] = "nil" /\ ~overlap
    => /\ \A s \in Services : backend[s] = "absent"
       /\ ManageLoopback => arp = Enabled /\ (unseen["Stop"] \/ lo = {})

\* The order of Update and of Stop: while no call fails, traffic comes to this
\* node only if all VIPs are on its interface. They are added before the first
\* backend, and removed after the last has been drained.
NoBlackhole ==
  /\ ManageLoopback /\ failures = 0 /\ ~overlap
  /\ \E s \in Services : backend[s] = "weight"
  => lo = Vips

\* Update does not restore a weight.  A backend it has left with weight 0 comes
\* from a Stop that an earlier process did not live to end, or that failed: no
\* Stop that returned nil and no Update beside it leaves a drained backend.
DrainedOnlyIfAbandoned ==
  Updated /\ ~abandoned => \A s \in Services : backend[s] = "weight"

\* Update is repeated and looks again: whatever failed, was lost or killed, in
\* the end every service has its backend.
EventuallyBackends ==
  <>[](result["Stop"] = "none" /\ pc["Stop"] = "idle")
    => <>[](\A s \in Services : backend[s] # "absent")

=============================================================================
