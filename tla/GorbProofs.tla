---------------------------- MODULE GorbProofs ----------------------------
(***************************************************************************)
(* Proofs about GorbUpdater, for every number of services and VIPs and     *)
(* every bound on failures, restarts and losses.                           *)
(***************************************************************************)
EXTENDS GorbUpdater, TLAPS

-----------------------------------------------------------------------------
(* Gorb.  The state of one call: where it is in which loop.                *)

Loopback == {"show", "addr", "arp_ignore", "arp_announce"}
Files    == {"arp_ignore", "arp_announce"}
Labels   == {"idle", "get", "put", "patch", "delete"} \cup Loopback
Requests(p) == IF p = "Update" THEN {"get", "put"} ELSE {"patch", "delete"}

Sorts ==
  /\ backend \in [Services -> {"absent", "zero", "weight"}]
  /\ lo \in SUBSET Vips
  /\ arp \in [arp_ignore : Nat, arp_announce : Nat]
  /\ pc \in [Callers -> Labels]
  /\ i \in [Callers -> Nat]
  /\ result \in [Callers -> {"none", "nil", "error"}]
  /\ failures \in 0..MaxFailures /\ restarts \in 0..MaxRestarts /\ losses \in 0..MaxLosses

Flags ==
  /\ errorArr \in [Callers -> BOOLEAN] /\ unseen \in [Callers -> BOOLEAN]
  /\ disturbed \in BOOLEAN /\ overlap \in BOOLEAN /\ abandoned \in BOOLEAN

\* A request is about a service, a command about a VIP.
InLoop(p) ==
  \/ pc[p] = "idle"
  \/ pc[p] \in Requests(p) /\ i[p] \in Services
  \/ pc[p] \in Loopback /\ i[p] \in Vips /\ ManageLoopback

GorbTypeOK == Sorts /\ Flags /\ \A p \in Callers : InLoop(p)

Running(p) == pc[p] # "idle"
Called(p)  == Running(p) \/ result[p] # "none"

\* Who is called when.  Stop is called once, and disturbs.
CallInv ==
  /\ \A p \in Callers : Running(p) => result[p] = "none"
  /\ ~disturbed => ~Called("Stop")
  /\ ~overlap /\ Called("Stop") => ~Running("Update")

\* The VIP has been added or removed; the file has been written.
AddressDone(p, v) ==
  \/ pc[p] \in {"show", "addr"} /\ v < i[p]
  \/ pc[p] \in Files /\ v <= i[p]
  \/ pc[p] \in {"get", "put", "delete"}

FileDone(p, f) ==
  \/ pc[p] \in Loopback /\ i[p] > 1
  \/ pc[p] = "arp_announce" /\ f = "arp_ignore"
  \/ pc[p] \in {"get", "put", "delete"}

\* What an Update has set up so far, unless it has noted an error.
UpdateInv ==
  ~errorArr["Update"] /\ ~unseen["Update"] /\ ~disturbed
    => /\ pc["Update"] \in {"get", "put"} =>
            \A s \in Services : s < i["Update"] => backend[s] # "absent"
       /\ ManageLoopback =>
            /\ \A v \in Vips : AddressDone("Update", v) => v \in lo
            /\ \A f \in Files : FileDone("Update", f) => arp[f] = arpValues[f]["Update"]

\* What a Stop has taken down so far, unless it has noted an error.
StopInv ==
  ~errorArr["Stop"] /\ ~overlap
    => /\ pc["Stop"] = "delete" =>
            \A s \in Services : s < i["Stop"] => backend[s] = "absent"
       /\ ManageLoopback =>
            /\ ~unseen["Stop"] => \A v \in Vips : AddressDone("Stop", v) => v \notin lo
            /\ \A f \in Files : FileDone("Stop", f) => arp[f] = arpValues[f]["Stop"]

\* Stop has been past the backend.
Drained(s) ==
  \/ pc["Stop"] = "patch" /\ s < i["Stop"]
  \/ pc["Stop"] \in Loopback \cup {"delete"}
  \/ result["Stop"] # "none"

\* Without failing calls, addresses come before backends and go after them.
OrderInv ==
  ManageLoopback /\ failures = 0 /\ ~overlap
    => /\ \A v \in Vips : AddressDone("Update", v) => v \in lo
       /\ \A s \in Services : Drained(s) => backend[s] # "weight"

\* Only a Stop that has begun leaves a backend with weight 0, and what it has
\* removed stays removed.
DrainInv ==
  ~abandoned
    => /\ ~Called("Stop") \/ result["Stop"] = "nil" => \A s \in Services : backend[s] # "zero"
       /\ pc["Stop"] = "delete" /\ ~errorArr["Stop"] =>
            \A s \in Services : s < i["Stop"] => backend[s] # "zero"

\* The inductive invariant.
Inv ==
  /\ GorbTypeOK /\ CallInv /\ UpdateInv /\ StopInv /\ OrderInv /\ DrainInv
  /\ UpdatedMeansSetUp /\ StopCleansUp /\ NoBlackhole

-----------------------------------------------------------------------------
\* The initial state satisfies the invariant.
LEMMA InitInv == Init => Inv
<1> SUFFICES ASSUME Init PROVE Inv
  OBVIOUS
<1> USE GorbAssumption DEF Init, All, Callers
<1>1. Sorts
  BY DEF Sorts, Labels
<1>2. Flags
  BY Zenon DEF Flags
<1>3. \A p \in Callers : InLoop(p)
  BY DEF InLoop
<1>4. CallInv /\ DrainInv
  BY DEF CallInv, Called, Running, DrainInv
<1>5. UpdateInv /\ StopInv /\ OrderInv
  BY DEF UpdateInv, StopInv, OrderInv, AddressDone, FileDone, Files, Loopback, Drained
<1>6. UpdatedMeansSetUp /\ StopCleansUp /\ NoBlackhole
  BY DEF UpdatedMeansSetUp, StopCleansUp, NoBlackhole, Updated
<1> QED
  BY <1>1, <1>2, <1>3, <1>4, <1>5, <1>6 DEF Inv, GorbTypeOK

-----------------------------------------------------------------------------
(* What each step does, to the call that takes it and to the world.        *)

\* The other call is left alone.
Kept(q) ==
  /\ pc'[q] = pc[q] /\ i'[q] = i[q] /\ result'[q] = result[q]
  /\ errorArr'[q] = errorArr[q] /\ unseen'[q] = unseen[q]

\* A step of p: nothing is forgotten, and only p knows of it.
StepOf(p, q) ==
  /\ Kept(q)
  /\ errorArr' \in [Callers -> BOOLEAN] /\ unseen' \in [Callers -> BOOLEAN]
  /\ ~errorArr'[p] => ~errorArr[p]
  /\ ~unseen'[p] => ~unseen[p]
  /\ failures' \in 0..MaxFailures /\ (failures' = 0 => failures = 0)
  /\ UNCHANGED <<restarts, losses, disturbed, overlap, abandoned>>

\* The call goes on at a label of the same loop, enters the next loop, or returns.
Goes(p, label, k) == pc'[p] = label /\ i'[p] = k /\ result'[p] = result[p]
Returns(p) ==
  /\ pc'[p] = "idle" /\ i'[p] = 1
  /\ result'[p] = IF errorArr'[p] THEN "error" ELSE "nil"

\* A request, at backend s of its loop: it has done what it is for, or there is
\* an error.
LEMMA RequestFacts ==
  ASSUME GorbTypeOK, NEW p \in Callers, NEW q \in Callers, q # p,
         NEW method, NEW label, NEW value \in {"absent", "zero", "weight"},
         method \in Requests(p), label \in Requests(p), Request(p, method, label, value)
  PROVE  LET s == i[p]
             done == IF method # "put" /\ backend[s] = "absent" THEN "absent" ELSE value
         IN /\ s \in Services /\ pc[p] = method
            /\ \/ backend' = [backend EXCEPT ![s] = done] 
               \/ errorArr'[p] /\ backend' = backend /\ (failures' # 0 \/ backend[s] = "absent")
            /\ \/ s # NumServices /\ Goes(p, label, s + 1)
               \/ s = NumServices /\ label = "patch" /\ ManageLoopback /\ Goes(p, "show", 1)
               \/ s = NumServices /\ label = "patch" /\ ~ManageLoopback /\ Goes(p, "delete", 1)
               \/ s = NumServices /\ label # "patch" /\ Returns(p)
            /\ UNCHANGED <<lo, arp>> /\ StepOf(p, q)
<1> DEFINE s == i[p]
           done == [backend EXCEPT ![s] = IF method # "put" /\ @ = "absent" THEN @ ELSE value]
<1>1. s \in Services /\ pc[p] = method
  BY DEF Request, At, GorbTypeOK, InLoop, Requests, Loopback, Callers
<1>2. PICK failed \in BOOLEAN :
        /\ IF ~failed THEN backend' = done /\ UNCHANGED failures
           ELSE \/ Fails /\ backend' \in {backend, done}
                \/ backend[s] = "absent" /\ method # "put" /\ UNCHANGED <<backend, failures>>
        /\ Append(p, failed) /\ NextBackend(p, label, failed)
  BY Zenon DEF Request
<1>3. UNCHANGED <<lo, arp, unseen, restarts, losses, disturbed, overlap, abandoned>>
  BY DEF Request, history
<1>4. /\ errorArr' \in [Callers -> BOOLEAN] /\ errorArr'[q] = errorArr[q]
      /\ errorArr'[p] = (errorArr[p] \/ failed)
  BY <1>2, Zenon DEF Append, GorbTypeOK, Flags
<1>5. /\ failures' \in 0..MaxFailures /\ (failures' = 0 => failures = 0)
  BY <1>2, GorbAssumption DEF Fails, GorbTypeOK, Sorts
<1>6. \/ backend' = done
      \/ errorArr'[p] /\ backend' = backend /\ (failures' # 0 \/ backend[s] = "absent")
  <2>1. CASE ~failed
    BY <1>2, <2>1, Zenon
  <2>2. CASE failed
    <3>1. errorArr'[p]
      BY <1>4, <2>2
    <3>2. CASE Fails /\ backend' \in {backend, done}
      BY <3>1, <3>2 DEF Fails, GorbTypeOK, Sorts
    <3>3. CASE backend[s] = "absent" /\ method # "put" /\ UNCHANGED <<backend, failures>>
      BY <3>1, <3>3
    <3> QED BY <1>2, <2>2, <3>2, <3>3
  <2> QED BY <2>1, <2>2
<1>7. \/ s # NumServices /\ Goes(p, label, s + 1)
      \/ s = NumServices /\ label = "patch" /\ ManageLoopback /\ Goes(p, "show", 1)
      \/ s = NumServices /\ label = "patch" /\ ~ManageLoopback /\ Goes(p, "delete", 1)
      \/ s = NumServices /\ label # "patch" /\ Returns(p)
  <2>1. CASE s # NumServices
    BY <1>2, <2>1 DEF NextBackend, Enter, Return, Goes, GorbTypeOK, Sorts
  <2>2. CASE s = NumServices /\ label = "patch"
    BY <1>2, <2>2 DEF NextBackend, Enter, Return, Goes, GorbTypeOK, Sorts
  <2>3. CASE s = NumServices /\ label # "patch"
    BY <1>2, <1>4, <2>3 DEF NextBackend, Enter, Return, Returns, GorbTypeOK, Sorts
  <2> QED BY <2>1, <2>2, <2>3
<1>8. pc'[q] = pc[q] /\ i'[q] = i[q] /\ result'[q] = result[q]
  BY <1>2 DEF NextBackend, Enter, Return, GorbTypeOK, Sorts
<1>9. StepOf(p, q)
  <2>1. unseen' \in [Callers -> BOOLEAN] /\ (~unseen'[p] => ~unseen[p]) /\ unseen'[q] = unseen[q]
    BY <1>3, Zenon DEF GorbTypeOK, Flags
  <2>2. ~errorArr'[p] => ~errorArr[p]
    BY <1>4, Zenon
  <2> QED BY <1>3, <1>4, <1>5, <1>8, <2>1, <2>2 DEF StepOf, Kept
<1> QED
  BY <1>1, <1>3, <1>6, <1>7, <1>9

\* The check of a backend, in Update: a backend that is there is skipped, and so
\* is one that could not be looked at.
LEMMA GetFacts ==
  ASSUME GorbTypeOK, Get
  PROVE  LET s == i["Update"]
         IN /\ s \in Services /\ pc["Update"] = "get"
            /\ \/ Goes("Update", "put", s)
               \/ /\ backend[s] # "absent" \/ unseen'["Update"]
                  /\ \/ s # NumServices /\ Goes("Update", "get", s + 1)
                     \/ s = NumServices /\ Returns("Update")
            /\ UNCHANGED <<backend, lo, arp>> /\ StepOf("Update", "Stop")
<1> DEFINE s == i["Update"]
           next == IF s = NumServices THEN Return("Update", FALSE)
                   ELSE pc' = pc /\ i' = [i EXCEPT !["Update"] = s + 1] /\ UNCHANGED result
<1>1. s \in Services /\ pc["Update"] = "get"
  BY DEF Get, At, GorbTypeOK, InLoop, Requests, Loopback, Callers
<1>2. UNCHANGED <<backend, lo, arp, errorArr, restarts, losses, disturbed, overlap, abandoned>>
  BY DEF Get, history
<1>3. \/ /\ IF backend[s] = "absent" THEN Goto("Update", "put") ELSE next
         /\ UNCHANGED <<failures, unseen>>
      \/ Fails /\ unseen' = [unseen EXCEPT !["Update"] = TRUE] /\ next
  BY Zenon DEF Get
<1> HIDE DEF next
<1>4. /\ unseen' \in [Callers -> BOOLEAN] /\ unseen'["Stop"] = unseen["Stop"]
      /\ ~unseen'["Update"] => ~unseen["Update"]
  BY <1>3, Zenon DEF GorbTypeOK, Flags, Callers
<1>5. errorArr' \in [Callers -> BOOLEAN]
  BY <1>2, Zenon DEF GorbTypeOK, Flags
<1>6. failures' \in 0..MaxFailures /\ (failures' = 0 => failures = 0)
  BY <1>3, GorbAssumption DEF Fails, GorbTypeOK, Sorts
<1>7. /\ pc'["Stop"] = pc["Stop"] /\ i'["Stop"] = i["Stop"] /\ result'["Stop"] = result["Stop"]
  BY <1>3 DEF next, Goto, Return, GorbTypeOK, Sorts, Callers
<1>8. StepOf("Update", "Stop")
  BY <1>2, <1>4, <1>5, <1>6, <1>7 DEF StepOf, Kept
<1>9. next => \/ s # NumServices /\ Goes("Update", "get", s + 1)
              \/ s = NumServices /\ Returns("Update")
  BY <1>1, <1>2 DEF next, Return, Goes, Returns, GorbTypeOK, Sorts, Callers
<1>10. Goto("Update", "put") => Goes("Update", "put", s)
  BY DEF Goto, Goes, GorbTypeOK, Sorts, Callers
<1>11. unseen' = [unseen EXCEPT !["Update"] = TRUE] => unseen'["Update"]
  BY Zenon DEF GorbTypeOK, Flags, Callers
<1> QED
  BY <1>1, <1>2, <1>3, <1>8, <1>9, <1>10, <1>11

\* A look at the interface: the address step follows, or it is not needed, or
\* the look has failed.
LEMMA ShowFacts ==
  ASSUME GorbTypeOK, NEW p \in Callers, NEW q \in Callers, q # p, Show(p)
  PROVE  /\ i[p] \in Vips /\ pc[p] = "show" /\ ManageLoopback
         /\ \/ Goes(p, "addr", i[p])
            \/ /\ Goes(p, "arp_ignore", i[p])
               /\ \/ (i[p] \in lo) <=> p = "Update"
                  \/ failures' # 0 /\ (errorArr'[p] \/ unseen'[p])
         /\ UNCHANGED <<backend, lo, arp>> /\ StepOf(p, q)
<1>1. i[p] \in Vips /\ pc[p] = "show" /\ ManageLoopback
  BY DEF Show, At, GorbTypeOK, InLoop, Requests, Loopback, Callers
<1>2. UNCHANGED <<backend, lo, arp, restarts, losses, disturbed, overlap, abandoned>>
  BY DEF Show, history
<1> DEFINE expected == IF p = "Update" THEN 0 ELSE 1
           seen(count) == count = (IF i[p] \in lo THEN 1 ELSE 0) /\ UNCHANGED <<failures, unseen>>
           missed(count) == count = 0 /\ Fails /\ unseen' = [unseen EXCEPT ![p] = TRUE]
<1>3. PICK count \in 0..1, failed \in BOOLEAN :
        /\ IF ~failed
           THEN /\ seen(count) \/ missed(count)
                /\ Goto(p, IF count = expected THEN "addr" ELSE "arp_ignore")
           ELSE count = 0 /\ Fails /\ UNCHANGED unseen /\ Goto(p, "arp_ignore")
        /\ Append(p, failed)
  BY Zenon DEF Show
<1>4. /\ errorArr' \in [Callers -> BOOLEAN] /\ errorArr'[q] = errorArr[q]
      /\ errorArr'[p] = (errorArr[p] \/ failed)
  BY <1>3, Zenon DEF Append, GorbTypeOK, Flags
<1>5. UNCHANGED unseen \/ unseen' = [unseen EXCEPT ![p] = TRUE]
  BY <1>3, Zenon
<1>6. /\ unseen' \in [Callers -> BOOLEAN] /\ unseen'[q] = unseen[q]
      /\ ~unseen'[p] => ~unseen[p]
  BY <1>5, Zenon DEF GorbTypeOK, Flags
<1>7. failures' = failures \/ Fails
  BY <1>3, Zenon
<1>8. /\ failures' \in 0..MaxFailures /\ (failures' = 0 => failures = 0)
      /\ Fails => failures' # 0
  BY <1>7, GorbAssumption DEF Fails, GorbTypeOK, Sorts
<1>9. Goto(p, "addr") \/ Goto(p, "arp_ignore")
  BY <1>3, Zenon
<1>10. /\ Goto(p, "addr") => Goes(p, "addr", i[p])
       /\ Goto(p, "arp_ignore") => Goes(p, "arp_ignore", i[p])
       /\ pc'[q] = pc[q] /\ i'[q] = i[q] /\ result'[q] = result[q]
  BY <1>9 DEF Goto, Goes, GorbTypeOK, Sorts
<1>11. StepOf(p, q)
  <2>1. ~errorArr'[p] => ~errorArr[p]
    BY <1>4, Zenon
  <2> QED BY <1>2, <1>4, <1>6, <1>8, <1>10, <2>1 DEF StepOf, Kept
<1>12. \/ Goto(p, "addr")
       \/ Goto(p, "arp_ignore") /\ ((i[p] \in lo) <=> p = "Update")
       \/ Goto(p, "arp_ignore") /\ Fails /\ (errorArr'[p] \/ unseen'[p])
  <2>1. CASE failed
    BY <1>3, <1>4, <2>1, Zenon
  <2>2. CASE ~failed /\ missed(count)
    <3>1. unseen'[p]
      BY <2>2, Zenon DEF GorbTypeOK, Flags
    <3> QED BY <1>3, <1>9, <2>2, <3>1, Zenon
  <2>3. CASE ~failed /\ seen(count)
    <3>1. Goto(p, IF count = expected THEN "addr" ELSE "arp_ignore")
      BY <1>3, <2>3, Zenon
    <3>2. CASE count = expected
      BY <3>1, <3>2, Zenon
    <3>3. CASE count # expected
      <4>1. (i[p] \in lo) <=> p = "Update"
        BY <2>3, <3>3
      <4> QED BY <3>1, <3>3, <4>1, Zenon
    <3> QED BY <3>2, <3>3
  <2> QED BY <1>3, <2>1, <2>2, <2>3, Zenon
<1> QED
  BY <1>1, <1>2, <1>8, <1>10, <1>11, <1>12

\* The address of the VIP: it is added or removed, or there is an error.
LEMMA AddrFacts ==
  ASSUME GorbTypeOK, NEW p \in Callers, NEW q \in Callers, q # p, Addr(p)
  PROVE  /\ i[p] \in Vips /\ pc[p] = "addr" /\ ManageLoopback
         /\ Goes(p, "arp_ignore", i[p])
         /\ \/ lo' = IF p = "Update" THEN lo \cup {i[p]} ELSE lo \ {i[p]}
            \/ lo' = lo /\ failures' # 0 /\ errorArr'[p]
         /\ UNCHANGED <<backend, arp>> /\ StepOf(p, q)
<1> DEFINE done == IF p = "Update" THEN lo \cup {i[p]} ELSE lo \ {i[p]}
<1>1. i[p] \in Vips /\ pc[p] = "addr" /\ ManageLoopback
  BY DEF Addr, At, GorbTypeOK, InLoop, Requests, Loopback, Callers
<1>2. UNCHANGED <<backend, arp, unseen, restarts, losses, disturbed, overlap, abandoned>>
  BY DEF Addr, history
<1>3. \/ lo' = done /\ UNCHANGED failures /\ (Append(p, FALSE) \/ Append(p, TRUE))
      \/ Fails /\ lo' \in {lo, done} /\ Append(p, TRUE)
  BY Zenon DEF Addr
<1> HIDE DEF done
<1>4. /\ errorArr' \in [Callers -> BOOLEAN] /\ errorArr'[q] = errorArr[q]
      /\ ~errorArr'[p] => ~errorArr[p]
      /\ Append(p, TRUE) => errorArr'[p]
  BY <1>3, Zenon DEF Append, GorbTypeOK, Flags
<1>5. /\ unseen' \in [Callers -> BOOLEAN] /\ unseen'[q] = unseen[q]
      /\ ~unseen'[p] => ~unseen[p]
  BY <1>2, Zenon DEF GorbTypeOK, Flags
<1>6. /\ failures' \in 0..MaxFailures /\ (failures' = 0 => failures = 0)
      /\ Fails => failures' # 0
  <2>1. failures' = failures \/ Fails
    BY <1>3, Zenon
  <2> QED BY <2>1, GorbAssumption DEF Fails, GorbTypeOK, Sorts
<1>7. /\ Goes(p, "arp_ignore", i[p])
      /\ pc'[q] = pc[q] /\ i'[q] = i[q] /\ result'[q] = result[q]
  BY DEF Addr, Goto, Goes, GorbTypeOK, Sorts
<1>8. StepOf(p, q)
  BY <1>2, <1>4, <1>5, <1>6, <1>7 DEF StepOf, Kept
<1>9. lo' = done \/ (lo' = lo /\ failures' # 0 /\ errorArr'[p])
  BY <1>3, <1>4, <1>6, Zenon
<1> QED
  BY <1>1, <1>2, <1>7, <1>8, <1>9 DEF done

\* A file of the interface is written, or there is an error.
LEMMA TeeFacts ==
  ASSUME GorbTypeOK, NEW p \in Callers, NEW q \in Callers, q # p, NEW f \in Files, Tee(p, f)
  PROVE  /\ i[p] \in Vips /\ pc[p] = f /\ ManageLoopback
         /\ \/ arp' = [arp EXCEPT ![f] = arpValues[f][p]]
            \/ arp' = arp /\ errorArr'[p]
         /\ \/ f = "arp_ignore" /\ Goes(p, "arp_announce", i[p])
            \/ f = "arp_announce" /\ i[p] < NumVips /\ Goes(p, "show", i[p] + 1)
            \/ f = "arp_announce" /\ i[p] = NumVips /\ Goes(p, AfterLoopback[p], 1)
         /\ UNCHANGED <<backend, lo>> /\ StepOf(p, q)
<1> DEFINE done == [arp EXCEPT ![f] = arpValues[f][p]]
<1>1. i[p] \in Vips /\ pc[p] = f /\ ManageLoopback
  BY Zenon DEF Tee, At, GorbTypeOK, InLoop, Requests, Loopback, Callers, Files
<1>2. UNCHANGED <<backend, lo, unseen, restarts, losses, disturbed, overlap, abandoned>>
  BY DEF Tee, history
<1>3. \/ arp' = done /\ Append(p, FALSE) /\ UNCHANGED failures
      \/ Fails /\ arp' \in {arp, done} /\ Append(p, TRUE)
  BY Zenon DEF Tee
<1> HIDE DEF done
<1>4. /\ errorArr' \in [Callers -> BOOLEAN] /\ errorArr'[q] = errorArr[q]
      /\ ~errorArr'[p] => ~errorArr[p]
      /\ Append(p, TRUE) => errorArr'[p]
  BY <1>3, Zenon DEF Append, GorbTypeOK, Flags
<1>5. /\ unseen' \in [Callers -> BOOLEAN] /\ unseen'[q] = unseen[q]
      /\ ~unseen'[p] => ~unseen[p]
  BY <1>2, Zenon DEF GorbTypeOK, Flags
<1>6. failures' \in 0..MaxFailures /\ (failures' = 0 => failures = 0)
  <2>1. failures' = failures \/ Fails
    BY <1>3, Zenon
  <2> QED BY <2>1, GorbAssumption DEF Fails, GorbTypeOK, Sorts
<1>7. \/ f = "arp_ignore" /\ Goto(p, "arp_announce")
      \/ /\ f = "arp_announce" /\ i[p] < NumVips
         /\ pc' = [pc EXCEPT ![p] = "show"] /\ i' = [i EXCEPT ![p] = @ + 1] /\ UNCHANGED result
      \/ f = "arp_announce" /\ i[p] = NumVips /\ Enter(p, AfterLoopback[p])
  BY Zenon DEF Tee
<1>8. /\ \/ f = "arp_ignore" /\ Goes(p, "arp_announce", i[p])
         \/ f = "arp_announce" /\ i[p] < NumVips /\ Goes(p, "show", i[p] + 1)
         \/ f = "arp_announce" /\ i[p] = NumVips /\ Goes(p, AfterLoopback[p], 1)
      /\ pc'[q] = pc[q] /\ i'[q] = i[q] /\ result'[q] = result[q]
  BY <1>7 DEF Goto, Enter, Goes, GorbTypeOK, Sorts
<1>9. StepOf(p, q)
  BY <1>2, <1>4, <1>5, <1>6, <1>8 DEF StepOf, Kept
<1>10. arp' = done \/ (arp' = arp /\ errorArr'[p])
  BY <1>3, <1>4, ZenonT(60)
<1> QED
  BY <1>1, <1>2, <1>8, <1>9, <1>10 DEF done

\* A call begins with nothing noted.
LEMMA BeginFacts ==
  ASSUME GorbTypeOK, NEW p \in Callers, NEW q \in Callers, q # p, Begin(p)
  PROVE  /\ pc[p] = "idle" /\ pc'[p] = First(p) /\ i'[p] = 1 /\ result'[p] = "none"
         /\ Kept(q) /\ ~errorArr'[p] /\ ~unseen'[p]
         /\ errorArr' \in [Callers -> BOOLEAN] /\ unseen' \in [Callers -> BOOLEAN]
         /\ UNCHANGED <<backend, lo, arp, failures, restarts, losses>>
<1>1. /\ pc[p] = "idle" /\ pc'[p] = First(p) /\ i'[p] = 1 /\ result'[p] = "none"
      /\ pc'[q] = pc[q] /\ i'[q] = i[q] /\ result'[q] = result[q]
      /\ UNCHANGED <<backend, lo, arp, failures, restarts, losses>>
  BY DEF Begin, At, bounds, GorbTypeOK, Sorts
<1>2. /\ errorArr' \in [Callers -> BOOLEAN] /\ unseen' \in [Callers -> BOOLEAN]
      /\ ~errorArr'[p] /\ ~unseen'[p] /\ errorArr'[q] = errorArr[q] /\ unseen'[q] = unseen[q]
  BY Zenon DEF Begin, GorbTypeOK, Flags
<1> QED
  BY <1>1, <1>2 DEF Kept

-----------------------------------------------------------------------------
(* Every step keeps the types.                                             *)

LEMMA RequestSorts ==
  ASSUME GorbTypeOK, NEW p \in Callers, NEW method, NEW label,
         NEW value \in {"absent", "zero", "weight"},
         label \in Requests(p), Request(p, method, label, value)
  PROVE  Sorts'
<1> DEFINE s == i[p]
           done == [backend EXCEPT ![s] = IF method # "put" /\ @ = "absent" THEN @ ELSE value]
<1>1. PICK failed \in BOOLEAN :
        /\ IF ~failed THEN backend' = done /\ UNCHANGED failures
           ELSE \/ Fails /\ backend' \in {backend, done}
                \/ backend[s] = "absent" /\ method # "put" /\ UNCHANGED <<backend, failures>>
        /\ NextBackend(p, label, failed)
  BY Zenon DEF Request
<1>2. UNCHANGED <<lo, arp, restarts, losses>>
  BY DEF Request
<1>3. backend' \in [Services -> {"absent", "zero", "weight"}]
  <2>1. done \in [Services -> {"absent", "zero", "weight"}]
    BY Zenon DEF GorbTypeOK, Sorts
  <2>2. backend' \in {backend, done}
    BY <1>1, Zenon
  <2> QED BY <2>1, <2>2 DEF GorbTypeOK, Sorts
<1>4. failures' \in 0..MaxFailures
  <2>1. failures' = failures \/ Fails
    BY <1>1, Zenon
  <2> QED BY <2>1, GorbAssumption DEF Fails, GorbTypeOK, Sorts
<1>5. /\ pc' \in [Callers -> Labels] /\ i' \in [Callers -> Nat]
      /\ result' \in [Callers -> {"none", "nil", "error"}]
  BY <1>1 DEF NextBackend, Enter, Return, GorbTypeOK, Sorts, Labels, Loopback, Requests
<1> QED
  BY <1>2, <1>3, <1>4, <1>5 DEF GorbTypeOK, Sorts

LEMMA LoopbackSorts ==
  ASSUME GorbTypeOK, NEW p \in Callers, manageLoopBack(p)
  PROVE  Sorts'
<1>1. CASE Show(p)
  <2>1. failures' = failures \/ Fails
    BY <1>1, Zenon DEF Show
  <2>2. Goto(p, "addr") \/ Goto(p, "arp_ignore")
    BY <1>1, Zenon DEF Show
  <2>3. UNCHANGED <<backend, lo, arp, restarts, losses>>
    BY <1>1 DEF Show
  <2> QED
    BY <2>1, <2>2, <2>3, GorbAssumption DEF Goto, Fails, GorbTypeOK, Sorts, Labels, Loopback
<1>2. CASE Addr(p)
  <2>1. i[p] \in Vips
    BY <1>2 DEF Addr, At, GorbTypeOK, InLoop, Requests, Loopback, Callers
  <2>2. failures' = failures \/ Fails
    BY <1>2, Zenon DEF Addr
  <2>3. lo' \in {lo, lo \cup {i[p]}, lo \ {i[p]}}
    BY <1>2, Zenon DEF Addr
  <2>4. UNCHANGED <<backend, arp, restarts, losses>> /\ Goto(p, "arp_ignore")
    BY <1>2 DEF Addr
  <2>5. lo' \in SUBSET Vips
    BY <2>1, <2>3 DEF GorbTypeOK, Sorts
  <2> QED
    BY <2>2, <2>4, <2>5, GorbAssumption DEF Goto, Fails, GorbTypeOK, Sorts, Labels, Loopback
<1>3. ASSUME NEW f \in Files, Tee(p, f) PROVE Sorts'
  <2>1. failures' = failures \/ Fails
    BY <1>3, Zenon DEF Tee
  <2>2. arp' \in {arp, [arp EXCEPT ![f] = arpValues[f][p]]}
    BY <1>3, Zenon DEF Tee
  <2>3. arpValues[f][p] \in Nat
    BY DEF arpValues, Files, Callers
  <2>4. arp' \in [arp_ignore : Nat, arp_announce : Nat]
    BY <2>2, <2>3 DEF GorbTypeOK, Sorts, Files
  <2>5. UNCHANGED <<backend, lo, restarts, losses>>
    BY <1>3 DEF Tee
  <2>6. AfterLoopback[p] \in Labels
    BY DEF AfterLoopback, Labels, Callers
  <2>7. /\ pc' \in [Callers -> Labels] /\ i' \in [Callers -> Nat]
        /\ result' \in [Callers -> {"none", "nil", "error"}]
    BY <1>3, <2>6 DEF Tee, Goto, Enter, GorbTypeOK, Sorts, Labels, Loopback
  <2> QED
    BY <2>1, <2>4, <2>5, <2>7, GorbAssumption DEF Fails, GorbTypeOK, Sorts
<1> QED
  BY <1>1, <1>2, <1>3 DEF manageLoopBack, Files

\* A step of one call keeps the types if the call stays in its loops.
LEMMA StepTypes ==
  ASSUME GorbTypeOK, NEW p \in Callers, NEW q \in Callers, q # p, StepOf(p, q), Sorts', InLoop(p)'
  PROVE  GorbTypeOK'
<1>1. Flags'
  BY Zenon DEF StepOf, GorbTypeOK, Flags
<1>2. InLoop(q)'
  BY DEF StepOf, Kept, GorbTypeOK, InLoop
<1>3. \A r \in Callers : r = p \/ r = q
  BY DEF Callers
<1> QED
  BY <1>1, <1>2, <1>3 DEF GorbTypeOK

LEMMA RequestType ==
  ASSUME GorbTypeOK, NEW p \in Callers, NEW q \in Callers, q # p,
         NEW method, NEW label, NEW value \in {"absent", "zero", "weight"},
         method \in Requests(p), label \in Requests(p), Request(p, method, label, value)
  PROVE  GorbTypeOK'
<1>1. /\ i[p] \in Services /\ StepOf(p, q)
      /\ \/ i[p] # NumServices /\ Goes(p, label, i[p] + 1)
         \/ i[p] = NumServices /\ label = "patch" /\ ManageLoopback /\ Goes(p, "show", 1)
         \/ i[p] = NumServices /\ label = "patch" /\ ~ManageLoopback /\ Goes(p, "delete", 1)
         \/ i[p] = NumServices /\ label # "patch" /\ Returns(p)
  BY RequestFacts
<1>2. InLoop(p)'
  BY <1>1, GorbAssumption
     DEF Goes, Returns, InLoop, Requests, Services, Vips, Callers, Loopback
<1>3. Sorts'
  BY RequestSorts
<1> QED
  BY <1>1, <1>2, <1>3, StepTypes, Zenon

LEMMA LoopbackType ==
  ASSUME GorbTypeOK, NEW p \in Callers, NEW q \in Callers, q # p, manageLoopBack(p)
  PROVE  GorbTypeOK'
<1>1. Sorts'
  BY LoopbackSorts
<1>2. CASE Show(p)
  <2>1. StepOf(p, q) /\ InLoop(p)'
    BY <1>2, ShowFacts, Zenon DEF Goes, InLoop, Loopback
  <2> QED BY <1>1, <2>1, StepTypes
<1>3. CASE Addr(p)
  <2>1. StepOf(p, q) /\ InLoop(p)'
    BY <1>3, AddrFacts DEF Goes, InLoop, Loopback
  <2> QED BY <1>1, <2>1, StepTypes
<1>4. ASSUME NEW f \in Files, Tee(p, f) PROVE GorbTypeOK'
  <2>1. /\ i[p] \in Vips /\ ManageLoopback /\ StepOf(p, q)
        /\ \/ f = "arp_ignore" /\ Goes(p, "arp_announce", i[p])
           \/ f = "arp_announce" /\ i[p] < NumVips /\ Goes(p, "show", i[p] + 1)
           \/ f = "arp_announce" /\ i[p] = NumVips /\ Goes(p, AfterLoopback[p], 1)
    BY <1>4, TeeFacts
  <2>2. InLoop(p)'
    BY <2>1, GorbAssumption
       DEF Goes, InLoop, Loopback, Vips, Services, AfterLoopback, Requests, Callers
  <2> QED BY <1>1, <2>1, <2>2, StepTypes
<1> QED
  BY <1>2, <1>3, <1>4 DEF manageLoopBack, Files

LEMMA BeginType ==
  ASSUME GorbTypeOK, NEW p \in Callers, NEW q \in Callers, q # p, Begin(p),
         disturbed' \in BOOLEAN, overlap' \in BOOLEAN, abandoned' \in BOOLEAN
  PROVE  GorbTypeOK'
<1>1. Sorts'
  BY Zenon DEF Begin, First, bounds, GorbTypeOK, Sorts, Labels, Loopback
<1>2. /\ pc'[p] = First(p) /\ i'[p] = 1 /\ Kept(q)
      /\ errorArr' \in [Callers -> BOOLEAN] /\ unseen' \in [Callers -> BOOLEAN]
  BY BeginFacts
<1>3. Flags'
  BY <1>2, Zenon DEF Flags
<1>4. InLoop(p)'
  BY <1>2, GorbAssumption DEF First, InLoop, Requests, Loopback, Services, Vips, Callers
<1>5. InLoop(q)'
  BY <1>2 DEF Kept, GorbTypeOK, InLoop
<1>6. \A r \in Callers : r = p \/ r = q
  BY DEF Callers
<1> QED
  BY <1>1, <1>3, <1>4, <1>5, <1>6 DEF GorbTypeOK

\* Every step keeps the types.
LEMMA TypeStep == GorbTypeOK /\ [Next]_vars => GorbTypeOK'
<1> SUFFICES ASSUME GorbTypeOK, [Next]_vars PROVE GorbTypeOK'
  OBVIOUS
<1>0. "Update" \in Callers /\ "Stop" \in Callers
  BY DEF Callers
<1>1. CASE Update
  <2>1. disturbed' \in BOOLEAN /\ overlap' \in BOOLEAN /\ abandoned' \in BOOLEAN
    BY <1>1, Zenon DEF Update, GorbTypeOK, Flags
  <2> QED BY <1>0, <1>1, <2>1, BeginType DEF Update
<1>2. CASE Stop
  <2>1. disturbed' \in BOOLEAN /\ overlap' \in BOOLEAN /\ abandoned' \in BOOLEAN
    BY <1>2, Zenon DEF Stop, GorbTypeOK, Flags
  <2> QED BY <1>0, <1>2, <2>1, BeginType DEF Stop
<1>3. CASE Get
  <2>1. /\ i["Update"] \in Services /\ StepOf("Update", "Stop")
        /\ \/ Goes("Update", "put", i["Update"])
           \/ i["Update"] # NumServices /\ Goes("Update", "get", i["Update"] + 1)
           \/ Returns("Update")
    BY <1>3, GetFacts
  <2>2. InLoop("Update")'
    BY <2>1, GorbAssumption DEF Goes, Returns, InLoop, Requests, Services
  <2>3. Sorts'
    <3>1. failures' = failures \/ Fails
      BY <1>3, Zenon DEF Get
    <3>2. UNCHANGED <<backend, lo, arp, restarts, losses>>
      BY <1>3 DEF Get
    <3>3. /\ pc' \in [Callers -> Labels] /\ i' \in [Callers -> Nat]
          /\ result' \in [Callers -> {"none", "nil", "error"}]
      BY <1>3 DEF Get, Goto, Return, GorbTypeOK, Sorts, Labels, Loopback
    <3> QED BY <3>1, <3>2, <3>3, GorbAssumption DEF Fails, GorbTypeOK, Sorts
  <2> QED BY <1>0, <2>1, <2>2, <2>3, StepTypes
<1>4. CASE addBackend
  BY <1>0, <1>4, RequestType DEF addBackend, Requests
<1>5. CASE modifyBackend
  BY <1>0, <1>5, RequestType DEF modifyBackend, Requests
<1>6. CASE removeBackend
  BY <1>0, <1>6, RequestType DEF removeBackend, Requests
<1>7. CASE manageLoopBack("Update")
  BY <1>0, <1>7, LoopbackType
<1>8. CASE manageLoopBack("Stop")
  BY <1>0, <1>8, LoopbackType
<1>9. CASE Restart
  <2>1. Sorts'
    BY <1>9, GorbAssumption DEF Restart, All, GorbTypeOK, Sorts, Labels
  <2>2. Flags'
    BY <1>9, Zenon DEF Restart, All, GorbTypeOK, Flags
  <2>3. \A p \in Callers : InLoop(p)'
    BY <1>9 DEF Restart, All, InLoop
  <2> QED BY <2>1, <2>2, <2>3 DEF GorbTypeOK
<1>10. CASE Lose
  <2>1. Sorts'
    BY <1>10, GorbAssumption DEF Lose, goVars, GorbTypeOK, Sorts
  <2>2. Flags'
    BY <1>10, Zenon DEF Lose, goVars, GorbTypeOK, Flags
  <2>3. \A p \in Callers : InLoop(p)'
    BY <1>10 DEF Lose, goVars, GorbTypeOK, InLoop
  <2> QED BY <2>1, <2>2, <2>3 DEF GorbTypeOK
<1>11. CASE UNCHANGED vars
  BY <1>11, Zenon DEF vars, goVars, bounds, history, GorbTypeOK, Sorts, Flags, InLoop
<1> QED
  BY <1>1, <1>2, <1>3, <1>4, <1>5, <1>6, <1>7, <1>8, <1>9, <1>10, <1>11
     DEF Next, UpdateSteps, StopSteps

-----------------------------------------------------------------------------
(* Update.  While it runs, Stop has not been called, or they overlap.      *)

\* What a step of Update need not look at.
LEMMA UpdateSide ==
  ASSUME Inv, Running("Update"), StepOf("Update", "Stop"),
         Running("Update")' => result'["Update"] = "none",
         \A s \in Services : backend'[s] = "zero" => backend[s] = "zero"
  PROVE  /\ CallInv' /\ StopInv' /\ StopCleansUp' /\ DrainInv'
         /\ ~overlap' => \A s \in Services : ~Drained(s)'
<1> USE DEF Inv, StepOf, Kept
<1>1. CallInv'
  BY DEF CallInv, Callers, Called, Running
<1>2. ~overlap => pc'["Stop"] = "idle" /\ result'["Stop"] = "none"
  BY Zenon DEF CallInv, Called, Running
<1>3. StopInv' /\ StopCleansUp'
  BY <1>2 DEF StopInv, StopCleansUp, AddressDone, FileDone, Files, Loopback
<1>4. DrainInv'
  BY DEF DrainInv, Called, Running
<1>5. ~overlap' => \A s \in Services : ~Drained(s)'
  BY <1>2 DEF Drained, Loopback
<1> QED
  BY <1>1, <1>3, <1>4, <1>5

\* Every address and both files: the loopback is as Update wants it.
LEMMA LoopbackSetUp ==
  ASSUME GorbTypeOK, \A v \in Vips : v \in lo,
         \A f \in Files : arp[f] = arpValues[f]["Update"]
  PROVE  lo = Vips /\ arp = Disabled
<1>1. lo = Vips
  BY Zenon DEF GorbTypeOK, Sorts
<1>2. arp.arp_ignore = 1 /\ arp.arp_announce = 2
  BY DEF Files, arpValues
<1> QED
  BY <1>1, <1>2 DEF GorbTypeOK, Sorts, Disabled

\* The check of a backend.
LEMMA GetStep == ASSUME Inv, Get PROVE Inv'
<1> DEFINE k == i["Update"]
<1>1. /\ k \in Services /\ pc["Update"] = "get"
      /\ UNCHANGED <<backend, lo, arp>> /\ StepOf("Update", "Stop")
  BY GetFacts DEF Inv
<1>2. \/ Goes("Update", "put", k)
      \/ /\ backend[k] # "absent" \/ unseen'["Update"]
         /\ \/ k # NumServices /\ Goes("Update", "get", k + 1)
            \/ k = NumServices /\ Returns("Update")
  BY GetFacts DEF Inv
<1>3. Running("Update") /\ result["Update"] = "none"
  BY <1>1 DEF Inv, CallInv, Running, Callers
<1>4. Running("Update")' => result'["Update"] = "none"
  BY <1>2, <1>3 DEF Goes, Returns, Running
<1>5. /\ CallInv' /\ StopInv' /\ StopCleansUp' /\ DrainInv'
      /\ ~overlap' => \A s \in Services : ~Drained(s)'
  BY <1>1, <1>3, <1>4, UpdateSide, Zenon
<1>6. UpdateInv'
  BY <1>1, <1>2 DEF Inv, UpdateInv, StepOf, Goes, Returns, AddressDone, FileDone, Files, Loopback,
                     Services
<1>7. UpdatedMeansSetUp'
  <2> SUFFICES ASSUME Updated'
               PROVE  /\ \A s \in Services : backend[s] # "absent"
                      /\ ManageLoopback => lo = Vips /\ arp = Disabled
    BY <1>1 DEF UpdatedMeansSetUp
  <2>1. /\ k = NumServices /\ backend[k] # "absent"
        /\ ~errorArr["Update"] /\ ~unseen["Update"] /\ ~disturbed
    BY <1>1, <1>2, <1>3, Zenon DEF Updated, StepOf, Goes, Returns
  <2>2. \A s \in Services : s < k => backend[s] # "absent"
    BY <1>1, <2>1 DEF Inv, UpdateInv
  <2>3. \A s \in Services : s < k \/ s = k
    BY <2>1, GorbAssumption DEF Services
  <2>4. ManageLoopback => /\ \A v \in Vips : v \in lo
                          /\ \A f \in Files : arp[f] = arpValues[f]["Update"]
    BY <1>1, <2>1, Zenon DEF Inv, UpdateInv, AddressDone, FileDone
  <2> QED BY <2>1, <2>2, <2>3, <2>4, LoopbackSetUp DEF Inv
<1>8. OrderInv' /\ NoBlackhole'
  BY <1>1, <1>2, <1>5 DEF Inv, OrderInv, NoBlackhole, AddressDone, StepOf, Goes, Returns
<1> QED
  BY <1>5, <1>6, <1>7, <1>8, TypeStep DEF Inv, Next, UpdateSteps

\* The addition of a backend.
LEMMA AddStep == ASSUME Inv, addBackend PROVE Inv'
<1> DEFINE k == i["Update"]
<1>0. /\ "Update" \in Callers /\ "Stop" \in Callers
      /\ "put" \in Requests("Update") /\ "get" \in Requests("Update")
  BY DEF Callers, Requests
<1>1. /\ k \in Services /\ pc["Update"] = "put"
      /\ backend' = [backend EXCEPT ![k] = "weight"] \/ (errorArr'["Update"] /\ backend' = backend)
      /\ \/ k # NumServices /\ Goes("Update", "get", k + 1)
         \/ k = NumServices /\ Returns("Update")
      /\ UNCHANGED <<lo, arp>> /\ StepOf("Update", "Stop")
  BY <1>0, RequestFacts DEF Inv, addBackend
<1>2. Running("Update") /\ result["Update"] = "none"
  BY <1>1 DEF Inv, CallInv, Running, Callers
<1>3. Running("Update")' => result'["Update"] = "none"
  BY <1>1, <1>2 DEF Goes, Returns, Running
<1>4. /\ \A s \in Services : backend'[s] = "zero" => backend[s] = "zero"
      /\ ~errorArr'["Update"] =>
           backend'[k] # "absent" /\ \A s \in Services : s # k => backend'[s] = backend[s]
  BY <1>1 DEF Inv, GorbTypeOK, Sorts
<1>5. /\ CallInv' /\ StopInv' /\ StopCleansUp' /\ DrainInv'
      /\ ~overlap' => \A s \in Services : ~Drained(s)'
  BY <1>1, <1>2, <1>3, <1>4, UpdateSide, Zenon
<1>6. UpdateInv'
  BY <1>1, <1>4 DEF Inv, UpdateInv, StepOf, Goes, Returns, AddressDone, FileDone, Files, Loopback,
                     Services
<1>7. UpdatedMeansSetUp'
  <2> SUFFICES ASSUME Updated'
               PROVE  /\ \A s \in Services : backend'[s] # "absent"
                      /\ ManageLoopback => lo = Vips /\ arp = Disabled
    BY <1>1, Zenon DEF UpdatedMeansSetUp
  <2>1. /\ k = NumServices /\ ~errorArr'["Update"]
        /\ ~errorArr["Update"] /\ ~unseen["Update"] /\ ~disturbed
    BY <1>1, <1>2, Zenon DEF Updated, StepOf, Goes, Returns
  <2>2. \A s \in Services : s < k => backend[s] # "absent"
    BY <1>1, <2>1 DEF Inv, UpdateInv
  <2>3. \A s \in Services : s < k \/ s = k
    BY <2>1, GorbAssumption DEF Services
  <2>4. ManageLoopback => /\ \A v \in Vips : v \in lo
                          /\ \A f \in Files : arp[f] = arpValues[f]["Update"]
    BY <1>1, <2>1 DEF Inv, UpdateInv, AddressDone, FileDone
  <2>5. \A s \in Services : backend'[s] # "absent"
    BY <1>4, <2>1, <2>2, <2>3, Zenon
  <2> QED BY <2>4, <2>5, LoopbackSetUp DEF Inv
<1>8. OrderInv'
  BY <1>1, <1>5 DEF Inv, OrderInv, AddressDone, StepOf, Goes, Returns
<1>9. NoBlackhole'
  <2> SUFFICES ASSUME ManageLoopback, failures' = 0, ~overlap' PROVE lo' = Vips
    BY DEF NoBlackhole
  <2>1. \A v \in Vips : v \in lo
    BY <1>1, Zenon DEF Inv, OrderInv, AddressDone, StepOf
  <2> QED BY <1>1, <2>1, Zenon DEF Inv, GorbTypeOK, Sorts
<1> QED
  BY <1>5, <1>6, <1>7, <1>8, <1>9, TypeStep DEF Inv, Next, UpdateSteps

\* The address of a VIP: it is done once the files are next.
LEMMA AddressTurn ==
  ASSUME GorbTypeOK, NEW p \in Callers, i[p] \in Vips, pc[p] \in {"show", "addr"},
         Goes(p, "addr", i[p]) \/ Goes(p, "arp_ignore", i[p])
  PROVE  /\ pc'[p] \in Loopback
         /\ \A v \in Vips :
              AddressDone(p, v)' => AddressDone(p, v) \/ (v = i[p] /\ pc'[p] = "arp_ignore")
         /\ \A f \in Files : FileDone(p, f)' => FileDone(p, f)
<1>1. pc'[p] \in {"addr", "arp_ignore"} /\ i'[p] = i[p]
  BY DEF Goes
<1>2. pc'[p] \in Loopback /\ pc[p] \in Loopback
  BY <1>1 DEF Loopback
<1>3. ASSUME NEW v \in Vips, AddressDone(p, v)'
      PROVE  AddressDone(p, v) \/ (v = i[p] /\ pc'[p] = "arp_ignore")
  <2>1. v < i[p] \/ (v = i[p] /\ pc'[p] = "arp_ignore")
    BY <1>1, <1>3 DEF AddressDone, Files, Vips
  <2> QED BY <2>1 DEF AddressDone
<1>4. ASSUME NEW f \in Files, FileDone(p, f)' PROVE FileDone(p, f)
  <2>1. i[p] > 1
    BY <1>1, <1>4 DEF FileDone
  <2> QED BY <1>2, <2>1 DEF FileDone
<1> QED BY <1>2, <1>3, <1>4

\* A command of Update keeps what it has set up and adds what it has done.
LEMMA UpdateGoesOn ==
  ASSUME UpdateInv, StepOf("Update", "Stop"), lo \subseteq lo',
         pc'["Update"] \in Loopback \/ i'["Update"] = 1,
         ~errorArr'["Update"] /\ ~unseen'["Update"] =>
           /\ \A v \in Vips : AddressDone("Update", v)' => AddressDone("Update", v) \/ v \in lo'
           /\ \A f \in Files : FileDone("Update", f)' =>
                \/ FileDone("Update", f) /\ arp'[f] = arp[f]
                \/ arp'[f] = arpValues[f]["Update"]
  PROVE  UpdateInv'
<1> SUFFICES ASSUME ~errorArr'["Update"], ~unseen'["Update"], ~disturbed'
             PROVE  /\ pc'["Update"] \in {"get", "put"} =>
                         \A s \in Services : s < i'["Update"] => backend'[s] # "absent"
                    /\ ManageLoopback =>
                         /\ \A v \in Vips : AddressDone("Update", v)' => v \in lo'
                         /\ \A f \in Files : FileDone("Update", f)' =>
                              arp'[f] = arpValues[f]["Update"]
  BY Zenon DEF UpdateInv
<1>1. ~errorArr["Update"] /\ ~unseen["Update"] /\ ~disturbed
  BY DEF StepOf
<1>2. ManageLoopback =>
        /\ \A v \in Vips : AddressDone("Update", v) => v \in lo
        /\ \A f \in Files : FileDone("Update", f) => arp[f] = arpValues[f]["Update"]
  BY <1>1, ZenonT(40) DEF UpdateInv
<1>3. pc'["Update"] \in {"get", "put"} => \A s \in Services : ~(s < i'["Update"])
  BY GorbAssumption DEF Loopback, Services
<1> QED BY <1>2, <1>3, ZenonT(60)

\* After a file is written, only the addresses up to this turn's are done.
LEMMA TurnedAddresses ==
  ASSUME NEW k \in Vips, NEW v \in Vips, AddressDone("Update", v)',
         \/ pc'["Update"] = "arp_announce" /\ i'["Update"] = k
         \/ k < NumVips /\ pc'["Update"] = "show" /\ i'["Update"] = k + 1
         \/ k = NumVips /\ pc'["Update"] = "get"
  PROVE  v <= k
BY GorbAssumption DEF AddressDone, Files, Vips

\* The commands of Update, VIP by VIP: the address, then the two files.
LEMMA UpdateLoopbackStep == ASSUME Inv, manageLoopBack("Update") PROVE Inv'
<1> DEFINE k == i["Update"]
<1>0. "Update" \in Callers /\ "Stop" \in Callers
  BY DEF Callers
<1>1. SUFFICES
        ASSUME k \in Vips, ManageLoopback, pc["Update"] \in Loopback,
               UNCHANGED backend, StepOf("Update", "Stop"), result'["Update"] = result["Update"],
               lo \subseteq lo', lo' \subseteq Vips,
               ManageLoopback /\ failures' = 0 /\ ~overlap'
                 => \A v \in Vips : AddressDone("Update", v)' => v \in lo',
               UpdateInv'
        PROVE  Inv'
  <2>1. CASE Show("Update")
    <3>1. /\ k \in Vips /\ pc["Update"] = "show" /\ ManageLoopback
          /\ \/ Goes("Update", "addr", k)
             \/ /\ Goes("Update", "arp_ignore", k)
                /\ k \in lo \/ (failures' # 0 /\ (errorArr'["Update"] \/ unseen'["Update"]))
          /\ UNCHANGED <<backend, lo, arp>> /\ StepOf("Update", "Stop")
      BY <1>0, <2>1, ShowFacts, ZenonT(40) DEF Inv
    <3>2. /\ pc'["Update"] \in Loopback
          /\ \A v \in Vips : AddressDone("Update", v)' =>
               AddressDone("Update", v) \/ (v = k /\ pc'["Update"] = "arp_ignore")
          /\ \A f \in Files : FileDone("Update", f)' => FileDone("Update", f)
      BY <1>0, <3>1, AddressTurn, ZenonT(40) DEF Inv
    <3>3. pc'["Update"] = "arp_ignore" =>
            k \in lo \/ (failures' # 0 /\ (errorArr'["Update"] \/ unseen'["Update"]))
      BY <3>1, Zenon DEF Goes
    <3>4. ManageLoopback /\ failures' = 0 /\ ~overlap'
            => \A v \in Vips : AddressDone("Update", v)' => v \in lo'
      BY <3>1, <3>2, <3>3, ZenonT(40) DEF Inv, OrderInv, StepOf
    <3>5. UpdateInv'
      BY <3>1, <3>2, <3>3, UpdateGoesOn, ZenonT(40) DEF Inv
    <3>6. result'["Update"] = result["Update"] /\ pc["Update"] \in Loopback
      BY <3>1, ZenonT(40) DEF Goes, Loopback
    <3> QED BY <1>1, <3>1, <3>4, <3>5, <3>6 DEF Inv, GorbTypeOK, Sorts
  <2>2. CASE Addr("Update")
    <3>1. /\ k \in Vips /\ pc["Update"] = "addr" /\ ManageLoopback
          /\ Goes("Update", "arp_ignore", k)
          /\ lo' = lo \cup {k} \/ (lo' = lo /\ failures' # 0 /\ errorArr'["Update"])
          /\ UNCHANGED <<backend, arp>> /\ StepOf("Update", "Stop")
      BY <1>0, <2>2, AddrFacts, Zenon DEF Inv
    <3>2. /\ pc'["Update"] \in Loopback
          /\ \A v \in Vips : AddressDone("Update", v)' => AddressDone("Update", v) \/ v = k
          /\ \A f \in Files : FileDone("Update", f)' => FileDone("Update", f)
      BY <1>0, <3>1, AddressTurn, ZenonT(60) DEF Inv
    <3>3. lo \subseteq lo' /\ (k \in lo' \/ (failures' # 0 /\ errorArr'["Update"]))
      BY <3>1
    <3>4. ManageLoopback /\ failures' = 0 /\ ~overlap'
            => \A v \in Vips : AddressDone("Update", v)' => v \in lo'
      BY <3>2, <3>3, <3>1, Zenon DEF Inv, OrderInv, StepOf
    <3>5. UpdateInv'
      BY <3>1, <3>2, <3>3, UpdateGoesOn, ZenonT(40) DEF Inv
    <3>6. /\ result'["Update"] = result["Update"] /\ pc["Update"] \in Loopback
          /\ lo' \subseteq Vips
      BY <3>1 DEF Goes, Loopback, Inv, GorbTypeOK, Sorts
    <3> QED BY <1>1, <3>1, <3>3, <3>4, <3>5, <3>6, ZenonT(60)
  <2>3. ASSUME NEW f \in Files, Tee("Update", f) PROVE Inv'
    <3>1. /\ k \in Vips /\ pc["Update"] = f /\ ManageLoopback
          /\ \/ arp' = [arp EXCEPT ![f] = arpValues[f]["Update"]]
             \/ arp' = arp /\ errorArr'["Update"]
          /\ \/ f = "arp_ignore" /\ Goes("Update", "arp_announce", k)
             \/ f = "arp_announce" /\ k < NumVips /\ Goes("Update", "show", k + 1)
             \/ f = "arp_announce" /\ k = NumVips /\ Goes("Update", AfterLoopback["Update"], 1)
          /\ UNCHANGED <<backend, lo>> /\ StepOf("Update", "Stop")
      BY <1>0, <2>3, TeeFacts, ZenonT(40) DEF Inv
    <3>2. AfterLoopback["Update"] = "get"
      BY Zenon DEF AfterLoopback
    <3>3. \A v \in Vips : AddressDone("Update", v)' => AddressDone("Update", v)
      <4> DEFINE next == pc'["Update"]
                 turn == i'["Update"]
      <4>1. \/ f = "arp_ignore" /\ next = "arp_announce" /\ turn = k
            \/ f = "arp_announce" /\ k < NumVips /\ next = "show" /\ turn = k + 1
            \/ f = "arp_announce" /\ k = NumVips /\ next = "get"
        BY <3>1, <3>2, ZenonT(60) DEF Goes
      <4>2. \A v \in Vips : AddressDone("Update", v)' => v <= k
        BY <3>1, <4>1, TurnedAddresses, Zenon
      <4> QED
        BY <3>1, <4>2, Zenon DEF AddressDone
    <3>4. ManageLoopback /\ failures' = 0 /\ ~overlap'
            => \A v \in Vips : AddressDone("Update", v)' => v \in lo'
      BY <3>1, <3>3, ZenonT(60) DEF Inv, OrderInv, StepOf
    <3>5. ~errorArr'["Update"] =>
            /\ arp'[f] = arpValues[f]["Update"]
            /\ \A g \in Files : g # f => arp'[g] = arp[g]
      BY <3>1, ZenonT(60) DEF Inv, GorbTypeOK, Sorts, Files
    <3>6. \A g \in Files : FileDone("Update", g)' => g = f \/ FileDone("Update", g)
      BY <3>1, <3>2, Zenon DEF FileDone, Goes, Files, Loopback, Vips
    <3>7. pc'["Update"] \in Loopback \/ i'["Update"] = 1
      BY <3>1, <3>2, Zenon DEF Goes, Loopback
    <3>8. UpdateInv'
      BY <3>1, <3>3, <3>5, <3>6, <3>7, UpdateGoesOn, ZenonT(60) DEF Inv
    <3> QED BY <1>1, <3>1, <3>4, <3>8, Zenon DEF Goes, Loopback, Files, Inv, GorbTypeOK, Sorts
  <2> QED BY <2>1, <2>2, <2>3, Zenon DEF manageLoopBack, Files
<1>2. Running("Update") /\ result["Update"] = "none"
  BY <1>1 DEF Inv, CallInv, Running, Callers, Loopback
<1>3. /\ CallInv' /\ StopInv' /\ StopCleansUp' /\ DrainInv'
      /\ ~overlap' => \A s \in Services : ~Drained(s)'
  BY <1>1, <1>2, UpdateSide
<1>4. UpdatedMeansSetUp'
  BY <1>1, <1>2 DEF UpdatedMeansSetUp, Updated
<1>5. OrderInv'
  BY <1>1, <1>3, Zenon DEF OrderInv
<1>6. NoBlackhole'
  BY <1>1, Zenon DEF Inv, NoBlackhole, StepOf
<1> QED
  BY <1>1, <1>3, <1>4, <1>5, <1>6, TypeStep, Zenon DEF Inv, Next, UpdateSteps

-----------------------------------------------------------------------------
(* Stop.  While it runs, Update is disturbed, and idle unless they overlap. *)

\* What a step of Stop need not look at.
LEMMA StopSide ==
  ASSUME Inv, Running("Stop"), StepOf("Stop", "Update"),
         Running("Stop")' => result'["Stop"] = "none"
  PROVE  /\ CallInv' /\ UpdateInv' /\ UpdatedMeansSetUp'
         /\ ~overlap' => \A v \in Vips : ~AddressDone("Update", v)'
<1> USE DEF Inv, StepOf, Kept
<1>1. CallInv'
  BY ZenonT(60) DEF CallInv, Callers, Called, Running
<1>2. disturbed /\ (~overlap => pc'["Update"] = "idle")
  BY Zenon DEF CallInv, Called, Running
<1>3. UpdateInv' /\ UpdatedMeansSetUp'
  BY <1>2 DEF UpdateInv, UpdatedMeansSetUp, Updated
<1>4. ~overlap' => \A v \in Vips : ~AddressDone("Update", v)'
  BY <1>2, Zenon DEF AddressDone, Files
<1> QED
  BY <1>1, <1>3, <1>4, ZenonT(40)

\* No address, and both files written: the loopback is as it was.
LEMMA LoopbackTakenDown ==
  ASSUME GorbTypeOK, \A f \in Files : arp[f] = arpValues[f]["Stop"]
  PROVE  arp = Enabled
<1>1. arp.arp_ignore = 0 /\ arp.arp_announce = 0
  BY DEF Files, arpValues
<1> QED
  BY <1>1 DEF GorbTypeOK, Sorts, Enabled

\* The draining of a backend.
LEMMA ModifyStep == ASSUME Inv, modifyBackend PROVE Inv'
<1> DEFINE k == i["Stop"]
<1>0. "Update" \in Callers /\ "Stop" \in Callers /\ "patch" \in Requests("Stop")
  BY Zenon DEF Callers, Requests
<1>1. /\ k \in Services /\ pc["Stop"] = "patch"
      /\ \/ backend' = [backend EXCEPT ![k] = IF backend[k] = "absent" THEN "absent" ELSE "zero"]
         \/ backend' = backend /\ (failures' # 0 \/ backend[k] = "absent")
      /\ \/ k # NumServices /\ Goes("Stop", "patch", k + 1)
         \/ k = NumServices /\ ManageLoopback /\ Goes("Stop", "show", 1)
         \/ k = NumServices /\ ~ManageLoopback /\ Goes("Stop", "delete", 1)
      /\ UNCHANGED <<lo, arp>> /\ StepOf("Stop", "Update")
  BY <1>0, RequestFacts DEF Inv, modifyBackend
<1>2. Running("Stop") /\ result["Stop"] = "none" /\ result'["Stop"] = "none"
  BY <1>1 DEF Inv, CallInv, Running, Callers, Goes
<1>3. /\ CallInv' /\ UpdateInv' /\ UpdatedMeansSetUp'
      /\ ~overlap' => \A v \in Vips : ~AddressDone("Update", v)'
  BY <1>1, <1>2, StopSide
<1>4. /\ \A s \in Services : backend'[s] = "weight" => backend[s] = "weight"
      /\ failures' = 0 => backend'[k] # "weight"
  BY <1>1, Zenon DEF Inv, GorbTypeOK, Sorts
<1>5. StopInv' /\ StopCleansUp'
  BY <1>1, <1>2
     DEF StopInv, StopCleansUp, Goes, AddressDone, FileDone, Files, Loopback, Services, Vips
<1>6. OrderInv'
  <2> SUFFICES ASSUME ManageLoopback, failures' = 0, ~overlap', NEW s \in Services, Drained(s)'
               PROVE  backend'[s] # "weight"
    BY <1>3, Zenon DEF OrderInv
  <2>1. s < k \/ s = k
    BY <1>1, <1>2 DEF Drained, Goes, Services, Loopback
  <2>2. s < k => backend[s] # "weight"
    BY <1>1, Zenon DEF Inv, OrderInv, Drained, StepOf
  <2> QED BY <1>4, <2>1, <2>2
<1>7. NoBlackhole'
  BY <1>1, <1>4, Zenon DEF Inv, NoBlackhole, StepOf
<1>8. DrainInv'
  BY <1>1, <1>2 DEF DrainInv, Called, Running, Goes, Services
<1> QED
  BY <1>3, <1>5, <1>6, <1>7, <1>8, TypeStep DEF Inv, Next, StopSteps

\* The removal of a backend.
LEMMA RemoveStep == ASSUME Inv, removeBackend PROVE Inv'
<1> DEFINE k == i["Stop"]
<1>0. "Update" \in Callers /\ "Stop" \in Callers /\ "delete" \in Requests("Stop")
  BY Zenon DEF Callers, Requests
<1>1. /\ k \in Services /\ pc["Stop"] = "delete"
      /\ backend' = [backend EXCEPT ![k] = "absent"] \/ (errorArr'["Stop"] /\ backend' = backend)
      /\ \/ k # NumServices /\ Goes("Stop", "delete", k + 1)
         \/ k = NumServices /\ Returns("Stop")
      /\ UNCHANGED <<lo, arp>> /\ StepOf("Stop", "Update")
  BY <1>0, RequestFacts, ZenonT(60) DEF Inv, removeBackend
<1>2. /\ Running("Stop") /\ result["Stop"] = "none"
      /\ Running("Stop")' => result'["Stop"] = "none"
  BY <1>1 DEF Inv, CallInv, Running, Callers, Goes, Returns
<1>3. /\ CallInv' /\ UpdateInv' /\ UpdatedMeansSetUp'
      /\ ~overlap' => \A v \in Vips : ~AddressDone("Update", v)'
  BY <1>1, <1>2, StopSide, Zenon
<1>4. /\ \A s \in Services : backend'[s] = backend[s] \/ backend'[s] = "absent"
      /\ ~errorArr'["Stop"] => backend'[k] = "absent"
  BY <1>1 DEF Inv, GorbTypeOK, Sorts
<1>5. StopInv'
  <2>1. CASE k # NumServices /\ Goes("Stop", "delete", k + 1)
    <3> SUFFICES ASSUME ~errorArr'["Stop"], ~overlap'
                 PROVE  /\ \A s \in Services : s < k + 1 => backend'[s] = "absent"
                        /\ ManageLoopback =>
                             /\ ~unseen'["Stop"] => \A v \in Vips : v \notin lo
                             /\ \A f \in Files : arp[f] = arpValues[f]["Stop"]
      BY <1>1, <2>1, ZenonT(60) DEF StopInv, Goes
    <3>1. ~errorArr["Stop"] /\ ~overlap /\ (~unseen'["Stop"] => ~unseen["Stop"])
      BY <1>1, Zenon DEF StepOf
    <3>2. /\ \A s \in Services : s < k => backend[s] = "absent"
          /\ ManageLoopback =>
               /\ ~unseen["Stop"] => \A v \in Vips : v \notin lo
               /\ \A f \in Files : arp[f] = arpValues[f]["Stop"]
      BY <1>1, <3>1 DEF Inv, StopInv, AddressDone, FileDone
    <3>3. \A s \in Services : s < k + 1 => s < k \/ s = k
      BY <1>1 DEF Services
    <3> QED BY <1>4, <3>1, <3>2, <3>3, ZenonT(60)
  <2>2. CASE Returns("Stop")
    BY <2>2, Zenon DEF StopInv, Returns, AddressDone, FileDone, Files, Loopback
  <2> QED BY <1>1, <2>1, <2>2
<1>6. StopCleansUp'
  <2> SUFFICES ASSUME result'["Stop"] = "nil", ~overlap'
               PROVE  /\ \A s \in Services : backend'[s] = "absent"
                      /\ ManageLoopback => arp = Enabled /\ (unseen'["Stop"] \/ lo = {})
    BY <1>1, Zenon DEF StopCleansUp
  <2>1. k = NumServices /\ ~errorArr'["Stop"] /\ ~errorArr["Stop"] /\ ~overlap
    BY <1>1, <1>2 DEF StepOf, Goes, Returns
  <2>2. \A s \in Services : s < k => backend[s] = "absent"
    BY <1>1, <2>1, ZenonT(60) DEF Inv, StopInv
  <2>3. \A s \in Services : s < k \/ s = k
    BY <2>1, GorbAssumption DEF Services
  <2>4. \A s \in Services : backend'[s] = "absent"
    BY <1>4, <2>1, <2>2, <2>3, Zenon
  <2>5. ManageLoopback =>
          /\ ~unseen["Stop"] => \A v \in Vips : v \notin lo
          /\ \A f \in Files : arp[f] = arpValues[f]["Stop"]
    BY <1>1, <2>1, Zenon DEF Inv, StopInv, AddressDone, FileDone
  <2>6. ~unseen'["Stop"] => ~unseen["Stop"]
    BY <1>1, Zenon DEF StepOf
  <2> QED BY <2>4, <2>5, <2>6, LoopbackTakenDown DEF Inv, GorbTypeOK, Sorts
<1>7. OrderInv'
  BY <1>1, <1>3, <1>4, Zenon DEF Inv, OrderInv, Drained, StepOf
<1>8. NoBlackhole'
  BY <1>1, <1>4, Zenon DEF Inv, NoBlackhole, StepOf
<1>9. DrainInv'
  BY <1>1, <1>2, <1>4, GorbAssumption
     DEF Inv, DrainInv, StepOf, Called, Running, Goes, Returns, Services
<1> QED
  BY <1>3, <1>5, <1>6, <1>7, <1>8, <1>9, TypeStep DEF Inv, Next, StopSteps

\* A command of Stop keeps what it has taken down and adds what it has done.
LEMMA StopGoesOn ==
  ASSUME StopInv, StepOf("Stop", "Update"), lo' \subseteq lo,
         pc'["Stop"] \in Loopback \/ i'["Stop"] = 1,
         ~errorArr'["Stop"] =>
           /\ ~unseen'["Stop"] =>
                \A v \in Vips : AddressDone("Stop", v)' => AddressDone("Stop", v) \/ v \notin lo'
           /\ \A f \in Files : FileDone("Stop", f)' =>
                \/ FileDone("Stop", f) /\ arp'[f] = arp[f]
                \/ arp'[f] = arpValues[f]["Stop"]
  PROVE  StopInv'
<1> SUFFICES ASSUME ~errorArr'["Stop"], ~overlap'
             PROVE  /\ pc'["Stop"] = "delete" =>
                         \A s \in Services : s < i'["Stop"] => backend'[s] = "absent"
                    /\ ManageLoopback =>
                         /\ ~unseen'["Stop"] =>
                              \A v \in Vips : AddressDone("Stop", v)' => v \notin lo'
                         /\ \A f \in Files : FileDone("Stop", f)' =>
                              arp'[f] = arpValues[f]["Stop"]
  BY ZenonT(40) DEF StopInv
<1>1. ~errorArr["Stop"] /\ ~overlap /\ (~unseen'["Stop"] => ~unseen["Stop"])
  BY Zenon DEF StepOf
<1>2. ManageLoopback =>
        /\ ~unseen["Stop"] => \A v \in Vips : AddressDone("Stop", v) => v \notin lo
        /\ \A f \in Files : FileDone("Stop", f) => arp[f] = arpValues[f]["Stop"]
  BY <1>1, ZenonT(40) DEF StopInv
<1>3. pc'["Stop"] = "delete" => \A s \in Services : ~(s < i'["Stop"])
  BY GorbAssumption DEF Loopback, Services
<1> QED BY <1>1, <1>2, <1>3, ZenonT(40)

\* The commands of Stop, VIP by VIP: the address, then the two files.
LEMMA StopLoopbackStep == ASSUME Inv, manageLoopBack("Stop") PROVE Inv'
<1> DEFINE k == i["Stop"]
<1>0. "Update" \in Callers /\ "Stop" \in Callers
  BY DEF Callers
<1>1. SUFFICES
        ASSUME ManageLoopback, pc["Stop"] \in Loopback,
               \/ pc'["Stop"] \in Loopback
               \/ pc'["Stop"] = "delete" /\ i'["Stop"] = 1,
               UNCHANGED backend, StepOf("Stop", "Update"), result'["Stop"] = result["Stop"],
               StopInv'
        PROVE  Inv'
  <2>1. CASE Show("Stop")
    <3>1. /\ k \in Vips /\ pc["Stop"] = "show" /\ ManageLoopback
          /\ \/ Goes("Stop", "addr", k)
             \/ /\ Goes("Stop", "arp_ignore", k)
                /\ k \notin lo \/ errorArr'["Stop"] \/ unseen'["Stop"]
          /\ UNCHANGED <<backend, lo, arp>> /\ StepOf("Stop", "Update")
      BY <1>0, <2>1, ShowFacts DEF Inv
    <3>2. /\ pc'["Stop"] \in Loopback
          /\ \A v \in Vips : AddressDone("Stop", v)' =>
               AddressDone("Stop", v) \/ (v = k /\ pc'["Stop"] = "arp_ignore")
          /\ \A f \in Files : FileDone("Stop", f)' => FileDone("Stop", f)
      BY <1>0, <3>1, AddressTurn, ZenonT(60) DEF Inv
    <3>3. pc'["Stop"] = "arp_ignore" => k \notin lo \/ errorArr'["Stop"] \/ unseen'["Stop"]
      BY <3>1, Zenon DEF Goes
    <3>4. StopInv'
      BY <3>1, <3>2, <3>3, StopGoesOn, ZenonT(40) DEF Inv
    <3> QED BY <1>1, <3>1, <3>2, <3>4, Zenon DEF Goes, Loopback
  <2>2. CASE Addr("Stop")
    <3>1. /\ k \in Vips /\ pc["Stop"] = "addr" /\ ManageLoopback
          /\ Goes("Stop", "arp_ignore", k)
          /\ lo' = lo \ {k} \/ (lo' = lo /\ errorArr'["Stop"])
          /\ UNCHANGED <<backend, arp>> /\ StepOf("Stop", "Update")
      BY <1>0, <2>2, AddrFacts, ZenonT(40) DEF Inv
    <3>2. /\ pc'["Stop"] \in Loopback
          /\ \A v \in Vips : AddressDone("Stop", v)' => AddressDone("Stop", v) \/ v = k
          /\ \A f \in Files : FileDone("Stop", f)' => FileDone("Stop", f)
      BY <1>0, <3>1, AddressTurn, ZenonT(60) DEF Inv
    <3>3. lo' \subseteq lo /\ (k \notin lo' \/ errorArr'["Stop"])
      BY <3>1
    <3>4. StopInv'
      BY <3>1, <3>2, <3>3, StopGoesOn, ZenonT(40) DEF Inv
    <3> QED BY <1>1, <3>1, <3>2, <3>4, ZenonT(40) DEF Goes, Loopback
  <2>3. ASSUME NEW f \in Files, Tee("Stop", f) PROVE Inv'
    <3>1. /\ k \in Vips /\ pc["Stop"] = f /\ ManageLoopback
          /\ arp' = [arp EXCEPT ![f] = arpValues[f]["Stop"]] \/ (arp' = arp /\ errorArr'["Stop"])
          /\ \/ f = "arp_ignore" /\ Goes("Stop", "arp_announce", k)
             \/ f = "arp_announce" /\ k < NumVips /\ Goes("Stop", "show", k + 1)
             \/ f = "arp_announce" /\ k = NumVips /\ Goes("Stop", AfterLoopback["Stop"], 1)
          /\ UNCHANGED <<backend, lo>> /\ StepOf("Stop", "Update")
      BY <1>0, <2>3, TeeFacts, ZenonT(40) DEF Inv
    <3>2. AfterLoopback["Stop"] = "delete"
      BY Zenon DEF AfterLoopback
    <3>3. ASSUME NEW v \in Vips, AddressDone("Stop", v)' PROVE AddressDone("Stop", v)
      <4>1. pc["Stop"] \in Files /\ v \in Nat /\ i["Stop"] \in Nat /\ v <= NumVips
        BY <3>1 DEF Vips
      <4>2. v <= i["Stop"]
        <5>1. CASE Goes("Stop", "arp_announce", k)
          BY <3>3, <5>1, ZenonT(60) DEF AddressDone, Goes, Files
        <5>2. CASE k < NumVips /\ Goes("Stop", "show", k + 1)
          <6>1. v < k + 1
            BY <3>3, <5>2 DEF AddressDone, Goes, Files
          <6> QED
            BY <4>1, <6>1
        <5>3. CASE k = NumVips
          BY <4>1, <5>3
        <5> QED
          BY <3>1, <5>1, <5>2, <5>3, ZenonT(60)
      <4> QED
        BY <4>1, <4>2, Zenon DEF AddressDone
    <3>4. ~errorArr'["Stop"] =>
            /\ arp'[f] = arpValues[f]["Stop"]
            /\ \A g \in Files : g # f => arp'[g] = arp[g]
      BY <3>1, Zenon DEF Inv, GorbTypeOK, Sorts, Files
    <3>5. \A g \in Files : FileDone("Stop", g)' => g = f \/ FileDone("Stop", g)
      BY <3>1, <3>2, ZenonT(40) DEF FileDone, Goes, Files, Loopback, Vips
    <3>6. /\ pc'["Stop"] \in Loopback \/ (pc'["Stop"] = "delete" /\ i'["Stop"] = 1)
          /\ pc["Stop"] \in Loopback /\ result'["Stop"] = result["Stop"]
      BY <3>1, <3>2, Zenon DEF Goes, Loopback, Files
    <3>7. StopInv'
      BY <3>1, <3>3, <3>4, <3>5, <3>6, StopGoesOn, ZenonT(60) DEF Inv
    <3> QED BY <1>1, <3>1, <3>6, <3>7, ZenonT(40)
  <2> QED BY <2>1, <2>2, <2>3, Zenon DEF manageLoopBack, Files
<1>2. Running("Stop") /\ result["Stop"] = "none"
  BY <1>1 DEF Inv, CallInv, Running, Callers, Loopback
<1>3. /\ CallInv' /\ UpdateInv' /\ UpdatedMeansSetUp'
      /\ ~overlap' => \A v \in Vips : ~AddressDone("Update", v)'
  BY <1>1, <1>2, StopSide
<1>4. StopCleansUp'
  BY <1>1, <1>2, Zenon DEF StopCleansUp
<1>5. ManageLoopback /\ failures' = 0 /\ ~overlap' => \A s \in Services : backend'[s] # "weight"
  BY <1>1 DEF Inv, OrderInv, Drained, StepOf
<1>6. OrderInv' /\ NoBlackhole'
  BY <1>3, <1>5 DEF OrderInv, NoBlackhole
<1>7. DrainInv'
  BY <1>1, <1>2 DEF DrainInv, Called, Running, Loopback, Services
<1> QED
  BY <1>1, <1>3, <1>4, <1>6, <1>7, TypeStep DEF Inv, Next, StopSteps

-----------------------------------------------------------------------------
(* Calls, restarts and losses.                                             *)

\* Update is called.
LEMMA UpdateStep == ASSUME Inv, Update PROVE Inv'
<1>0. "Update" \in Callers /\ "Stop" \in Callers
  BY DEF Callers
<1>1. /\ pc["Update"] = "idle" /\ i'["Update"] = 1 /\ result'["Update"] = "none" /\ Kept("Stop")
      /\ pc'["Update"] = First("Update")
      /\ UNCHANGED <<backend, lo, arp, failures>>
  BY <1>0, BeginFacts DEF Inv, Update
<1>2. /\ ~disturbed' => ~Called("Stop")
      /\ ~overlap' => ~overlap /\ ~Called("Stop")
      /\ abandoned' = abandoned
  BY ZenonT(60) DEF Update, Called, Running
<1>3. CallInv'
  BY <1>1, <1>2 DEF Inv, CallInv, Called, Running, Callers, Kept
<1>4. /\ \A v \in Vips : ManageLoopback => ~AddressDone("Update", v)'
      /\ \A f \in Files : ManageLoopback => ~FileDone("Update", f)'
  BY <1>1 DEF First, AddressDone, FileDone, Files, Loopback, Vips
<1>5. UpdateInv' /\ UpdatedMeansSetUp'
  BY <1>1, <1>4 DEF UpdateInv, UpdatedMeansSetUp, Updated, Services
<1>6. /\ \A v \in Vips : AddressDone("Stop", v)' = AddressDone("Stop", v)
      /\ \A f \in Files : FileDone("Stop", f)' = FileDone("Stop", f)
      /\ \A s \in Services : Drained(s)' = Drained(s)
  BY <1>1, ZenonT(40) DEF AddressDone, FileDone, Drained, Kept
<1>7. StopInv'
  BY <1>1, <1>2, <1>6, ZenonT(40) DEF Inv, StopInv, Kept
<1>8. StopCleansUp'
  BY <1>1, <1>2, ZenonT(40) DEF Inv, StopCleansUp, Kept
<1>9. OrderInv'
  BY <1>1, <1>2, <1>4, <1>6 DEF Inv, OrderInv
<1>10. NoBlackhole'
  BY <1>1, <1>2, Zenon DEF Inv, NoBlackhole
<1>11. DrainInv'
  BY <1>1, <1>2 DEF Inv, DrainInv, Called, Running, Kept
<1> QED
  BY <1>3, <1>5, <1>7, <1>8, <1>9, <1>10, <1>11, TypeStep DEF Inv, Next

\* Stop is called.
LEMMA StopStep == ASSUME Inv, Stop PROVE Inv'
<1>0. "Update" \in Callers /\ "Stop" \in Callers
  BY DEF Callers
<1>1. /\ pc["Stop"] = "idle" /\ i'["Stop"] = 1 /\ result'["Stop"] = "none" /\ Kept("Update")
      /\ pc'["Stop"] = First("Stop")
      /\ UNCHANGED <<backend, lo, arp, failures>>
  BY <1>0, BeginFacts DEF Inv, Stop
<1>2. pc'["Stop"] = "patch"
  BY <1>1 DEF First
<1>3. /\ disturbed'
      /\ ~overlap' => ~overlap /\ ~Running("Update")
      /\ abandoned' = abandoned
  BY ZenonT(60) DEF Stop, Running
<1>4. CallInv'
  BY <1>1, <1>2, <1>3, Zenon DEF Inv, CallInv, Called, Running, Callers, Kept
<1>5. UpdateInv' /\ UpdatedMeansSetUp'
  BY <1>3, Zenon DEF UpdateInv, UpdatedMeansSetUp, Updated
<1>6. StopInv' /\ StopCleansUp'
  BY <1>1, <1>2 DEF StopInv, StopCleansUp, AddressDone, FileDone, Files, Loopback
<1>7. /\ \A v \in Vips : AddressDone("Update", v)' <=> AddressDone("Update", v)
      /\ \A s \in Services : ~Drained(s)'
  <2>1. pc'["Update"] = pc["Update"] /\ i'["Update"] = i["Update"]
    BY <1>1 DEF Kept
  <2>2. \A v \in Vips : AddressDone("Update", v)' <=> AddressDone("Update", v)
    BY <2>1, Zenon DEF AddressDone
  <2>3. \A s \in Services : ~(s < 1) /\ "patch" \notin Loopback \cup {"delete"}
    BY DEF Services, Loopback
  <2>4. \A s \in Services : ~Drained(s)'
    BY <1>1, <1>2, <2>3, Zenon DEF Drained
  <2> QED
    BY <2>2, <2>4, Zenon
<1>8. OrderInv'
  BY <1>1, <1>3, <1>7 DEF Inv, OrderInv
<1>9. NoBlackhole'
  BY <1>1, <1>3 DEF Inv, NoBlackhole
<1>10. DrainInv'
  BY <1>1, <1>2 DEF DrainInv, Called, Running
<1> QED
  BY <1>4, <1>5, <1>6, <1>8, <1>9, <1>10, TypeStep, Zenon DEF Inv, Next

\* The program ends and is started again.
LEMMA RestartStep == ASSUME Inv, Restart PROVE Inv'
<1>1. /\ \A p \in Callers : pc'[p] = "idle" /\ result'[p] = "none"
      /\ UNCHANGED <<backend, lo, arp, failures, disturbed, overlap>>
  BY DEF Restart, All
<1>2. ~abandoned' => ~abandoned /\ (~Called("Stop") \/ result["Stop"] = "nil")
  <2>1. ~abandoned' => ~abandoned /\ pc["Stop"] = "idle" /\ result["Stop"] # "error"
    BY ZenonT(60) DEF Restart
  <2> QED BY <2>1 DEF Inv, GorbTypeOK, Sorts, Called, Running, Callers
<1>3. CallInv' /\ UpdatedMeansSetUp' /\ StopCleansUp'
  BY <1>1, Zenon DEF CallInv, Called, Running, UpdatedMeansSetUp, Updated, StopCleansUp, Callers
<1>4. UpdateInv' /\ StopInv'
  BY <1>1, Zenon DEF UpdateInv, StopInv, AddressDone, FileDone, Files, Loopback, Callers
<1>5. OrderInv' /\ NoBlackhole'
  BY <1>1, Zenon DEF Inv, OrderInv, NoBlackhole, AddressDone, Drained, Files, Loopback, Callers
<1>6. DrainInv'
  BY <1>1, <1>2 DEF Inv, DrainInv, Callers
<1> QED
  BY <1>3, <1>4, <1>5, <1>6, TypeStep, Zenon DEF Inv, Next

\* The server loses a backend.
LEMMA LoseStep == ASSUME Inv, Lose PROVE Inv'
<1>1. /\ disturbed'
      /\ UNCHANGED <<lo, arp, pc, i, errorArr, result, unseen, failures, overlap, abandoned>>
  BY Zenon DEF Lose, goVars
<1>2. \A s \in Services : backend'[s] = backend[s] \/ backend'[s] = "absent"
  BY DEF Lose, Inv, GorbTypeOK, Sorts
<1>3. CallInv' /\ UpdateInv' /\ UpdatedMeansSetUp'
  BY <1>1, ZenonT(40) DEF Inv, CallInv, Called, Running, UpdateInv, UpdatedMeansSetUp, Updated
<1>4. StopInv' /\ StopCleansUp'
  BY <1>1, <1>2, ZenonT(40) DEF Inv, StopInv, StopCleansUp, AddressDone, FileDone
<1>5. OrderInv' /\ NoBlackhole'
  BY <1>1, <1>2, Zenon DEF Inv, OrderInv, NoBlackhole, AddressDone, Drained
<1>6. DrainInv'
  BY <1>1, <1>2 DEF Inv, DrainInv, Called, Running
<1> QED
  BY <1>3, <1>4, <1>5, <1>6, TypeStep DEF Inv, Next

\* Every step keeps the invariant.
LEMMA StepInv == Inv /\ [Next]_vars => Inv'
<1> SUFFICES ASSUME Inv, [Next]_vars PROVE Inv'
  OBVIOUS
<1>1. CASE manageLoopBack("Update")
  BY <1>1, UpdateLoopbackStep
<1>2. CASE manageLoopBack("Stop")
  BY <1>2, StopLoopbackStep
<1>3. CASE UNCHANGED vars
  <2>1. /\ UNCHANGED <<backend, lo, arp, pc, i, errorArr, result, unseen>>
        /\ UNCHANGED <<failures, disturbed, overlap, abandoned>>
    BY <1>3 DEF vars, goVars, bounds, history
  <2>2. CallInv' /\ UpdateInv' /\ StopInv'
    BY <2>1, ZenonT(40) DEF Inv, CallInv, UpdateInv, StopInv, Called, Running, AddressDone, FileDone
  <2>3. OrderInv' /\ DrainInv'
    BY <2>1, Zenon DEF Inv, OrderInv, DrainInv, AddressDone, Drained, Called, Running
  <2>4. UpdatedMeansSetUp' /\ StopCleansUp' /\ NoBlackhole'
    BY <2>1 DEF Inv, UpdatedMeansSetUp, StopCleansUp, NoBlackhole, Updated
  <2> QED BY <2>2, <2>3, <2>4, TypeStep, Zenon DEF Inv
<1> QED
  BY <1>1, <1>2, <1>3, UpdateStep, GetStep, AddStep, StopStep, ModifyStep, RemoveStep,
     RestartStep, LoseStep DEF Next, UpdateSteps, StopSteps

LEMMA Invariance == SafetySpec => []Inv
  BY InitInv, StepInv, PTL DEF SafetySpec

\* The variables keep their types: whatever fails or is killed, a request of
\* Update or Stop is about a service, a command about a VIP.
THEOREM GorbTypeCorrect == SafetySpec => []GorbTypeOK
<1>1. Inv => GorbTypeOK
  BY DEF Inv
<1> QED
  BY Invariance, <1>1, PTL

\* An Update of gorb.go that returns nil, unseen failures of its checks and other
\* actors aside, has left a backend for every service, every VIP on the loopback
\* and ARP disabled.
THEOREM UpdateSetsUp == SafetySpec => []UpdatedMeansSetUp
<1>1. Inv => UpdatedMeansSetUp
  BY DEF Inv
<1> QED
  BY Invariance, <1>1, PTL

\* A Stop of gorb.go that returns nil, without an Update beside or after it, has
\* left nothing of the node behind.
THEOREM StopTakesDown == SafetySpec => []StopCleansUp
<1>1. Inv => StopCleansUp
  BY DEF Inv
<1> QED
  BY Invariance, <1>1, PTL

\* The order of the loops of Update and Stop: without failing calls, no backend
\* has its weight while a VIP is missing on the loopback.
THEOREM TrafficFindsItsVip == SafetySpec => []NoBlackhole
<1>1. Inv => NoBlackhole
  BY DEF Inv
<1> QED
  BY Invariance, <1>1, PTL

\* A backend that an Update leaves without weight was drained by a Stop that was
\* killed, or that failed, in an earlier process.
THEOREM DrainedIsAbandoned == SafetySpec => []DrainedOnlyIfAbandoned
<1>1. Inv => DrainedOnlyIfAbandoned
  <2> SUFFICES ASSUME Inv, Updated, ~abandoned, NEW s \in Services PROVE backend[s] = "weight"
    BY DEF DrainedOnlyIfAbandoned
  <2>1. backend[s] # "absent"
    BY DEF Inv, UpdatedMeansSetUp
  <2>2. ~Called("Stop")
    BY DEF Inv, CallInv, Updated
  <2>3. backend[s] # "zero"
    BY <2>2 DEF Inv, DrainInv
  <2> QED BY <2>1, <2>3 DEF Inv, GorbTypeOK, Sorts
<1> QED
  BY Invariance, <1>1, PTL
============================================================================
