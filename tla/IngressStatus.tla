---------------------------- MODULE IngressStatus ----------------------------
(***************************************************************************)
(* The status updaters of feed-ingress (external, elb/elbstatus,           *)
(* nlb/nlbstatus, all through k8s/status/status.go) and UpdateIngressStatus *)
(* of k8s/client.go: several feed instances set the load balancer status   *)
(* of the same ingresses through the Kubernetes API, each from the objects *)
(* of its own informer store.  Entries share those objects, so status.Update *)
(* writes into the store.                                                  *)
(*                                                                         *)
(* The ingresses are those whose scheme has a load balancer; "lb" stands   *)
(* for the list of load balancers that all instances generate for them.    *)
(***************************************************************************)
EXTENDS Naturals

CONSTANTS
  Instances,      \* feed instances with the same load balancers
  Ingresses,
  MaxWrites,      \* bound: writes of an ingress by others
  MaxApiFailures  \* bound: API calls that fail

ASSUME StatusAssumption == MaxWrites \in Nat /\ MaxApiFailures \in Nat

\* A status is the one feed wants, or another.
Statuses == {"other", "lb"}

VARIABLES
  api,       \* the ingresses in the API server
  stores,    \* those in each instance's informer store
  entry,     \* Update: the objects that its entries point to
  todo,      \* Update: ingresses not looked at yet
  call,      \* program counter of UpdateIngressStatus
  current,   \* UpdateIngressStatus: ingress and version of currentIng
  errors,    \* Update: updateErrors is not empty
  health,    \* result of the last Update
  writes, apiFailures

statusVars == <<api, stores, entry, todo, call, current, errors, health, writes, apiFailures>>

Objects == [version : Nat, status : Statuses]

StatusTypeOK ==
  /\ api \in [Ingresses -> Objects]
  /\ stores \in [Instances -> [Ingresses -> Objects]]
  /\ entry \in [Instances -> [Ingresses -> Objects]]
  /\ todo \in [Instances -> SUBSET Ingresses]
  /\ call \in [Instances -> {"idle", "next", "get", "put", "conflict"}]
  /\ current \in [Instances -> [ingress : Ingresses, version : Nat]]
  /\ errors \in [Instances -> BOOLEAN]
  /\ health \in [Instances -> {"nil", "error"}]
  /\ writes \in 0..MaxWrites /\ apiFailures \in 0..MaxApiFailures

StatusInit ==
  /\ api = [g \in Ingresses |-> [version |-> 0, status |-> "other"]]
  /\ stores = [i \in Instances |-> api]
  /\ entry = stores
  /\ todo = [i \in Instances |-> {}]
  /\ call = [i \in Instances |-> "idle"]
  /\ \E g \in Ingresses : current = [i \in Instances |-> [ingress |-> g, version |-> 0]]
  /\ errors = [i \in Instances |-> FALSE]
  /\ health = [i \in Instances |-> "nil"]
  /\ writes = 0 /\ apiFailures = 0

ApiFails == apiFailures < MaxApiFailures /\ apiFailures' = apiFailures + 1

\* The API server: a write of what is there does not make a new version.
Put(g, s) ==
  api' = IF api[g].status = s THEN api
         ELSE [api EXCEPT ![g] = [version |-> @.version + 1, status |-> s]]

\* statusUnchanged and ingressStatusEqual against what feed wants.
statusUnchanged(status) == status = "lb"
ingressStatusEqual(status) == status = "lb"

-----------------------------------------------------------------------------
(* status.Update                                                            *)

\* Mutant: the entries of the first update are used again.
UpdateOldEntries(i) ==
  /\ call[i] = "idle"
  /\ todo' = [todo EXCEPT ![i] = Ingresses]
  /\ errors' = [errors EXCEPT ![i] = FALSE]
  /\ call' = [call EXCEPT ![i] = "next"]
  /\ UNCHANGED <<api, stores, entry, current, health, writes, apiFailures>>

\* The controller builds the entries from the store.
StatusUpdate(i) ==
  /\ call[i] = "idle"
  /\ entry' = [entry EXCEPT ![i] = stores[i]]
  /\ todo' = [todo EXCEPT ![i] = Ingresses]
  /\ errors' = [errors EXCEPT ![i] = FALSE]
  /\ call' = [call EXCEPT ![i] = "next"]
  /\ UNCHANGED <<api, stores, current, health, writes, apiFailures>>

\* One turn of the loop: nothing if statusUnchanged; else the object is changed,
\* which is the store's unless the informer has replaced it, and
\* UpdateIngressStatus is called.
NextIngress(i) ==
  /\ call[i] = "next"
  /\ \E g \in todo[i] :
       /\ todo' = [todo EXCEPT ![i] = @ \ {g}]
       /\ IF statusUnchanged(entry[i][g].status)
          THEN UNCHANGED <<stores, entry, call, current>>
          ELSE /\ entry' = [entry EXCEPT ![i][g].status = "lb"]
               /\ stores' = IF stores[i][g].version = entry[i][g].version
                           THEN [stores EXCEPT ![i][g].status = "lb"]
                           ELSE stores
               /\ current' = [current EXCEPT ![i].ingress = g]
               /\ call' = [call EXCEPT ![i] = "get"]
  /\ UNCHANGED <<api, errors, health, writes, apiFailures>>

UpdateReturns(i) ==
  /\ call[i] = "next" /\ todo[i] = {}
  /\ call' = [call EXCEPT ![i] = "idle"]
  /\ health' = [health EXCEPT ![i] = IF errors[i] THEN "error" ELSE "nil"]
  /\ UNCHANGED <<api, stores, entry, todo, current, errors, writes, apiFailures>>

-----------------------------------------------------------------------------
(* UpdateIngressStatus                                                      *)

\* UpdateIngressStatus returns; its error is appended to updateErrors.
CallReturns(i, err) ==
  /\ call' = [call EXCEPT ![i] = "next"]
  /\ errors' = [errors EXCEPT ![i] = @ \/ err]

GetIngress(i) ==
  /\ call[i] = "get"
  /\ \/ /\ current' = [current EXCEPT ![i].version = api[current[i].ingress].version]
        /\ call' = [call EXCEPT ![i] = "put"]
        /\ UNCHANGED <<errors, apiFailures>>
     \/ ApiFails /\ CallReturns(i, TRUE) /\ UNCHANGED current
  /\ UNCHANGED <<api, stores, entry, todo, health, writes>>

\* UpdateStatus: applied, refused with a conflict, or another error (which may
\* have been applied).
UpdateStatus(i) ==
  /\ call[i] = "put"
  /\ LET g == current[i].ingress
         unchanged == api[g].version = current[i].version
     IN \/ /\ unchanged /\ Put(g, "lb") /\ CallReturns(i, FALSE)
           /\ UNCHANGED apiFailures
        \/ /\ ~unchanged /\ call' = [call EXCEPT ![i] = "conflict"]
           /\ UNCHANGED <<api, errors, apiFailures>>
        \/ /\ ApiFails /\ CallReturns(i, TRUE)
           /\ UNCHANGED api \/ (unchanged /\ Put(g, "lb"))
  /\ UNCHANGED <<stores, entry, todo, current, health, writes>>

\* Mutant: a conflict is an error like any other.
ConflictIsError(i) ==
  /\ call[i] = "conflict"
  /\ CallReturns(i, TRUE)
  /\ UNCHANGED <<api, stores, entry, todo, current, health, writes, apiFailures>>

\* After a conflict: no error if another instance has made the change.
HandleConflict(i) ==
  /\ call[i] = "conflict"
  /\ \/ CallReturns(i, ~ingressStatusEqual(api[current[i].ingress].status)) /\ UNCHANGED apiFailures
     \/ ApiFails /\ CallReturns(i, TRUE)
  /\ UNCHANGED <<api, stores, entry, todo, current, health, writes>>

-----------------------------------------------------------------------------
\* The informer (external) replaces an object that has a new version, and only
\* such a one: a resync repeats what is in the store.
Deliver(i) ==
  /\ \E g \in Ingresses :
       /\ stores[i][g].version < api[g].version
       /\ stores' = [stores EXCEPT ![i][g] = api[g]]
  /\ UNCHANGED <<api, entry, todo, call, current, errors, health, writes, apiFailures>>

\* Somebody else writes the ingress: its status, or anything else.
Write ==
  /\ writes < MaxWrites /\ writes' = writes + 1
  /\ \E g \in Ingresses, s \in Statuses :
       api' = [api EXCEPT ![g] = [version |-> @.version + 1, status |-> s]]
  /\ UNCHANGED <<stores, entry, todo, call, current, errors, health, apiFailures>>

Feed(i) ==
  \/ StatusUpdate(i) \/ NextIngress(i) \/ UpdateReturns(i)
  \/ GetIngress(i) \/ UpdateStatus(i) \/ HandleConflict(i)

StatusNext == Write \/ \E i \in Instances : Feed(i) \/ Deliver(i)

\* Every instance runs, is called again at every resync, and its informer delivers.
StatusFairness == \A i \in Instances : WF_statusVars(Feed(i)) /\ WF_statusVars(Deliver(i))

StatusSafetySpec == StatusInit /\ [][StatusNext]_statusVars
StatusSpec == StatusSafetySpec /\ StatusFairness

-----------------------------------------------------------------------------
\* However instances race for the same ingresses, none reports an error unless a
\* call fails or somebody else writes: a conflict means that another instance has
\* made the change (updateIngressAndHandleConflicts).
PeersDoNotFail ==
  apiFailures = 0 /\ writes = 0 => \A i \in Instances : ~errors[i] /\ health[i] = "nil"

\* Without failures of calls, conflicts with other writers included, every ingress
\* has the load balancer status in the end: whatever refused the write makes the
\* informer deliver an object that is not skipped.
EventuallySet == [](apiFailures = 0) => <>[](\A g \in Ingresses : api[g].status = "lb")

\* "The updater will then set the ingress status to the load balancer's DNS name"
\* (README, Ingress status), also when one call to the API fails.
StatusIsSet == <>[](\A g \in Ingresses : api[g].status = "lb")
==============================================================================
