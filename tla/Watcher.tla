------------------------------ MODULE Watcher ------------------------------
(***************************************************************************)
(* The path of a change from the Kubernetes informers to the controller's  *)
(* read of the cluster (k8s/informer.go, k8s/event_handler.go,             *)
(* k8s/watcher.go, k8s/client.go, and the receive/read part of             *)
(* controller/controller.go):                                              *)
(*                                                                         *)
(*   informer --> go notify() --> shouldUpdate --tick--> sender goroutine  *)
(*     --> updates (cap 1) --> combiner goroutine --> combined (cap 1)     *)
(*     --> handleUpdates --> GetIngresses, GetServices                     *)
(*                                                                         *)
(* There is one informer, one buffered watcher and one combiner per kind   *)
(* of resource.  A resource is abstracted to a name: the ingress store     *)
(* holds the namespaces that have an ingress, the namespace store the      *)
(* namespaces, the service store the namespaces that have a service.       *)
(***************************************************************************)
EXTENDS Naturals, FiniteSets

CONSTANTS
  Names,          \* the namespaces of the cluster
  Selected,       \* those whose labels match the namespace selectors
  UseSelectors,   \* namespaceSelectors # nil
  MaxEvents       \* bound: watch and resync events after the initial lists

ASSUME WatcherAssumption ==
  /\ IsFiniteSet(Names)
  /\ Selected \subseteq Names
  /\ UseSelectors \in BOOLEAN
  /\ MaxEvents \in Nat

\* watchForUpdates combines exactly these three watchers.
Kinds == {"ingress", "service", "namespace"}

VARIABLES
  store,          \* cache.Store of each kind
  populated,      \* the initial list of the kind has reached its queue
  remaining,      \* items of the initial list that are not yet processed
  informer,       \* "idle", or "notify": store written, handler not called
  events,         \* number of watch events so far (bounded by MaxEvents)
  notifying,      \* goroutines of "go w.notify()" that have not run
  shouldUpdate,   \* bufferedWatcher.shouldUpdate
  senders,        \* goroutines of sendUpdate that have not sent
  updates,        \* items in the watcher's channel
  combiner,       \* "receiving", or "sending" an update it has taken
  combined,       \* items in the combined watcher's channel
  handler,        \* program counter of handleUpdates / updateIngresses
  gotIngresses,   \* updateIngresses: ingresses listed or filtered so far
  view,           \* what the last updateIngresses read, or Failed
  stopCh          \* stopCh has been closed

informerVars == <<store, populated, remaining, informer, events>>
pipeVars     == <<notifying, shouldUpdate, senders, updates, combiner, combined>>
handlerVars  == <<handler, gotIngresses, view>>
vars         == <<informerVars, pipeVars, handlerVars, stopCh>>

ChanCap == 1      \* newBaseWatcher: make(chan interface{}, 1)

HandlerPCs ==
  {"select", "namespacesSynced", "ingressesSynced", "listIngresses",
   "listNamespaces", "servicesSynced", "listServices", "stopped"}

\* updateIngresses returned an error before calling any updater (a read that
\* succeeds has ingresses and services).
Failed == [ingresses |-> {}, services |-> {}]

ReadOf(ing, svc) == [ingresses |-> ing, services |-> svc]

Views == [ingresses : SUBSET Names, services : SUBSET Names]

TypeOK ==
  /\ store \in [Kinds -> SUBSET Names]
  /\ populated \in [Kinds -> BOOLEAN]
  /\ remaining \in [Kinds -> SUBSET Names]
  /\ informer \in [Kinds -> {"idle", "notify"}]
  /\ events \in 0..MaxEvents
  /\ notifying \in [Kinds -> Nat]
  /\ shouldUpdate \in [Kinds -> BOOLEAN]
  /\ senders \in [Kinds -> Nat]
  /\ updates \in [Kinds -> 0..ChanCap]
  /\ combiner \in [Kinds -> {"receiving", "sending"}]
  /\ combined \in 0..ChanCap
  /\ handler \in HandlerPCs
  /\ gotIngresses \in SUBSET Names
  /\ view \in Views
  /\ stopCh \in BOOLEAN

Init ==
  /\ store = [k \in Kinds |-> {}]
  /\ populated = [k \in Kinds |-> FALSE]
  /\ remaining = [k \in Kinds |-> {}]
  /\ informer = [k \in Kinds |-> "idle"]
  /\ events = 0
  /\ notifying = [k \in Kinds |-> 0]
  /\ shouldUpdate = [k \in Kinds |-> FALSE]
  /\ senders = [k \in Kinds |-> 0]
  /\ updates = [k \in Kinds |-> 0]
  /\ combiner = [k \in Kinds |-> "receiving"]
  /\ combined = 0
  /\ handler = "select"
  /\ gotIngresses = {}
  /\ view = Failed
  /\ stopCh = FALSE

-----------------------------------------------------------------------------
(* The informer (client-go, external).  Its queue is locked from the pop of *)
(* an item until the handler has been called, and HasSynced takes the same  *)
(* lock.                                                                    *)

\* The first List of a kind reaches the queue.  A cluster always has
\* namespaces; it may have no ingress and no service.
ListArrives(k) ==
  /\ ~populated[k]
  /\ \E list \in SUBSET Names :
       /\ k = "namespace" => list # {}
       /\ remaining' = [remaining EXCEPT ![k] = list]
  /\ populated' = [populated EXCEPT ![k] = TRUE]
  /\ UNCHANGED <<store, informer, events, pipeVars, handlerVars, stopCh>>

\* An item of the initial list is stored.
InitialItem(k) ==
  /\ informer[k] = "idle"
  /\ \E n \in remaining[k] :
       /\ store' = [store EXCEPT ![k] = @ \cup {n}]
       /\ remaining' = [remaining EXCEPT ![k] = @ \ {n}]
  /\ informer' = [informer EXCEPT ![k] = "notify"]
  /\ UNCHANGED <<populated, events, pipeVars, handlerVars, stopCh>>

\* Mutation: a deletion does not reach the event handler.
WatchEventSilentDelete(k) ==
  /\ populated[k] /\ remaining[k] = {} /\ informer[k] = "idle"
  /\ events < MaxEvents
  /\ events' = events + 1
  /\ \E n \in Names :
       \/ /\ store' = [store EXCEPT ![k] = @ \cup {n}]
          /\ informer' = [informer EXCEPT ![k] = "notify"]
       \/ store' = [store EXCEPT ![k] = @ \ {n}] /\ UNCHANGED informer
  /\ UNCHANGED <<populated, remaining, pipeVars, handlerVars, stopCh>>

\* A watch event adds, changes or deletes an item; a resync repeats one.
WatchEvent(k) ==
  /\ populated[k] /\ remaining[k] = {} /\ informer[k] = "idle"
  /\ events < MaxEvents
  /\ events' = events + 1
  /\ \E n \in Names :
       store' = [store EXCEPT ![k] = @ \cup {n}] \/ store' = [store EXCEPT ![k] = @ \ {n}]
  /\ informer' = [informer EXCEPT ![k] = "notify"]
  /\ UNCHANGED <<populated, remaining, pipeVars, handlerVars, stopCh>>

HasSynced(k) == populated[k] /\ remaining[k] = {}

-----------------------------------------------------------------------------
(* The watchers.                                                            *)

\* OnAdd, OnUpdate, OnDelete: "go w.notify()".
OnEvent(k) ==
  /\ informer[k] = "notify"
  /\ informer' = [informer EXCEPT ![k] = "idle"]
  /\ notifying' = [notifying EXCEPT ![k] = @ + 1]
  /\ UNCHANGED <<store, populated, remaining, events, shouldUpdate, senders,
                 updates, combiner, combined, handlerVars, stopCh>>

bufferUpdate(k) ==
  /\ notifying[k] > 0
  /\ notifying' = [notifying EXCEPT ![k] = @ - 1]
  /\ shouldUpdate' = [shouldUpdate EXCEPT ![k] = TRUE]
  /\ UNCHANGED <<informerVars, senders, updates, combiner, combined,
                 handlerVars, stopCh>>

\* The tick of newBufferedWatcher; a tick without shouldUpdate does nothing.
sendUpdate(k) ==
  /\ shouldUpdate[k]
  /\ shouldUpdate' = [shouldUpdate EXCEPT ![k] = FALSE]
  /\ senders' = [senders EXCEPT ![k] = @ + 1]
  /\ UNCHANGED <<informerVars, notifying, updates, combiner, combined,
                 handlerVars, stopCh>>

\* A sender goroutine's "b.updates <- struct{}{}".
Send(k) ==
  /\ senders[k] > 0 /\ updates[k] < ChanCap
  /\ senders' = [senders EXCEPT ![k] = @ - 1]
  /\ updates' = [updates EXCEPT ![k] = @ + 1]
  /\ UNCHANGED <<informerVars, notifying, shouldUpdate, combiner, combined,
                 handlerVars, stopCh>>

\* Mutation: the namespace watcher is left out of CombineWatchers.
CombinerReceiveTwoKinds(k) ==
  /\ k # "namespace"
  /\ combiner[k] = "receiving" /\ updates[k] > 0
  /\ updates' = [updates EXCEPT ![k] = @ - 1]
  /\ combiner' = [combiner EXCEPT ![k] = "sending"]
  /\ UNCHANGED <<informerVars, notifying, shouldUpdate, senders, combined,
                 handlerVars, stopCh>>

CombinerReceive(k) ==
  /\ combiner[k] = "receiving" /\ updates[k] > 0
  /\ updates' = [updates EXCEPT ![k] = @ - 1]
  /\ combiner' = [combiner EXCEPT ![k] = "sending"]
  /\ UNCHANGED <<informerVars, notifying, shouldUpdate, senders, combined,
                 handlerVars, stopCh>>

CombinerSend(k) ==
  /\ combiner[k] = "sending" /\ combined < ChanCap
  /\ combined' = combined + 1
  /\ combiner' = [combiner EXCEPT ![k] = "receiving"]
  /\ UNCHANGED <<informerVars, notifying, shouldUpdate, senders, updates,
                 handlerVars, stopCh>>

-----------------------------------------------------------------------------
(* handleUpdates and the reads of updateIngresses.  Each store is read under *)
(* its own lock, so informers run between the reads.                         *)

Receive ==
  /\ handler = "select" /\ combined > 0
  /\ combined' = combined - 1
  /\ handler' = "namespacesSynced"
  /\ UNCHANGED <<informerVars, notifying, shouldUpdate, senders, updates,
                 combiner, gotIngresses, view, stopCh>>

\* Mutation: an error leaves the previous result in place.
ReturnErrorKeepsView ==
  /\ handler' = "select" /\ gotIngresses' = {} /\ UNCHANGED view

\* updateIngresses returns an error and handleUpdates selects again.
ReturnError ==
  /\ handler' = "select" /\ view' = Failed /\ gotIngresses' = {}

\* A HasSynced test of kind k: the error return, or on to pc next.
SyncTest(k, next) ==
  /\ informer[k] = "idle"
  /\ IF HasSynced(k)
     THEN handler' = next /\ UNCHANGED <<gotIngresses, view>>
     ELSE ReturnError
  /\ UNCHANGED <<informerVars, pipeVars, stopCh>>

\* Mutation: GetServices does not test HasSynced.
ServicesUnchecked ==
  /\ handler = "servicesSynced" /\ handler' = "listServices"
  /\ UNCHANGED <<informerVars, pipeVars, gotIngresses, view, stopCh>>

NamespacesSynced == handler = "namespacesSynced" /\ SyncTest("namespace", "ingressesSynced")
IngressesSynced == handler = "ingressesSynced" /\ SyncTest("ingress", "listIngresses")
ServicesSynced == handler = "servicesSynced" /\ SyncTest("service", "listServices")

\* GetIngresses has its result: "found 0 ingresses", or on to GetServices.
GotIngresses(result) ==
  IF result = {}
  THEN ReturnError
  ELSE handler' = "servicesSynced" /\ gotIngresses' = result /\ UNCHANGED view

\* ingressStore.List(), returned as it is when there are no selectors.
ListIngresses ==
  /\ handler = "listIngresses"
  /\ IF UseSelectors
     THEN handler' = "listNamespaces" /\ gotIngresses' = store["ingress"] /\ UNCHANGED view
     ELSE GotIngresses(store["ingress"])
  /\ UNCHANGED <<informerVars, pipeVars, stopCh>>

\* The ingresses whose namespace is a stored namespace the selectors match.
FilterIngresses(ingresses, namespaces) == ingresses \cap namespaces \cap Selected

ListNamespaces ==
  /\ handler = "listNamespaces"
  /\ GotIngresses(FilterIngresses(gotIngresses, store["namespace"]))
  /\ UNCHANGED <<informerVars, pipeVars, stopCh>>

\* serviceStore.List(); "found 0 services", or the updaters are called.
ListServices ==
  /\ handler = "listServices"
  /\ IF store["service"] = {}
     THEN ReturnError
     ELSE /\ handler' = "select"
          /\ view' = ReadOf(gotIngresses, store["service"])
          /\ gotIngresses' = {}
  /\ UNCHANGED <<informerVars, pipeVars, stopCh>>

\* "case <-c.stopCh: return"; select may prefer a ready update to it.
HandlerStop ==
  /\ handler = "select" /\ stopCh
  /\ handler' = "stopped"
  /\ UNCHANGED <<informerVars, pipeVars, gotIngresses, view, stopCh>>

\* controller.Stop: close(c.stopCh).
CloseStopCh ==
  /\ ~stopCh
  /\ stopCh' = TRUE
  /\ UNCHANGED <<informerVars, pipeVars, handlerVars>>

-----------------------------------------------------------------------------
Informer(k) == ListArrives(k) \/ InitialItem(k) \/ WatchEvent(k)

Pipe(k) ==
  \/ OnEvent(k) \/ bufferUpdate(k) \/ sendUpdate(k) \/ Send(k)
  \/ CombinerReceive(k) \/ CombinerSend(k)

Handler ==
  \/ Receive \/ NamespacesSynced \/ IngressesSynced \/ ListIngresses
  \/ ListNamespaces \/ ServicesSynced \/ ListServices \/ HandlerStop

Next ==
  \/ \E k \in Kinds : Informer(k) \/ Pipe(k)
  \/ Handler
  \/ CloseStopCh

\* Goroutines, tickers and the informer's queue are scheduled; changes of the
\* cluster and the signal that closes stopCh are not obliged to happen.
Fairness ==
  /\ \A k \in Kinds :
       /\ WF_vars(InitialItem(k))
       /\ WF_vars(OnEvent(k)) /\ WF_vars(bufferUpdate(k)) /\ WF_vars(sendUpdate(k))
       /\ WF_vars(Send(k)) /\ WF_vars(CombinerReceive(k)) /\ WF_vars(CombinerSend(k))
  /\ WF_vars(Handler)

SafetySpec == Init /\ [][Next]_vars
Spec == SafetySpec /\ Fairness

-----------------------------------------------------------------------------
(* What a complete, undisturbed updateIngresses would read now.             *)
CurrentIngresses ==
  IF UseSelectors THEN FilterIngresses(store["ingress"], store["namespace"])
                  ELSE store["ingress"]

Current ==
  IF /\ \A k \in Kinds : HasSynced(k)
     /\ CurrentIngresses # {} /\ store["service"] # {}
  THEN ReadOf(CurrentIngresses, store["service"])
  ELSE Failed

\* A notification of kind k has not reached the combined channel.
Pending(k) ==
  \/ informer[k] = "notify" \/ notifying[k] > 0 \/ shouldUpdate[k]
  \/ senders[k] > 0 \/ updates[k] > 0 \/ combiner[k] = "sending"

AnyPending == combined > 0 \/ \E k \in Kinds : Pending(k)

\* No wake-up is lost between the informers and the controller: whenever the
\* handler waits in select with no notification left anywhere on the path, the
\* last thing it read is what it would read now (k8s/watcher.go coalesces
\* events in shouldUpdate and in two channels of capacity 1).
NoLostWakeup == handler = "select" /\ ~AnyPending => view = Current

\* updateIngresses never lists a store whose initial list is only partly
\* processed: the HasSynced tests of GetIngresses and GetServices protect the
\* List calls that come after them, although informers run in between.
NoPartialList ==
  /\ handler \in {"listIngresses", "listNamespaces", "servicesSynced", "listServices"}
       => HasSynced("namespace") /\ HasSynced("ingress")
  /\ handler = "listServices" => HasSynced("service")

\* A change of the cluster reaches the controller: a stale view is replaced by
\* the current one, unless the controller is stopped first.
EventuallyFresh == (view # Current) ~> (view = Current \/ stopCh)

\* An observation is pending while a notification is on its way, while the
\* handler is reading, and for ever once the handler has returned.
Fresh == INSTANCE FreshView WITH
  Worlds  <- Views,
  world   <- Current,
  pending <- AnyPending \/ handler # "select"

\* The watcher pipeline and the controller's reads (k8s/watcher.go,
\* k8s/client.go) implement the promise stated in FreshView.
ImplementsFreshView == Fresh!Spec
=============================================================================
