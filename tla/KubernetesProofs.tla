------------------------- MODULE KubernetesProofs -------------------------
(***************************************************************************)
(* Proofs about the two parts that talk to the Kubernetes API: Watcher,    *)
(* which reads it, for every set of names, every selection and every bound *)
(* on the number of events, and IngressStatus, which writes to it, for     *)
(* every set of instances and of ingresses.                                *)
(***************************************************************************)
EXTENDS Watcher, IngressStatus, TLAPS

-----------------------------------------------------------------------------
(* Watcher.                                                                *)

\* Initial lists: nothing is stored or left over before the list arrives.
ListInv ==
  \A k \in Kinds : ~populated[k] => store[k] = {} /\ remaining[k] = {}

\* What handleUpdates knows at each point of updateIngresses.  What it read
\* may be stale only while a notification is on its way.
ReadInv ==
  /\ handler = "ingressesSynced" => HasSynced("namespace")
  /\ NoPartialList
  /\ handler = "listNamespaces" =>
       UseSelectors /\ (AnyPending \/ gotIngresses = store["ingress"])
  /\ handler \in {"servicesSynced", "listServices"} =>
       gotIngresses # {} /\ (AnyPending \/ gotIngresses = CurrentIngresses)
  /\ NoLostWakeup

\* The inductive invariant.
Inv == TypeOK /\ ListInv /\ ReadInv

-----------------------------------------------------------------------------
\* The initial state is well typed.
LEMMA TypeInit == Init => TypeOK
<1> SUFFICES ASSUME Init PROVE TypeOK
  OBVIOUS
<1>1. populated \in [Kinds -> BOOLEAN] /\ shouldUpdate \in [Kinds -> BOOLEAN]
      /\ stopCh \in BOOLEAN
  BY Zenon DEF Init
<1>2. store \in [Kinds -> SUBSET Names] /\ remaining \in [Kinds -> SUBSET Names]
  BY DEF Init
<1>3. /\ informer \in [Kinds -> {"idle", "notify"}]
      /\ combiner \in [Kinds -> {"receiving", "sending"}]
      /\ handler \in HandlerPCs
  BY DEF Init, HandlerPCs
<1>4. /\ events \in 0..MaxEvents /\ combined \in 0..ChanCap
      /\ notifying \in [Kinds -> Nat] /\ senders \in [Kinds -> Nat]
      /\ updates \in [Kinds -> 0..ChanCap]
  BY WatcherAssumption DEF Init, ChanCap
<1>5. gotIngresses \in SUBSET Names /\ view \in Views
  BY DEF Init, Views, Failed
<1> QED BY <1>1, <1>2, <1>3, <1>4, <1>5 DEF TypeOK

\* Every step keeps the variables in their types.
LEMMA TypeStep == TypeOK /\ [Next]_vars => TypeOK'
<1> SUFFICES ASSUME TypeOK, [Next]_vars PROVE TypeOK'
  OBVIOUS
<1> USE WatcherAssumption DEF TypeOK, ChanCap
<1>1. ASSUME NEW k \in Kinds, Informer(k) PROVE TypeOK'
  <2>1. CASE ListArrives(k)
    BY <2>1 DEF ListArrives, pipeVars, handlerVars
  <2>2. CASE InitialItem(k)
    BY <2>2 DEF InitialItem, pipeVars, handlerVars
  <2>3. CASE WatchEvent(k)
    BY <2>3 DEF WatchEvent, pipeVars, handlerVars
  <2> QED BY <1>1, <2>1, <2>2, <2>3 DEF Informer
<1>2. ASSUME NEW k \in Kinds, Pipe(k) PROVE TypeOK'
  <2>1. CASE OnEvent(k)
    BY <2>1 DEF OnEvent, handlerVars
  <2>2. CASE bufferUpdate(k)
    BY <2>2 DEF bufferUpdate, informerVars, handlerVars
  <2>3. CASE sendUpdate(k)
    BY <2>3 DEF sendUpdate, informerVars, handlerVars
  <2>4. CASE Send(k)
    BY <2>4 DEF Send, informerVars, handlerVars
  <2>5. CASE CombinerReceive(k)
    BY <2>5 DEF CombinerReceive, informerVars, handlerVars
  <2>6. CASE CombinerSend(k)
    BY <2>6 DEF CombinerSend, informerVars, handlerVars
  <2> QED BY <1>2, <2>1, <2>2, <2>3, <2>4, <2>5, <2>6 DEF Pipe
<1>3. ASSUME Handler PROVE TypeOK'
  <2> USE DEF HandlerPCs, ReturnError, Views, Failed, informerVars, pipeVars
  <2>1. CASE Receive
    BY <2>1 DEF Receive
  <2>2. CASE NamespacesSynced
    BY <2>2 DEF NamespacesSynced, SyncTest
  <2>3. CASE IngressesSynced
    BY <2>3 DEF IngressesSynced, SyncTest
  <2>4. CASE ListIngresses
    BY <2>4 DEF ListIngresses, GotIngresses, Kinds
  <2>5. CASE ListNamespaces
    BY <2>5 DEF ListNamespaces, GotIngresses, FilterIngresses
  <2>6. CASE ServicesSynced
    BY <2>6 DEF ServicesSynced, SyncTest
  <2>7. CASE ListServices
    BY <2>7 DEF ListServices, ReadOf, Kinds
  <2>8. CASE HandlerStop
    BY <2>8 DEF HandlerStop
  <2> QED BY <1>3, <2>1, <2>2, <2>3, <2>4, <2>5, <2>6, <2>7, <2>8 DEF Handler
<1>4. CASE CloseStopCh
  BY <1>4 DEF CloseStopCh, informerVars, pipeVars, handlerVars
<1>5. CASE UNCHANGED vars
  BY <1>5 DEF vars, informerVars, pipeVars, handlerVars
<1> QED BY <1>1, <1>2, <1>3, <1>4, <1>5 DEF Next

\* The variables of the pipeline keep their types in every behaviour.
THEOREM TypeCorrect == SafetySpec => []TypeOK
BY TypeInit, TypeStep, PTL DEF SafetySpec


-----------------------------------------------------------------------------
\* A step of the watchers hands the notification on; it never ends it.
LEMMA PipeKeepsPending ==
  ASSUME TypeOK, NEW k \in Kinds, Pipe(k) PROVE AnyPending'
<1> USE DEF TypeOK, ChanCap, AnyPending, Pending
<1>1. CASE OnEvent(k)
  BY <1>1 DEF OnEvent
<1>2. CASE bufferUpdate(k)
  <2>1. shouldUpdate'[k] = TRUE
    BY <1>2, Zenon DEF bufferUpdate
  <2> QED BY <2>1, Zenon
<1>3. CASE sendUpdate(k)
  BY <1>3 DEF sendUpdate
<1>4. CASE Send(k)
  BY <1>4 DEF Send
<1>5. CASE CombinerReceive(k)
  BY <1>5 DEF CombinerReceive
<1>6. CASE CombinerSend(k)
  BY <1>6 DEF CombinerSend
<1> QED BY <1>1, <1>2, <1>3, <1>4, <1>5, <1>6 DEF Pipe

\* A change of a store is followed by a notification.
LEMMA StoreMakesPending ==
  ASSUME TypeOK, NEW k \in Kinds, InitialItem(k) \/ WatchEvent(k)
  PROVE AnyPending'
BY DEF TypeOK, InitialItem, WatchEvent, AnyPending, Pending

\* A kind that has synced stays synced, whatever the informers do.
LEMMA SyncedStable ==
  ASSUME TypeOK, ListInv, NEW k \in Kinds, Informer(k), NEW j \in Kinds, HasSynced(j)
  PROVE HasSynced(j)'
<1>1. CASE ListArrives(k)
  BY <1>1 DEF TypeOK, ListArrives, HasSynced
<1>2. CASE InitialItem(k)
  BY <1>2 DEF TypeOK, InitialItem, HasSynced
<1>3. CASE WatchEvent(k)
  BY <1>3 DEF TypeOK, WatchEvent, HasSynced
<1> QED BY <1>1, <1>2, <1>3 DEF Informer

\* The arrival of an initial list, even an empty one, which makes HasSynced
\* true without any event, does not change what a read would return.
LEMMA ListKeepsCurrent ==
  ASSUME TypeOK, ListInv, NEW k \in Kinds, ListArrives(k)
  PROVE Current' = Current /\ CurrentIngresses' = CurrentIngresses
<1>1. UNCHANGED store
  BY DEF ListArrives
<1>2. CurrentIngresses' = CurrentIngresses
  BY <1>1 DEF CurrentIngresses, FilterIngresses
<1>3. Current = Failed
  BY DEF ListArrives, Current, HasSynced
<1>4. store[k] = {}
  BY DEF ListArrives, ListInv
<1>5. CASE k = "namespace"
  <2>1. ~HasSynced("namespace")'
    BY <1>5 DEF ListArrives, HasSynced, TypeOK
  <2> QED BY <1>2, <1>3, <2>1 DEF Current, Kinds, Failed
<1>6. CASE k = "ingress"
  <2>1. CurrentIngresses' = {}
    BY <1>2, <1>4, <1>6 DEF CurrentIngresses, FilterIngresses
  <2> QED BY <1>2, <1>3, <2>1 DEF Current, Failed
<1>7. CASE k = "service"
  BY <1>1, <1>2, <1>3, <1>4, <1>7 DEF Current, Failed
<1> QED BY <1>5, <1>6, <1>7 DEF Kinds

-----------------------------------------------------------------------------
\* The initial state satisfies the inductive invariant.
LEMMA InitInv == Init => Inv
<1> SUFFICES ASSUME Init PROVE Inv
  OBVIOUS
<1>1. TypeOK
  BY TypeInit
<1>2. ListInv
  BY DEF Init, ListInv
<1>3. Current = Failed
  BY DEF Init, Current, Kinds
<1>4. ReadInv
  BY <1>3 DEF Init, ReadInv, NoPartialList, NoLostWakeup
<1> QED BY <1>1, <1>2, <1>4 DEF Inv

\* Every step of an informer preserves the invariant.
LEMMA InformerInv ==
  ASSUME Inv, TypeOK', NEW k \in Kinds, Informer(k) PROVE Inv'
<1>1. ListInv'
  BY DEF Inv, TypeOK, ListInv, Informer, ListArrives, InitialItem, WatchEvent
<1>2. handler' = handler /\ gotIngresses' = gotIngresses /\ view' = view
  BY DEF Informer, ListArrives, InitialItem, WatchEvent, handlerVars
<1>3. \A j \in Kinds : HasSynced(j) => HasSynced(j)'
  BY SyncedStable DEF Inv
<1>4. (handler = "ingressesSynced" => HasSynced("namespace"))' /\ NoPartialList'
  BY <1>2, <1>3 DEF Inv, ReadInv, NoPartialList, Kinds
<1>5. CASE ListArrives(k)
  <2>1. Current' = Current /\ CurrentIngresses' = CurrentIngresses /\ store' = store
    BY <1>5, ListKeepsCurrent, Zenon DEF Inv, ListArrives
  <2>2. AnyPending' = AnyPending
    BY <1>5 DEF ListArrives, pipeVars, AnyPending, Pending
  <2>3. ReadInv'
    BY <1>2, <1>4, <2>1, <2>2 DEF Inv, ReadInv, NoLostWakeup
  <2> QED BY <1>1, <2>3 DEF Inv
<1>6. CASE InitialItem(k) \/ WatchEvent(k)
  <2>1. AnyPending'
    BY <1>6, StoreMakesPending DEF Inv
  <2>2. ReadInv'
    BY <1>2, <1>4, <2>1, Zenon DEF Inv, ReadInv, NoLostWakeup
  <2> QED BY <1>1, <2>2 DEF Inv
<1> QED BY <1>5, <1>6 DEF Informer

\* Every step of the watchers preserves the invariant.
LEMMA PipeInv ==
  ASSUME Inv, TypeOK', NEW k \in Kinds, Pipe(k) PROVE Inv'
<1>1. /\ UNCHANGED <<handler, gotIngresses, view, store, populated, remaining>>
  BY DEF Pipe, OnEvent, bufferUpdate, sendUpdate, Send, CombinerReceive,
         CombinerSend, handlerVars, informerVars
<1>2. AnyPending'
  BY PipeKeepsPending DEF Inv
<1>3. ListInv'
  BY <1>1 DEF Inv, ListInv
<1>4. \A j \in Kinds : HasSynced(j)' = HasSynced(j)
  BY <1>1, Zenon DEF HasSynced
<1>5. ReadInv'
  BY <1>1, <1>2, <1>4 DEF Inv, ReadInv, NoPartialList, NoLostWakeup, Kinds
<1> QED BY <1>3, <1>5 DEF Inv

\* A step of the handler that returns an error leaves a view that is current.
LEMMA ErrorInv ==
  ASSUME Inv, TypeOK', ReturnError, UNCHANGED <<informerVars, pipeVars>>,
         AnyPending \/ Current = Failed
  PROVE Inv'
<1>1. ListInv'
  BY DEF Inv, ListInv, informerVars
<1>2. Current' = Current
  BY DEF Current, CurrentIngresses, HasSynced, informerVars
<1>3. AnyPending' = AnyPending
  BY DEF AnyPending, Pending, informerVars, pipeVars
<1>4. ReadInv'
  BY <1>2, <1>3 DEF ReturnError, ReadInv, NoPartialList, NoLostWakeup
<1> QED BY <1>1, <1>4 DEF Inv

\* Every step of the handler preserves the invariant.
LEMMA HandlerInv == ASSUME Inv, TypeOK', Handler PROVE Inv'
<1> USE DEF Inv
<1>1. CASE Receive
  <2>1. UNCHANGED informerVars /\ handler' = "namespacesSynced"
    BY <1>1 DEF Receive
  <2>2. ListInv'
    BY <2>1 DEF ListInv, informerVars
  <2>3. ReadInv'
    BY <2>1, Zenon DEF ReadInv, NoPartialList, NoLostWakeup
  <2> QED BY <2>2, <2>3
<1>2. ASSUME UNCHANGED <<informerVars, pipeVars>>
      PROVE /\ ListInv'
            /\ AnyPending' = AnyPending
            /\ Current' = Current /\ CurrentIngresses' = CurrentIngresses
            /\ \A k \in Kinds : HasSynced(k)' = HasSynced(k) /\ store'[k] = store[k]
  BY <1>2 DEF ListInv, AnyPending, Pending, Current, CurrentIngresses, HasSynced,
              informerVars, pipeVars
<1>3. ASSUME NEW k \in Kinds, NEW next, SyncTest(k, next), ~HasSynced(k)
      PROVE Inv'
  <2>1. Current = Failed
    BY <1>3 DEF Current
  <2> QED BY <1>3, <2>1, ErrorInv DEF SyncTest
<1>4. CASE NamespacesSynced
  <2>1. CASE HasSynced("namespace")
    <3>1. handler' = "ingressesSynced" /\ UNCHANGED <<informerVars, pipeVars>>
      BY <1>4, <2>1 DEF NamespacesSynced, SyncTest
    <3> QED BY <1>2, <2>1, <3>1 DEF ReadInv, NoPartialList, NoLostWakeup, Kinds
  <2>2. CASE ~HasSynced("namespace")
    BY <1>3, <1>4, <2>2 DEF NamespacesSynced, Kinds
  <2> QED BY <2>1, <2>2
<1>5. CASE IngressesSynced
  <2>1. CASE HasSynced("ingress")
    <3>1. /\ handler = "ingressesSynced" /\ handler' = "listIngresses"
          /\ UNCHANGED <<informerVars, pipeVars>>
      BY <1>5, <2>1 DEF IngressesSynced, SyncTest
    <3> QED BY <1>2, <2>1, <3>1 DEF ReadInv, NoPartialList, NoLostWakeup, Kinds
  <2>2. CASE ~HasSynced("ingress")
    BY <1>3, <1>5, <2>2 DEF IngressesSynced, Kinds
  <2> QED BY <2>1, <2>2
<1>6. CASE ServicesSynced
  <2>1. CASE HasSynced("service")
    <3>1. /\ handler = "servicesSynced" /\ handler' = "listServices"
          /\ UNCHANGED <<informerVars, pipeVars, gotIngresses>>
      BY <1>6, <2>1 DEF ServicesSynced, SyncTest
    <3> QED BY <1>2, <2>1, <3>1 DEF ReadInv, NoPartialList, NoLostWakeup, Kinds
  <2>2. CASE ~HasSynced("service")
    BY <1>3, <1>6, <2>2 DEF ServicesSynced, Kinds
  <2> QED BY <2>1, <2>2
\* GetIngresses ends with a result that is stale only if something is pending.
<1>7. ASSUME NEW result, GotIngresses(result), UNCHANGED <<informerVars, pipeVars>>,
             HasSynced("namespace"), HasSynced("ingress"),
             AnyPending \/ result = CurrentIngresses
      PROVE Inv'
  <2>1. CASE result = {}
    <3>1. AnyPending \/ Current = Failed
      BY <1>7, <2>1 DEF Current
    <3> QED BY <1>7, <2>1, <3>1, ErrorInv DEF GotIngresses
  <2>2. CASE result # {}
    <3>1. handler' = "servicesSynced" /\ gotIngresses' = result
      BY <1>7, <2>2 DEF GotIngresses
    <3> QED BY <1>2, <1>7, <2>2, <3>1 DEF ReadInv, NoPartialList, NoLostWakeup, Kinds
  <2> QED BY <2>1, <2>2
<1>8. CASE ListIngresses
  <2>1. /\ HasSynced("namespace") /\ HasSynced("ingress")
        /\ handler = "listIngresses" /\ UNCHANGED <<informerVars, pipeVars>>
    BY <1>8 DEF ListIngresses, ReadInv, NoPartialList
  <2>2. CASE UseSelectors
    <3>1. handler' = "listNamespaces" /\ gotIngresses' = store["ingress"]
      BY <1>8, <2>2 DEF ListIngresses
    <3> QED BY <1>2, <2>1, <2>2, <3>1 DEF ReadInv, NoPartialList, NoLostWakeup, Kinds
  <2>3. CASE ~UseSelectors
    <3>1. GotIngresses(store["ingress"]) /\ CurrentIngresses = store["ingress"]
      BY <1>8, <2>3 DEF ListIngresses, CurrentIngresses
    <3> QED BY <1>7, <2>1, <3>1
  <2> QED BY <2>2, <2>3, Zenon
<1>9. CASE ListNamespaces
  <2> DEFINE result == FilterIngresses(gotIngresses, store["namespace"])
  <2>1. /\ HasSynced("namespace") /\ HasSynced("ingress") /\ UseSelectors
        /\ AnyPending \/ gotIngresses = store["ingress"]
        /\ GotIngresses(result) /\ UNCHANGED <<informerVars, pipeVars>>
    BY <1>9 DEF ListNamespaces, ReadInv, NoPartialList
  <2>2. AnyPending \/ result = CurrentIngresses
    BY <2>1 DEF CurrentIngresses
  <2> HIDE DEF result
  <2> QED BY <1>7, <2>1, <2>2, Zenon
<1>10. CASE ListServices
  <2>1. /\ HasSynced("namespace") /\ HasSynced("ingress") /\ HasSynced("service")
        /\ gotIngresses # {} /\ (AnyPending \/ gotIngresses = CurrentIngresses)
        /\ UNCHANGED <<informerVars, pipeVars>>
    BY <1>10 DEF ListServices, ReadInv, NoPartialList
  <2>2. CASE store["service"] = {}
    <3>1. Current = Failed
      BY <2>2 DEF Current
    <3> QED BY <1>10, <2>1, <2>2, <3>1, ErrorInv DEF ListServices
  <2>3. CASE store["service"] # {}
    <3>1. handler' = "select" /\ view' = ReadOf(gotIngresses, store["service"])
      BY <1>10, <2>3 DEF ListServices
    <3>2. AnyPending \/ Current = ReadOf(gotIngresses, store["service"])
      BY <2>1, <2>3, Zenon DEF Current, Kinds
    <3> QED BY <1>2, <2>1, <3>1, <3>2 DEF ReadInv, NoPartialList, NoLostWakeup
  <2> QED BY <2>2, <2>3
<1>11. CASE HandlerStop
  <2>1. handler' = "stopped" /\ UNCHANGED <<informerVars, pipeVars>>
    BY <1>11 DEF HandlerStop
  <2> QED BY <1>2, <2>1 DEF ReadInv, NoPartialList, NoLostWakeup
<1> QED BY <1>1, <1>4, <1>5, <1>6, <1>8, <1>9, <1>10, <1>11 DEF Handler

\* Inv is inductive.
LEMMA StepInv == Inv /\ [Next]_vars => Inv'
<1> SUFFICES ASSUME Inv, [Next]_vars PROVE Inv'
  OBVIOUS
<1>1. TypeOK'
  BY TypeStep, Zenon DEF Inv
<1>2. CASE UNCHANGED <<informerVars, pipeVars, handlerVars>>
  BY <1>1, <1>2, Zenon DEF Inv, ListInv, ReadInv, NoPartialList, NoLostWakeup, HasSynced,
     AnyPending, Pending, Current, CurrentIngresses, informerVars, pipeVars, handlerVars
<1>3. CASE CloseStopCh
  BY <1>2, <1>3 DEF CloseStopCh
<1>4. CASE UNCHANGED vars
  BY <1>2, <1>4 DEF vars
<1> QED BY <1>1, <1>3, <1>4, InformerInv, PipeInv, HandlerInv DEF Next

\* Inv holds in every reachable state.
LEMMA Invariance == SafetySpec => []Inv
BY InitInv, StepInv, PTL DEF SafetySpec

\* No wake-up is lost (k8s/watcher.go), whatever the number of resources,
\* events, and goroutines waiting to send.
THEOREM NoWakeupIsLost == SafetySpec => []NoLostWakeup
<1>1. Inv => NoLostWakeup
  BY DEF Inv, ReadInv
<1> QED BY <1>1, Invariance, PTL

\* No partly filled store is listed (k8s/client.go, the HasSynced tests).
THEOREM ListsAreComplete == SafetySpec => []NoPartialList
<1>1. Inv => NoPartialList
  BY Zenon DEF Inv, ReadInv
<1> QED BY <1>1, Invariance, PTL

-----------------------------------------------------------------------------
\* What a read would return is a view.
LEMMA CurrentIsView == TypeOK => Current \in Views
BY WatcherAssumption DEF TypeOK, Current, Views, ReadOf, Failed, CurrentIngresses, FilterIngresses, Kinds

\* Every step is a step of FreshView, or leaves its variables unchanged.
LEMMA StepRefines == Inv /\ [Next]_vars => [Fresh!Next]_(Fresh!vars)
<1> SUFFICES ASSUME Inv, [Next]_vars PROVE [Fresh!Next]_(Fresh!vars)
  OBVIOUS
<1> DEFINE P == AnyPending \/ handler # "select"
<1>1. Inv' /\ TypeOK /\ TypeOK'
  BY StepInv, Zenon DEF Inv
<1>2. Current \in Views /\ Current' \in Views /\ view' \in Views
  <2>1. TypeOK' => Current' \in Views
    BY WatcherAssumption, Zenon DEF TypeOK, Current, Views, ReadOf, Failed, CurrentIngresses,
       FilterIngresses, Kinds
  <2> QED BY <1>1, <2>1, CurrentIsView DEF TypeOK
<1>3. ASSUME P', UNCHANGED view PROVE Fresh!Change
  BY <1>2, <1>3 DEF Fresh!Change
<1>4. ASSUME P, Current' = Current PROVE Fresh!Observe
  <2>1. ~P' => view' = Current
    BY <1>1, <1>4 DEF Inv, ReadInv, NoLostWakeup
  <2> QED BY <1>2, <1>4, <2>1, Zenon DEF Fresh!Observe
<1>5. ASSUME NEW k \in Kinds, Informer(k) PROVE [Fresh!Next]_(Fresh!vars)
  <2>1. CASE ListArrives(k)
    <3>1. Current' = Current
      BY <2>1, ListKeepsCurrent DEF Inv
    <3>2. UNCHANGED <<view, P>>
      BY <2>1 DEF ListArrives, pipeVars, handlerVars, AnyPending, Pending
    <3> QED BY <3>1, <3>2 DEF Fresh!vars
  <2>2. CASE InitialItem(k) \/ WatchEvent(k)
    <3>1. AnyPending' /\ UNCHANGED view
      BY <1>1, <2>2, StoreMakesPending, Zenon DEF InitialItem, WatchEvent, handlerVars
    <3> QED BY <1>3, <3>1, Zenon DEF Fresh!Next
  <2> QED BY <1>5, <2>1, <2>2 DEF Informer
<1>6. ASSUME NEW k \in Kinds, Pipe(k) PROVE [Fresh!Next]_(Fresh!vars)
  <2>1. AnyPending' /\ UNCHANGED view
    BY <1>1, <1>6, PipeKeepsPending DEF Pipe, OnEvent, bufferUpdate, sendUpdate,
       Send, CombinerReceive, CombinerSend, handlerVars
  <2> QED BY <1>3, <2>1, Zenon DEF Fresh!Next
<1>7. ASSUME Handler PROVE [Fresh!Next]_(Fresh!vars)
  <2>1. CASE HandlerStop
    <3>1. handler' = "stopped" /\ UNCHANGED view
      BY <2>1 DEF HandlerStop
    <3> QED BY <1>3, <3>1 DEF Fresh!Next
  <2>2. CASE ~HandlerStop
    <3>1. P
      BY <1>7, <2>2, ZenonT(40) DEF Handler, Receive, NamespacesSynced, IngressesSynced,
         ListIngresses, ListNamespaces, ServicesSynced, ListServices, AnyPending
    <3>2. UNCHANGED informerVars
      BY <1>7, ZenonT(40) DEF Handler, Receive, NamespacesSynced, IngressesSynced, SyncTest,
         ListIngresses, ListNamespaces, ServicesSynced, ListServices, HandlerStop
    <3>3. Current' = Current
      BY <3>2, Zenon DEF informerVars, Current, CurrentIngresses, HasSynced
    <3> QED BY <1>4, <3>1, <3>3 DEF Fresh!Next
  <2> QED BY <2>1, <2>2
<1>8. CASE UNCHANGED <<informerVars, pipeVars, handlerVars>>
  <2>1. UNCHANGED <<view, Current, P>>
    BY <1>8, Zenon DEF informerVars, pipeVars, handlerVars, Current, CurrentIngresses, HasSynced,
       AnyPending, Pending
  <2> QED BY <2>1 DEF Fresh!vars
<1>9. CASE CloseStopCh
  BY <1>8, <1>9 DEF CloseStopCh
<1>10. CASE UNCHANGED vars
  BY <1>8, <1>10 DEF vars
<1> QED BY <1>5, <1>6, <1>7, <1>9, <1>10 DEF Next

\* The pipeline and the controller's reads implement FreshView: every change
\* of what would be read is announced, and an observation that leaves nothing
\* pending has seen the stores as they are.
THEOREM RefinesFreshView == SafetySpec => ImplementsFreshView
<1>1. Init => Fresh!Init
  <2> SUFFICES ASSUME Init PROVE Fresh!Init
    OBVIOUS
  <2>1. ~AnyPending
    <3>1. \A k \in Kinds : ~shouldUpdate[k]
      BY Zenon DEF Init
    <3> QED BY <3>1 DEF Init, AnyPending, Pending
  <2>2. Current = Failed /\ view = Failed
    BY DEF Init, Current, Kinds
  <2> QED BY <2>1, <2>2, TypeInit, CurrentIsView DEF Fresh!Init, Init
<1> QED BY <1>1, StepRefines, Invariance, PTL DEF SafetySpec, ImplementsFreshView, Fresh!Spec

-----------------------------------------------------------------------------
(* Ingress status.                                                         *)

\* As long as nobody else writes, an ingress whose version has changed since an
\* instance read it has been changed by another instance, and for good.
PeerWrote(n) ==
  LET g == current[n].ingress IN
  /\ call[n] = "put" => api[g].version = current[n].version \/ api[g].status = "lb"
  /\ call[n] = "conflict" => api[g].status = "lb"

ConflictInv == writes = 0 => \A n \in Instances : PeerWrote(n)

StatusInv == StatusTypeOK /\ ConflictInv /\ PeersDoNotFail

\* The bounds are what the module assumes of them, and the types of what SMT
\* reasons about; errors is a function into the Booleans.
StatusSorts ==
  /\ MaxWrites \in Nat /\ MaxApiFailures \in Nat
  /\ api \in [Ingresses -> Objects]
  /\ stores \in [Instances -> [Ingresses -> Objects]]
  /\ entry \in [Instances -> [Ingresses -> Objects]]
  /\ todo \in [Instances -> SUBSET Ingresses]
  /\ call \in [Instances -> {"idle", "next", "get", "put", "conflict"}]
  /\ current \in [Instances -> [ingress : Ingresses, version : Nat]]
  /\ health \in [Instances -> {"nil", "error"}]
  /\ writes \in 0..MaxWrites /\ apiFailures \in 0..MaxApiFailures

StatusFlags == errors \in [Instances -> BOOLEAN]

\* The invariant holds before the first Update.
LEMMA StatusInvInit == StatusInit => StatusInv
<1> SUFFICES ASSUME StatusInit PROVE StatusInv
  OBVIOUS
<1>1. StatusSorts
  BY StatusAssumption DEF StatusInit, StatusSorts, Objects, Statuses
<1>2. StatusFlags
  BY DEF StatusInit, StatusFlags
<1>3. ConflictInv /\ PeersDoNotFail
  BY DEF StatusInit, ConflictInv, PeerWrote, PeersDoNotFail
<1> QED
  BY <1>1, <1>2, <1>3, Zenon DEF StatusInv, StatusTypeOK, StatusSorts, StatusFlags

\* status.Update leaves an object of the stores an object.
LEMMA SetStatus == ASSUME NEW o \in Objects PROVE [o EXCEPT !.status = "lb"] \in Objects
  BY DEF Objects, Statuses

\* A write of a status leaves objects in the API server.
LEMMA PutType ==
  ASSUME api \in [Ingresses -> Objects], NEW g \in Ingresses, NEW s \in Statuses, Put(g, s)
  PROVE  api' \in [Ingresses -> Objects]
<1>1. [version |-> api[g].version + 1, status |-> s] \in Objects
  BY DEF Objects
<1> QED
  BY <1>1 DEF Put

\* A write of the wanted status makes no other change.
LEMMA PutSets ==
  ASSUME StatusSorts, NEW g \in Ingresses, Put(g, "lb")
  PROVE  \A h \in Ingresses : api'[h] = api[h] \/ api'[h].status = "lb"
BY DEF Put, StatusSorts

\* Every step keeps the types.
LEMMA StatusSortsStep == StatusSorts /\ [StatusNext]_statusVars => StatusSorts'
<1> SUFFICES ASSUME StatusSorts, [StatusNext]_statusVars PROVE StatusSorts'
  OBVIOUS
<1> USE DEF StatusSorts, Objects, Statuses
<1>1. ASSUME NEW n \in Instances, StatusUpdate(n) PROVE StatusSorts'
  BY <1>1, Zenon DEF StatusUpdate
<1>2. ASSUME NEW n \in Instances, NextIngress(n) PROVE StatusSorts'
  <2>1. UNCHANGED <<api, health, writes, apiFailures>>
    BY <1>2 DEF NextIngress
  <2>2. PICK g \in todo[n] :
          /\ todo' = [todo EXCEPT ![n] = @ \ {g}]
          /\ IF statusUnchanged(entry[n][g].status)
             THEN UNCHANGED <<stores, entry, call, current>>
             ELSE /\ entry' = [entry EXCEPT ![n][g].status = "lb"]
                  /\ stores' = IF stores[n][g].version = entry[n][g].version
                              THEN [stores EXCEPT ![n][g].status = "lb"]
                              ELSE stores
                  /\ current' = [current EXCEPT ![n].ingress = g]
                  /\ call' = [call EXCEPT ![n] = "get"]
    BY <1>2, Zenon DEF NextIngress
  <2>3. g \in Ingresses /\ todo' \in [Instances -> SUBSET Ingresses]
    BY <2>2
  <2>4. entry' \in [Instances -> [Ingresses -> Objects]]
    <3>1. [entry[n][g] EXCEPT !.status = "lb"] \in Objects
      BY <2>3, SetStatus
    <3>2. [entry[n] EXCEPT ![g].status = "lb"] \in [Ingresses -> Objects]
      BY <2>3, <3>1
    <3> QED
      BY <2>2, <3>2, ZenonT(60)
  <2>5. stores' \in [Instances -> [Ingresses -> Objects]]
    <3>1. [stores[n][g] EXCEPT !.status = "lb"] \in Objects
      BY <2>3, SetStatus
    <3>2. [stores[n] EXCEPT ![g].status = "lb"] \in [Ingresses -> Objects]
      BY <2>3, <3>1
    <3> QED
      BY <2>2, <3>2, ZenonT(40)
  <2>6. current' \in [Instances -> [ingress : Ingresses, version : Nat]]
    <3>1. [current[n] EXCEPT !.ingress = g] \in [ingress : Ingresses, version : Nat]
      BY <2>3, ZenonT(40)
    <3>2. CASE current' = current
      BY <3>2
    <3>3. CASE current' = [current EXCEPT ![n].ingress = g]
      BY <3>1, <3>3
    <3> QED
      BY <2>2, <3>2, <3>3
  <2>7. call' \in [Instances -> {"idle", "next", "get", "put", "conflict"}]
    BY <2>2, Zenon
  <2> QED
    BY <2>1, <2>3, <2>4, <2>5, <2>6, <2>7
<1>3. ASSUME NEW n \in Instances, UpdateReturns(n) PROVE StatusSorts'
  BY <1>3 DEF UpdateReturns
<1>4. ASSUME NEW n \in Instances, GetIngress(n) PROVE StatusSorts'
  <2>1. [current[n] EXCEPT !.version = api[current[n].ingress].version]
          \in [ingress : Ingresses, version : Nat]
    BY ZenonT(40)
  <2>2. current' \in [Instances -> [ingress : Ingresses, version : Nat]]
    BY <1>4, <2>1, ZenonT(40) DEF GetIngress
  <2>3. call' \in [Instances -> {"idle", "next", "get", "put", "conflict"}]
    BY <1>4, ZenonT(40) DEF GetIngress, CallReturns
  <2>4. UNCHANGED <<api, stores, entry, todo, health, writes>>
    BY <1>4 DEF GetIngress
  <2>5. UNCHANGED apiFailures \/ ApiFails
    BY <1>4, Zenon DEF GetIngress
  <2>6. apiFailures' \in 0..MaxApiFailures
    BY <2>5 DEF ApiFails
  <2> QED
    BY <2>2, <2>3, <2>4, <2>6
<1>5. ASSUME NEW n \in Instances, UpdateStatus(n) PROVE StatusSorts'
  <2>1. UNCHANGED api \/ Put(current[n].ingress, "lb")
    BY <1>5, Zenon DEF UpdateStatus
  <2>2. api' \in [Ingresses -> Objects]
    BY <2>1, PutType, Zenon DEF Put
  <2>3. call' \in [Instances -> {"idle", "next", "get", "put", "conflict"}]
    BY <1>5, ZenonT(40) DEF UpdateStatus, CallReturns
  <2>4. UNCHANGED <<stores, entry, todo, current, health, writes>>
    BY <1>5, Zenon DEF UpdateStatus
  <2>5. UNCHANGED apiFailures \/ ApiFails
    BY <1>5, Zenon DEF UpdateStatus
  <2>6. apiFailures' \in 0..MaxApiFailures
    BY <2>5 DEF ApiFails
  <2> QED
    BY <2>2, <2>3, <2>4, <2>6
<1>6. ASSUME NEW n \in Instances, HandleConflict(n) PROVE StatusSorts'
  <2>1. call' \in [Instances -> {"idle", "next", "get", "put", "conflict"}]
    BY <1>6, ZenonT(40) DEF HandleConflict, CallReturns
  <2>2. UNCHANGED <<api, stores, entry, todo, current, health, writes>>
    BY <1>6 DEF HandleConflict
  <2>3. UNCHANGED apiFailures \/ ApiFails
    BY <1>6, Zenon DEF HandleConflict
  <2>4. apiFailures' \in 0..MaxApiFailures
    BY <2>3 DEF ApiFails
  <2> QED
    BY <2>1, <2>2, <2>4
<1>7. ASSUME NEW n \in Instances, Deliver(n) PROVE StatusSorts'
  BY <1>7 DEF Deliver
<1>8. CASE Write
  BY <1>8 DEF Write
<1>9. CASE UNCHANGED statusVars
  BY <1>9 DEF statusVars
<1> QED
  BY <1>1, <1>2, <1>3, <1>4, <1>5, <1>6, <1>7, <1>8, <1>9, ZenonT(60) DEF StatusNext, Feed

\* Every step keeps errors a function into the Booleans.
LEMMA StatusFlagsStep == StatusFlags /\ [StatusNext]_statusVars => StatusFlags'
<1> SUFFICES ASSUME StatusFlags, [StatusNext]_statusVars PROVE StatusFlags'
  OBVIOUS
<1> USE DEF StatusFlags
<1>1. ASSUME NEW n \in Instances, StatusUpdate(n) PROVE StatusFlags'
  BY <1>1 DEF StatusUpdate
<1>2. ASSUME NEW n \in Instances, NextIngress(n) PROVE StatusFlags'
  BY <1>2 DEF NextIngress, statusUnchanged
<1>3. ASSUME NEW n \in Instances, UpdateReturns(n) PROVE StatusFlags'
  BY <1>3, Zenon DEF UpdateReturns
<1>4. ASSUME NEW n \in Instances, GetIngress(n) PROVE StatusFlags'
  BY <1>4, Zenon DEF GetIngress, ApiFails, CallReturns
<1>5. ASSUME NEW n \in Instances, UpdateStatus(n) PROVE StatusFlags'
  BY <1>5, Zenon DEF UpdateStatus, Put, ApiFails, CallReturns
<1>6. ASSUME NEW n \in Instances, HandleConflict(n) PROVE StatusFlags'
  BY <1>6, ZenonT(60) DEF HandleConflict, ingressStatusEqual, ApiFails, CallReturns
<1>7. ASSUME NEW n \in Instances, Deliver(n) PROVE StatusFlags'
  BY <1>7 DEF Deliver
<1>8. CASE Write
  BY <1>8 DEF Write
<1>9. CASE UNCHANGED statusVars
  BY <1>9, Zenon DEF statusVars
<1> QED
  BY <1>1, <1>2, <1>3, <1>4, <1>5, <1>6, <1>7, <1>8, <1>9, Zenon DEF StatusNext, Feed

\* A step keeps ConflictInv if statuses change to the wanted one only, and the
\* calls that are past Get go on with what they have read.
LEMMA ConflictFrame ==
  ASSUME StatusSorts, ConflictInv, writes' = writes,
         \A g \in Ingresses : api'[g] = api[g] \/ api'[g].status = "lb",
         \A m \in Instances : \/ call'[m] \notin {"put", "conflict"}
                              \/ call'[m] = call[m] /\ current'[m] = current[m]
                              \/ PeerWrote(m)'
  PROVE  ConflictInv'
<1> SUFFICES ASSUME writes = 0, NEW m \in Instances PROVE PeerWrote(m)'
  BY DEF ConflictInv
<1>1. PeerWrote(m) /\ current[m].ingress \in Ingresses
  BY ZenonT(40) DEF ConflictInv, StatusSorts
<1>2. CASE call'[m] \notin {"put", "conflict"}
  BY <1>2, ZenonT(40) DEF PeerWrote
<1>3. CASE call'[m] = call[m] /\ current'[m] = current[m]
  <2>1. \/ api'[current[m].ingress] = api[current[m].ingress]
        \/ api'[current[m].ingress].status = "lb"
    BY <1>1, ZenonT(40)
  <2> QED
    BY <1>1, <1>3, <2>1, ZenonT(40) DEF PeerWrote
<1> QED
  BY <1>2, <1>3

\* A call that goes to p concerns its instance only.
LEMMA OneCall ==
  ASSUME StatusSorts, NEW n \in Instances, NEW p, call' = [call EXCEPT ![n] = p]
  PROVE  call'[n] = p /\ \A m \in Instances : m # n => call'[m] = call[m]
  BY DEF StatusSorts

\* So does what it remembers.
LEMMA OneCurrent ==
  ASSUME StatusSorts, NEW n \in Instances, NEW c, current' = [current EXCEPT ![n] = c]
  PROVE  current'[n] = c /\ \A m \in Instances : m # n => current'[m] = current[m]
  BY DEF StatusSorts

\* A conflict keeps meaning that a peer has made the change.
LEMMA ConflictStep == StatusSorts /\ ConflictInv /\ [StatusNext]_statusVars => ConflictInv'
<1> SUFFICES ASSUME StatusSorts, ConflictInv, [StatusNext]_statusVars PROVE ConflictInv'
  BY Zenon
<1>1. ASSUME NEW n \in Instances, StatusUpdate(n) PROVE ConflictInv'
  <2>1. call' = [call EXCEPT ![n] = "next"] /\ UNCHANGED <<api, current, writes>>
    BY <1>1 DEF StatusUpdate
  <2> QED
    BY <2>1, OneCall, ConflictFrame, Zenon
<1>2. ASSUME NEW n \in Instances, NextIngress(n) PROVE ConflictInv'
  <2>1. UNCHANGED <<api, writes>>
    BY <1>2 DEF NextIngress
  <2>2. \/ UNCHANGED <<call, current>>
        \/ /\ call' = [call EXCEPT ![n] = "get"]
           /\ \E g \in todo[n] :
                current' = [current EXCEPT ![n] = [current[n] EXCEPT !.ingress = g]]
    BY <1>2 DEF NextIngress
  <2>3. CASE UNCHANGED <<call, current>>
    BY <2>1, <2>3, ConflictFrame
  <2>4. CASE call' = [call EXCEPT ![n] = "get"]
    <3>1. \A m \in Instances : m # n => current'[m] = current[m]
      BY <2>2, OneCurrent
    <3> QED
      BY <2>1, <2>4, <3>1, OneCall, ConflictFrame, ZenonT(40)
  <2> QED
    BY <2>2, <2>3, <2>4
<1>3. ASSUME NEW n \in Instances, UpdateReturns(n) PROVE ConflictInv'
  <2>1. call' = [call EXCEPT ![n] = "idle"] /\ UNCHANGED <<api, current, writes>>
    BY <1>3, Zenon DEF UpdateReturns
  <2> QED
    BY <2>1, OneCall, ConflictFrame
<1>4. ASSUME NEW n \in Instances, GetIngress(n) PROVE ConflictInv'
  <2> DEFINE g == current[n].ingress
  <2>1. UNCHANGED <<api, writes>>
    BY <1>4 DEF GetIngress
  <2>2. CASE /\ current' = [current EXCEPT ![n] = [current[n] EXCEPT !.version = api[g].version]]
             /\ call' = [call EXCEPT ![n] = "put"]
    <3>1. /\ current'[n] = [current[n] EXCEPT !.version = api[g].version]
          /\ \A m \in Instances : m # n => current'[m] = current[m]
      BY <2>2, OneCurrent, Zenon
    <3>2. current'[n].ingress = g /\ current'[n].version = api[g].version
      BY <3>1 DEF StatusSorts
    <3>3. call'[n] = "put" /\ \A m \in Instances : m # n => call'[m] = call[m]
      BY <2>2, OneCall, ZenonT(40)
    <3>4. PeerWrote(n)'
      BY <2>1, <3>2, <3>3, Zenon DEF PeerWrote
    <3> QED
      BY <2>1, <3>1, <3>3, <3>4, ConflictFrame
  <2>3. CASE CallReturns(n, TRUE) /\ UNCHANGED current
    BY <2>1, <2>3, OneCall, ConflictFrame DEF CallReturns
  <2> QED
    BY <1>4, <2>2, <2>3, Zenon DEF GetIngress
<1>5. ASSUME NEW n \in Instances, UpdateStatus(n) PROVE ConflictInv'
  <2> DEFINE g == current[n].ingress
  <2>1. UNCHANGED <<current, writes>>
    BY <1>5, ZenonT(40) DEF UpdateStatus
  <2>2. call[n] = "put" /\ g \in Ingresses
    BY <1>5 DEF UpdateStatus, StatusSorts
  <2>3. CASE /\ ~(api[g].version = current[n].version) /\ UNCHANGED api
             /\ call' = [call EXCEPT ![n] = "conflict"]
    <3>1. call'[n] = "conflict" /\ \A m \in Instances : m # n => call'[m] = call[m]
      BY <2>3, OneCall, ZenonT(40)
    <3>2. CASE writes = 0
      <4>1. PeerWrote(n)'
        BY <2>1, <2>2, <2>3, <3>1, <3>2, ZenonT(40) DEF ConflictInv, PeerWrote
      <4> QED
        BY <2>1, <2>3, <3>1, <4>1, ConflictFrame, Zenon
    <3>3. CASE writes # 0
      BY <2>1, <3>3 DEF ConflictInv
    <3> QED
      BY <3>2, <3>3
  <2>4. ASSUME NEW err \in BOOLEAN, CallReturns(n, err), UNCHANGED api \/ Put(g, "lb")
        PROVE  ConflictInv'
    <3>1. \A h \in Ingresses : api'[h] = api[h] \/ api'[h].status = "lb"
      BY <2>2, <2>4, PutSets, Zenon
    <3> QED
      BY <2>1, <2>4, <3>1, OneCall, ConflictFrame, ZenonT(40) DEF CallReturns
  <2> QED
    BY <1>5, <2>3, <2>4, Zenon DEF UpdateStatus
<1>6. ASSUME NEW n \in Instances, HandleConflict(n) PROVE ConflictInv'
  <2>1. call' = [call EXCEPT ![n] = "next"] /\ UNCHANGED <<api, current, writes>>
    BY <1>6, ZenonT(40) DEF HandleConflict, CallReturns
  <2> QED
    BY <2>1, OneCall, ConflictFrame
<1>7. ASSUME NEW n \in Instances, Deliver(n) PROVE ConflictInv'
  <2>1. UNCHANGED <<api, call, current, writes>>
    BY <1>7 DEF Deliver
  <2> QED
    BY <2>1, ConflictFrame, ZenonT(40)
<1>8. CASE Write
  <2>1. writes' # 0
    BY <1>8 DEF Write, StatusSorts
  <2> QED
    BY <2>1, Zenon DEF ConflictInv
<1>9. CASE UNCHANGED statusVars
  <2>1. UNCHANGED <<api, call, current, writes>>
    BY <1>9, Zenon DEF statusVars
  <2> QED
    BY <2>1, ConflictFrame
<1> QED
  BY <1>1, <1>2, <1>3, <1>4, <1>5, <1>6, <1>7, <1>8, <1>9 DEF StatusNext, Feed

\* A step keeps PeersDoNotFail if it reports nothing, or something has failed.
LEMMA PeersFrame ==
  ASSUME StatusSorts, StatusFlags, PeersDoNotFail, writes' = writes,
         apiFailures' = apiFailures \/ ApiFails,
         apiFailures' = apiFailures /\ writes = 0 => \A m \in Instances :
           (errors'[m] => errors[m]) /\ (health'[m] = health[m] \/ health'[m] = "nil")
  PROVE  PeersDoNotFail'
<1>1. ApiFails => apiFailures' # 0
  BY DEF ApiFails, StatusSorts
<1>2. CASE apiFailures' = apiFailures
  BY <1>2 DEF PeersDoNotFail
<1> QED
  BY <1>1, <1>2, Zenon DEF PeersDoNotFail

\* An error that is returned concerns its instance only.
LEMMA OneError ==
  ASSUME StatusFlags, NEW n \in Instances, NEW err \in BOOLEAN, CallReturns(n, err), ~err
  PROVE  \A m \in Instances : errors'[m] => errors[m]
  BY DEF CallReturns, StatusFlags

\* No step reports an error while nothing fails and nobody else writes.
LEMMA PeersStep ==
  StatusSorts /\ StatusFlags /\ ConflictInv /\ PeersDoNotFail /\ [StatusNext]_statusVars
    => PeersDoNotFail'
<1> SUFFICES ASSUME StatusSorts, StatusFlags, ConflictInv, PeersDoNotFail, [StatusNext]_statusVars
             PROVE  PeersDoNotFail'
  BY SMTT(60)
<1>1. ASSUME NEW n \in Instances, StatusUpdate(n) PROVE PeersDoNotFail'
  <2>1. UNCHANGED <<health, writes, apiFailures>> /\ errors' = [errors EXCEPT ![n] = FALSE]
    BY <1>1 DEF StatusUpdate
  <2>2. \A m \in Instances : errors'[m] => errors[m]
    BY <2>1 DEF StatusFlags
  <2> QED
    BY <2>1, <2>2, PeersFrame, Zenon
<1>2. ASSUME NEW n \in Instances, NextIngress(n) PROVE PeersDoNotFail'
  <2>1. UNCHANGED <<health, writes, apiFailures, errors>>
    BY <1>2 DEF NextIngress
  <2> QED
    BY <2>1, PeersFrame
<1>3. ASSUME NEW n \in Instances, UpdateReturns(n) PROVE PeersDoNotFail'
  <2>1. /\ UNCHANGED <<errors, writes, apiFailures>>
        /\ health' = [health EXCEPT ![n] = IF errors[n] THEN "error" ELSE "nil"]
    BY <1>3 DEF UpdateReturns
  <2>2. CASE apiFailures = 0 /\ writes = 0
    <3>1. ~errors[n]
      BY <2>2, Zenon DEF PeersDoNotFail
    <3>2. \A m \in Instances : health'[m] = health[m] \/ health'[m] = "nil"
      BY <2>1, <3>1 DEF StatusSorts
    <3> QED
      BY <2>1, <3>2, PeersFrame, Zenon
  <2>3. CASE ~(apiFailures = 0 /\ writes = 0)
    BY <2>1, <2>3 DEF PeersDoNotFail
  <2> QED
    BY <2>2, <2>3, Zenon
<1>4. ASSUME NEW n \in Instances, GetIngress(n) PROVE PeersDoNotFail'
  <2>1. UNCHANGED <<health, writes>>
    BY <1>4 DEF GetIngress
  <2>2. UNCHANGED <<errors, apiFailures>> \/ ApiFails
    BY <1>4, ZenonT(60) DEF GetIngress
  <2>3. ApiFails => apiFailures' # apiFailures
    BY DEF ApiFails, StatusSorts
  <2> QED
    BY <2>1, <2>2, <2>3, PeersFrame
<1>5. ASSUME NEW n \in Instances, UpdateStatus(n) PROVE PeersDoNotFail'
  <2>1. UNCHANGED <<health, writes>>
    BY <1>5, Zenon DEF UpdateStatus
  <2>2. \/ UNCHANGED <<errors, apiFailures>>
        \/ CallReturns(n, FALSE) /\ UNCHANGED apiFailures
        \/ ApiFails
    BY <1>5, Zenon DEF UpdateStatus
  <2>3. ApiFails => apiFailures' # apiFailures
    BY DEF ApiFails, StatusSorts
  <2> QED
    BY <2>1, <2>2, <2>3, OneError, PeersFrame, Zenon
<1>6. ASSUME NEW n \in Instances, HandleConflict(n) PROVE PeersDoNotFail'
  <2> DEFINE equal == ingressStatusEqual(api[current[n].ingress].status)
  <2>1. UNCHANGED <<health, writes>> /\ call[n] = "conflict"
    BY <1>6 DEF HandleConflict
  <2>2. (CallReturns(n, ~equal) /\ UNCHANGED apiFailures) \/ ApiFails
    BY <1>6, ZenonT(60) DEF HandleConflict
  <2>3. writes = 0 => equal
    BY <2>1 DEF ConflictInv, PeerWrote, ingressStatusEqual
  <2>4. ApiFails => apiFailures' # apiFailures
    BY DEF ApiFails, StatusSorts
  <2>5. equal \in BOOLEAN
    BY DEF ingressStatusEqual
  <2> HIDE DEF equal
  <2>6. writes = 0 /\ apiFailures' = apiFailures => \A m \in Instances : errors'[m] => errors[m]
    BY <2>2, <2>3, <2>4, <2>5, OneError, ZenonT(40)
  <2> QED
    BY <2>1, <2>2, <2>6, PeersFrame, ZenonT(40)
<1>7. ASSUME NEW n \in Instances, Deliver(n) PROVE PeersDoNotFail'
  <2>1. UNCHANGED <<health, writes, apiFailures, errors>>
    BY <1>7 DEF Deliver
  <2> QED
    BY <2>1, PeersFrame
<1>8. CASE Write
  <2>1. writes' # 0
    BY <1>8 DEF Write, StatusSorts
  <2> QED
    BY <2>1, Zenon DEF PeersDoNotFail
<1>9. CASE UNCHANGED statusVars
  <2>1. UNCHANGED <<health, writes, apiFailures, errors>>
    BY <1>9 DEF statusVars
  <2> QED
    BY <2>1, PeersFrame
<1> QED
  BY <1>1, <1>2, <1>3, <1>4, <1>5, <1>6, <1>7, <1>8, <1>9 DEF StatusNext, Feed

\* The inductive invariant holds throughout.
LEMMA StatusInvariance == StatusSafetySpec => []StatusInv
<1>1. StatusInv /\ [StatusNext]_statusVars => StatusInv'
  BY StatusAssumption, StatusSortsStep, StatusFlagsStep, ConflictStep, PeersStep, Zenon
     DEF StatusInv, StatusTypeOK, StatusSorts, StatusFlags
<1> QED
  BY StatusInvInit, <1>1, PTL DEF StatusSafetySpec

\* Every variable of the status updaters keeps its type.
THEOREM StatusTypeCorrect == StatusSafetySpec => []StatusTypeOK
<1>1. StatusInv => StatusTypeOK
  BY DEF StatusInv
<1> QED
  BY StatusInvariance, <1>1, PTL

\* However many instances race for the same ingresses, a conflict makes none of them
\* unhealthy (updateIngressAndHandleConflicts).
THEOREM PeersNeverFail == StatusSafetySpec => []PeersDoNotFail
<1>1. StatusInv => PeersDoNotFail
  BY DEF StatusInv
<1> QED
  BY StatusInvariance, <1>1, PTL
=============================================================================
