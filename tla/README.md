# A TLA+ model of feed

feed is two Kubernetes controllers. `feed-ingress` watches ingresses and services, writes nginx's
configuration, attaches its node to a load balancer (ELB, NLB, ALB, Gorb), and sets the status of
ingresses. `feed-dns` watches the same resources and keeps a Route 53 zone in step. Both are built
from one `controller` and a list of `Updater`s (`Start`, `Stop`, `Update`, `Health`, `Readiness`).

This directory models the concurrent and fault-prone parts of that system and the path from an
ingress to nginx.conf, checks them with TLC on small instances, and proves the central properties
with TLAPS for all values of the constants. `PROJECT.json` holds the machine-readable index:
components, runs, mutants, the source lines behind every definition, hazards, findings, theorems.

## The system and its modules

```
 API server --> informers --> buffered watchers --> combined channel      Watcher  (FreshView)
                                                         |
 main, signals, health port --> Start/Stop --> controller: handleUpdates  Controller
 probes --> Health/Readiness                             |
                 entries = what the listed ingresses ask for              IngressEntries
                                                         |  Update(entries), in order
    +--------------+-----------+-----------+-------------+-----------+
    nginx          ELB         NLB         ALB           Gorb        status         DNS
  NginxUpdater  ElbUpdater  NlbUpdater  AlbUpdater  GorbUpdater  IngressStatus  DnsUpdater
 (NginxService) (--------- Frontend -----------)
  NginxConfig
```

Three modules are promises, and the detailed modules are shown to keep them:

| Promise | About | Kept by |
| --- | --- | --- |
| `FreshView` | a change of the cluster puts an update in the channel | `Watcher`; `Controller` uses its watchers as `FreshView` describes them |
| `NginxService` | when nginx is started, told to quit and gone; what `Update` and `Stop` that return have achieved | `NginxUpdater`; `FeedIngress` uses it in its place |
| `Frontend` | attached only by `Update`, detached only by `Stop`; what a `Stop` that returns nil leaves behind | `ElbUpdater`, `NlbUpdater`, and `AlbUpdater` inside `FeedIngress` |

Two modules are compositions. `FeedIngress` is the program `feed-ingress alb`: `Controller`, driven by
the main goroutine, the signal handler and the health port, with `NginxService` and `AlbUpdater` as its
updaters and probes beside them. `Routing` joins `IngressEntries` and `NginxConfig`: a cluster that
changes, and the nginx.conf of each update; `MCRouting` gives it a cluster.

| Part of the code | Module | Status |
| --- | --- | --- |
| `k8s/watcher.go`, `event_handler.go`, `informer.go` | `Watcher`, `FreshView` | modelled |
| `k8s/client.go`: cached reads | `Watcher`; the selectors in `IngressEntries` | partly |
| `controller/controller.go`: life cycle, update loop | `Controller` | modelled |
| `controller`: making and validating entries | `IngressEntries` | partly: one annotation of each kind |
| `nginx/nginx.go`: process control, reloads | `NginxUpdater`, `NginxService` | modelled |
| `nginx/nginx.go`, `nginx.tmpl`: configuration | `NginxConfig` | partly: servers, locations, upstreams |
| `elb/elb.go`, `nlb/nlb.go`, `alb/alb.go` | `ElbUpdater`, `NlbUpdater`, `AlbUpdater`, `Frontend` | modelled |
| `gorb/gorb.go` | `GorbUpdater` | modelled |
| `k8s/status`, status part of `k8s/client.go` | `IngressStatus` | modelled; `Start` of the three status updaters left out |
| `dns`, `dns/adapter`, `dns/r53`, `util/slices.go` | `DnsUpdater` | modelled |
| `feed-ingress/cmd`, `util/cmd` | `FeedIngress` | the alb command, probes and signals; flags left out |
| `feed-dns`, metrics, flags, locked values, test doubles | | left out (see the end) |

## How state and actions correspond to the code

**Watcher.** Per kind of resource (ingress, namespace, service): the informer store, the goroutines
of `notify` (a counter), `shouldUpdate`, the blocked senders (a counter), `updates` (capacity 1) and
the combiner; then the combined channel (capacity 1) and the program counter of `handleUpdates`
through the reads of `GetIngresses` and `GetServices`, one step per `HasSynced` and per `List`. A
resource is a namespace name; the label tests of the selectors are the constant `Selected`.

**Controller.** `Start` and `Stop`, called by any client under the mutex, one step per updater, with
the clean-up after a failed start; the goroutine of `handleUpdates`, which takes no lock. The cluster
is a version number. Reads and updaters may fail at each call.

**NginxUpdater.** The caller of `Update` (diff, write, check, start nginx, request a reload), the
caller of `Stop`, `backgroundSignaller`, `waitForNginxToFinish`, `periodicallyUpdateMetrics`, and
nginx itself (external: boots, reloads its file on SIGHUP, quits, crashes). Configurations are values,
`Bad` the ones nginx refuses. The file is cut short while it is being written or after a failed write.

**ElbUpdater, NlbUpdater, AlbUpdater.** The retries of `attachToFrontEnds` step by step, `Stop` beside
them, AWS calls that fail with or without effect, tags that change (ELB, NLB), target groups that are
created late (ALB). The choice among load balancers of one scheme is free: the code takes whichever
AWS lists last. For `Frontend`, what the updater has *forgotten* is what a retry has overwritten (ELB,
NLB) or what a failed deregistration has left (ALB, whose `Stop` logs it and returns nil).

**GorbUpdater.** Every HTTP request and every shell command of `Update` and `Stop`. The updater has
no state of its own; server, loopback addresses and ARP settings survive a restart. `ip addr show`
runs in a pipe, so its failure is a count of 0, as in the code.

**IngressStatus.** Several instances, each with an informer store, write the status of shared
ingresses. `status.Update` writes into the objects of the store, as the code does, and the API
refuses a write with an old resource version.

**DnsUpdater.** Zone and entries are functions of the host. `Update` reads the zone, computes upserts
and deletes, and sends batches; Route 53 (external) applies a batch as a whole or not at all and
deletes only exact matches. Entries have no order, so each choice `indexByHost` can make is made.

**FeedIngress.** Each step of `Controller` and `AlbUpdater` happens at its place in the code: `Stop` of
the controller advances when `Stop` of the updater returns, `handleUpdates` goes on when `Update` does.
`Updaters` is the list that `createIngressUpdaters` and `appendAlbIngressUpdaters` make. `Wake` is a
signal or the loss of the health port, `Exit` is `os.Exit`, `Nginx` contains the `log.Fatalf` of the
signaller. A probe is two steps, `Health` under the mutex and `Readiness` without it.

**IngressEntries, NginxConfig, Routing.** A list of ingresses in any order becomes entries (class,
annotations with their defaults and parse errors, validation), the entries are sorted, deduplicated
and turned into servers, locations and upstreams. A path is a sequence of a few characters, so that
`createNginxPath` does to it what the code does; all other texts are numbers in their order. `Sorted`
is a set: `sort.Slice` is not stable, and what it does with equal elements is free. `Accepted` is the
part of `nginx -t` (external) that depends on the entries. `Wanted` and `First`, which the properties
use, say what should be served without lists, orders and maps.

An operator marked "Mutant" is a plausible bug in the definition after it. It is used nowhere; it
is substituted for that definition to show that a property fails without the real code.

## Runs

One run per question; most check the safety and liveness properties of one module together.

| Run | Distinct states | Shows |
| --- | --- | --- |
| `Watcher` | 121,087 | `NoLostWakeup`: a view that is out of date has a notification on its way. `NoPartialList`: no store is listed before it is filled. `ImplementsFreshView`; `EventuallyFresh` |
| `Controller` | 86,673 | `SingleUpdater`, `NeverAhead` (updater order), `LifecyclesAgree` (start is all or nothing), `HealthAtRest`; `EventuallyApplied`: failures are made up for through resyncs |
| `NginxUpdater` | 290,145 | `StaleOnlyIfForgotten`, `ImplementsNginxService`; `StopEventuallyReturns`, `DeathIsNoticed` |
| `ElbUpdater` | 93,645 | `ReadyMeansAttached`: readiness is earned by one complete attempt. `ImplementsFrontend`; `EventuallyAttached` |
| `NlbUpdater` | 157,483 | the same for target groups, with readiness from a timer; `EventuallyReady` |
| `GorbUpdater` | 414,078 | `UpdatedMeansSetUp`, `StopCleansUp`, `NoBlackhole`, `DrainedOnlyIfAbandoned`; `EventuallyBackends` |
| `DnsUpdater` | 155,306 | `SettledAgrees`, `OthersUntouched`, `HostsKeepRecords`; `EventuallyAgrees` after failures, crashes between batches and edits |
| `IngressStatus` | 1,180,269 | `PeersDoNotFail`: instances that race do not fail because of each other; `EventuallySet` without failing calls |
| `FeedIngress` | 256,876 | `TrafficIsServed`, `CleanExit`, `ReadyMeansServing`, `ImplementsFrontend` of the ALB updater; `ProbesAreAnswered`, `SignalEndsProgram` |
| `Routing` | 71,876 | `RoutesToTheFirst`, `RefusedOnlyIfMalformed`, `OthersUndisturbed`, `OthersIgnored` |

### Where code and documentation disagree

Two runs check one property each that a comment or document states, and TLC finds it violated.

| Run | What happens |
| --- | --- |
| `NginxUpdater_reload` | a reload requested between the SIGHUP and `updateRequired.Set(false)` is lost (nginx.go:102) |
| `IngressStatus_fail` | after one failed API call the status is never set (status.go:36) |

The passing properties of the same modules say what does hold: `StaleOnlyIfForgotten`, that nginx is
left with an old configuration only through that race, or through an `Update` that failed after it
had begun to write the file; `EventuallySet`, that the status is set if no call fails.

Other passing properties are stated around an exception that the code has. Each exception is a
history variable or a named operator, so that nothing else is excused:

* `Stop` of the controller does not wait for `handleUpdates`, although "blocking until it stops"
  (controller.go:56) says so. An `Update` may run beside or after the `Stop` of its updater: `late` and
  `overlap` in `TrafficIsServed`, `CleanExit` and `Frontend`, and the same in `StopCleansUp`.
* A retry of ELB and NLB overwrites the only record of earlier registrations (`replaced`), and ALB's
  `Stop` returns nil for a deregistration that failed (`undetached`): `forgotten` of `Frontend`.
* A Gorb backend drained by a `Stop` that was killed keeps weight 0, since `Update` only adds missing
  backends: `DrainedOnlyIfAbandoned`.
* The static DNS adapter sends DELETE with the configured TTL (static_hostname_adapter.go:36). A record
  with another TTL cannot be deleted: the antecedent of `EventuallyAgrees`.
* `string(port)` in the sort key (nginx.go:531) maps the ports 55296 to 57343 to one character, so
  two entries that differ in such ports only tie: `Surrogates`. CHANGELOG v1.1.1 says "make this
  deduping deterministic".
* A backend that is not a service is dereferenced before the class is tested (controller.go:234), so
  one such ingress, of any class, fails every update: `Panicking`.
* `validate` lets pass what nginx does not: an exact path that is empty, and numbers that are out of
  range, such as the 0 that a text becomes because the error of `Atoi` is dropped. nginx then refuses
  the whole file: `Malformed`.
* `Readiness` asks the updaters after `Health` has released the mutex (controller.go:461), so 200 may be
  answered when `Stop` has begun in between: `stopCh` in `ReadyMeansServing`.

Seen while modelling, and without a property:

* An expected number of 0 is compared like any other in `Health` of ELB and NLB (elb.go:266,
  nlb.go:409), although the flags say it is not checked; `ReadyMeansAttached` is about numbers above 0.
* `filterNamespacesMatchingAllLabels` (client.go:166) looks at the names of labels only; the flag
  (root.go:153) speaks of labels with values. `MatchesAllLabels` has it as it is; the run uses the
  default, any label.
* Locations are keyed by path without the modifier, so an exact "/" suppresses the 404 of the server
  (`HasRootLocation`).
* `feed-dns` gives its controller neither a name nor the flag for ingresses without a class
  (feed-dns/main.go:102), so `ingressClassSupported` rejects every ingress whose class is not the empty
  text; README:265 says of classes that `feed-dns` does not support them.
* With several VIPs, Gorb's `Stop` enables ARP while later addresses are still there.
* While an `Update` is slow, each tick with events leaves one more sender blocked (`senders` of
  `Watcher`); nothing promises a bound.

### Bounds

Every bound is a constant `Max...` in a guard.

* `Watcher`: one name per kind already gives a resource that is absent, present, and changing
  between two reads of one round; three initial lists and one later event put notifications of
  several kinds, and two of the same kind, at every stage of the path.
* `Controller`: three updaters give one before and one after the failing one; two versions let a
  change arrive during an update; two failures let a retry fail; two goroutine slots let a
  second handler exist. That it never does is `OneHandler` of the proof.
* `NginxUpdater`: two configurations and a bad one let a reload be requested while another is being
  sent, and a refused file be replaced; one failing command or crash, besides any number of refusals.
* `ElbUpdater`, `NlbUpdater`: two load balancers of one scheme and one of the other, an expected
  number of two: the choice, the overwriting and the partial attachment happen. One target group
  has an unsupported type.
* `GorbUpdater`: two services and two VIPs, so that loops have a first and a last turn; one failure,
  one loss and one restart, at any step. `ManageLoopback` is on; off, the loopback steps drop out.
* `DnsUpdater`: two hosts, two front ends, two TTLs, batches of one change, so that every update is
  split; one edit, one failure, one restart. The static adapter is run; the AWS adapter is the
  case of it in which all TTLs are equal. A scheme without front end (`Unserved`) is in the model
  and not in the run. The proofs cover both.
* `IngressStatus`: two instances and one ingress, which share all conflicts; two foreign writes and
  one failure.
* `FeedIngress`: two target groups, one of which does not exist at first, so that an attempt fails
  half-way and is repeated; one change, one failure of AWS, of a read or of nginx, one call of `Stop`
  by either goroutine. The safety properties are proved without these bounds.
* `Routing`: two ingresses of a selected namespace, each with any of 25 shapes (equal and different paths
  that become one nginx path, exact paths, classes, bad texts, several rules and services), one of a
  namespace that is not selected, services that come and go, two changes. Two rivals for one host and
  path are enough for sorting and deduplication; two changes let one be made and undone.

`CHECK_DEADLOCK FALSE` is set for `Watcher`, `Controller`, `NginxUpdater` and `FeedIngress`, which stop
for good when they are stopped. The others are called again for ever and never deadlock.

### Fairness

Goroutines are weakly fair: the Go scheduler runs them. Tickers tick, and informers resync
periodically, so `Update` is called again (`Resync`, `Update`, `Feed`). nginx is assumed to start,
reload and quit when told to. In `NginxUpdater` the branch of a `select` on a closed channel is
strongly fair, since Go chooses among ready cases at random; the handler of `Watcher` needs no more
than weak fairness, as its events are bounded. In `FeedIngress` the main goroutine, the handler, a probe
that was asked and each goroutine that calls `Stop` are weakly fair; that `Stop` gets the mutex needs no
more, as `Start` takes it once. Nothing that users, AWS or Kubernetes may do on their own (changes,
stops, probes, signals, crashes, failures) is fair, and failures are finite in every run: the liveness
properties say that the system recovers once calls succeed.

## Proofs

The theorems hold for every value of the constants that the named `ASSUME`s admit; the bounds
`Max...` are arbitrary naturals, so they do not limit the result. Each module `XProofs` follows one
pattern: `Init => Inv`, `Inv /\ [Next]_vars => Inv'` with one step per action, then the corollaries.
The assumptions are that sets of load balancers, target groups, hosts and ingresses are finite, that
the schemes of load balancers are disjoint, that there is at least one updater, that ingresses have the
shape that the API gives them (`IsIngress`), and that the values which stand for "nothing" are not members
of the sets they stand beside. TLC evaluates them on the runs.

* **KubernetesProofs** — the two parts that talk to the Kubernetes API. Watcher: `TypeCorrect`, `NoWakeupIsLost`,
  `ListsAreComplete`, `RefinesFreshView`.
  `NoLostWakeup` speaks of the moment when the handler is back in its `select`, so it is not
  inductive: `ReadInv` carries it through the reads. What has been read so far is what the stores
  hold, or something is pending in the pipeline. `ListInv` says what a store holds before its initial
  list. The refinement maps `world` to what a complete read would return, `view` to what the last
  round returned, and `pending` to "a notification is on its way, or the handler is reading".
  IngressStatus: `StatusTypeCorrect`, `PeersNeverFail`. A conflict is an error unless the status is already the
  wanted one when it is read again. So `ConflictInv`: as long as nobody else writes, an ingress whose version
  has changed since an instance read it has the wanted status, for good.
* **ControllerProofs** — `TypeCorrect`, `UpdatesAreSerial`, `UpdatersInOrder`,
  `StartIsAllOrNothing`, `HealthIsHonest`. `LockInv` and `CallInv` say how far the one call under
  the mutex has come; `OneHandler`, that a handler exists only once `watching` is set, which `Start`
  does once; `OrderInv` compares each updater with the version being applied; `FreshInv` says that
  what was read is current, or an update is pending.
* **NginxProofs** — `TypeCorrect`, `StaleIsForgotten`, `HealthSeesDeath`, `StopIsGraceful`,
  `RefinesNginxService`. `StartInv` relates the steps of the start to its goroutines and the process;
  `WaitInv`, the order in which `running`, `lastErr` and `doneCh` are written; `FileInv`, when the file
  may be invalid; `StaleInv`, that a file nginx has not loaded is on its way to it (being written, to be
  requested, requested, or signalled) unless it was forgotten. The refinement forgets files, signals
  and goroutines: every step is a step of `NginxService` or changes none of its five variables.
* **RoutingProofs** — `FirstEntryServes`, `FailureHasACause`, `OthersStay`, `OthersAreIgnored`. The state says
  little: `Inv` only says that the result and nginx.conf are those of
  an update of this cluster in some order of the list. The work is in what the code computes. `AppendAllElements` (induction over the turns of a loop,
  from the least number at which it would fail), `PathsListed`, `IngressEntriesListed` and `EntriesServed`
  say which entries a list gives, in whatever order: `Served`. `WantedServed` shows that these are `Wanted`,
  which is stated without lists. `Ordered` says that the sort key orders any two entries unless a surrogate
  makes them tie; then `SortedFacts`, `UniqueIsFirst` and `UpstreamsOfAll` give servers and upstreams of the
  sorted list, and `ConfigOfServed` that nginx.conf is a function of what is wanted. `SameUpstream` is why the
  last entry of an upstream's name may stand for all of them. The two action properties compare the ends of
  a step through `Settled`: `EntryStays`, that an unchanged ingress keeps its entries, and `OnlyAdopted`, that
  others have none. All four have the hypothesis `ValuesFollowNames`: if all labels must match, a namespace with
  the labels of the selectors has their values too. The code does not look at the values then
  (client.go:166), and `Wanted` does; with the default, any label, the hypothesis holds trivially.
* **ElbProofs**, **AwsProofs** (NLB) — `TypeCorrect`, `ReadinessIsEarned`, `RefinesFrontend`, `StopEndsService`
  of each updater. `ReadyMeansAttached` follows a count, so `AttachInv` says what the count stands for: what the attempt
  has chosen is saved before it registers, what is no longer to do is registered, and `done` is set when
  nothing is left. Lemma `AtMostTwo` bounds the choice of one load balancer per scheme. `StopInv` is the same
  for the loop of `Stop`, and gives `EndStop` of `Frontend`: registered is what is left to do or was
  overwritten. `Frontend` speaks of the moment when `Stop` returns; `StopEndsService` says that what it has
  reached lasts: `StoppedCleanly` is kept by every later step but an `Update` that attaches, which `overlap`
  records.
* **FeedIngressProofs** — `TrafficAlwaysServed`, `ExitIsClean`, `ReadinessIsServing`, `RefinesFrontend`,
  `ControllerInProgram`, of the composition. `LifeInv`: one client is in `Start` or `Stop`, and `Stop` gets past its test once.
  `HandlerInv`: `handleUpdates` is in the `Update` of one updater at a time, in the second only when
  nginx has been started, and at work after `stopCh` was closed only if it is `late`. `StopInv`: how far
  the two `Stop`s have come, by the place of the client in its loop. `AttachInv`: what the ALB updater
  knows of its registrations. The lemmas `Same...` say which variables each conjunct depends on; then
  there is a lemma per action, in which only the conjuncts that the action touches are argued. The
  updater counts target groups, and the two facts about cardinality that this takes are `Sizes`.
  `ControllerInProgram` carries the results of `ControllerProofs` over to the controller of the program, through
  an instance of that module with two updaters and one handler. The program is not a refinement of
  `Controller`: its parts share the count of failures, and an `Update` may fail without any of them (a target
  group that is missing). So `Moves` of `ControllerProofs` is what the controller does but for the count,
  `MovesInv` shows that its invariant is kept by that, and `ProgramMoves` that every step of the program is such
  a move; `ControllerFits` discharges the assumptions of the instance.
* **GorbProofs** — `GorbTypeCorrect`, `UpdateSetsUp`, `StopTakesDown`, `TrafficFindsItsVip`,
  `DrainedIsAbandoned`. The updater remembers nothing between calls. What a call that returns has
  achieved is an invariant of its loops: `UpdateInv` and `StopInv` say which backends, addresses and files
  are done at each place of `Update` and `Stop`, unless the call has noted an error. `CallInv` relates
  `disturbed` and `overlap` to who is running; `OrderInv` says, without failures, that addresses come before
  backends and go after them; `DrainInv`, that only a `Stop` that has begun leaves a weight of 0. For each
  action, a lemma `...Facts` says what it does to the call and to the world, and a lemma `...Step` that it
  keeps the invariant.
* **AwsProofs** (DNS) — `DnsTypeCorrect`, `SettledZoneAgrees`, `OthersStayUntouched`, `EntriesKeepRecords`,
  `BatchesMakeProgress`, `ResyncIsQuiet`.
  `ChangesInv`: which changes an `Update` may have in hand, however many batches are gone. `LacksInv`:
  unless the zone was edited since it was read, they are all that the zone lacks. Lemmas say what the
  pure part of `Update` computes and what a batch does to each record. `BatchesMakeProgress` gives the variant
  of the loop of `UpdateRecordSets`, the number of changes that are left, for every size of batches;
  `ResyncIsQuiet`, that `Update` is idempotent, follows from `SettledAgrees`.

Only model-checked: liveness, since fairness and `ENABLED` are beyond the prover, and the two properties
that TLC refutes. Every safety property, action property and refinement that a run checks and finds true has
a theorem. `IngressStatus` and `DnsUpdater` share a proof module with another component each, which is why
their definitions have names of their own (`StatusSpec`, `DnsSpec`).

## Not modelled

* `feed-dns/main.go`: flags, and a controller with the DNS updater alone. What the two do together is in
  `Controller` and `DnsUpdater`: the program has one updater, so no order of updaters to get wrong.
* The commands `elb`, `nlb`, `gorb` and `static` of `feed-ingress`: they append other updaters where
  `alb` appends its own; of the ELB and NLB updaters, `Frontend` says what they have in common with it.
* How `Start` of the status updaters finds load balancers and their names: one AWS call, whose failure
  ends the program.
* nginx: the text of the template, ports, TLS, tracing, log headers; the annotations that are read like
  one that is there; the parsing of the metrics page (`nginx_metrics.go`). Whether that parsing succeeds
  is a free choice of `NginxUpdater`.
* Health answers that depend only on a remote server (Gorb).
* How long things take: drain delays and tickers are steps without duration.
* Flags and their validation, registration of metrics, logging: no state that a property depends on.
  The locked values of `util/safe.go` are the atomic steps of other modules; test doubles serve tests only.
* client-go, AWS, Route 53, the Gorb server, nginx: external, as the code uses them.
