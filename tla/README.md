# A formal model of the macvlan network controller

The controller (`src/controller`, started by `src/main.go`) watches pods. A pod
with the annotations `macvlan.pandaria.cattle.io/ip` and `.../subnet` gets a
`MacvlanIP` object, which a CNI plugin later turns into an interface. The
controller never holds a lock across API calls, reads some things from informer
stores and others from the API server, and gives addresses out by listing what
is in use and creating an object three calls later. Around it are a work queue, a
Service synchroniser, namespace handlers and a process that starts and stops them
all. This directory models that, checks it with TLC and proves its safety
properties with TLAPS.

Paths below are relative to the repository (`src/` is its root).

## 1. Inventory

| Component | State | Operations | Talks to |
|---|---|---|---|
| Allocation worker (`controller.go:165-243`, `macvlanip.go`, `ipalloc.go`) | the item in process; everything else in local variables | get a key, read the pod from the store, get the subnet, list labelled pods, list MacvlanIPs, pick, label the pod (`RetryOnConflict`), create the MacvlanIP, sync the Service | work queue, pod store, API server |
| Pod informer handler (`macvlanip.go:19`) | – | `enqueuePod` on Add only; there is no Update or Delete handler | informer → work queue |
| Subnet handler (`macvlansubnet.go`) | – | on Add: labels and, if missing, the default gateway are written back; errors are logged | informer → API server |
| Purge daemon (`purge.go`) | the list of the round | every hour, and at once at start: list the MacvlanIP store, look each name up in the pod store, delete by name | both stores → API server |
| Address arithmetic (`ipcalc`, `ipalloc.go:58-94`) | – | hosts of a CIDR, addresses of ranges, intersection, default gateway | called by worker and subnet handler |
| Service synchroniser (`service.go`) | – | find the owner workload, its Service, create `<name>-macvlan` if absent | called by the worker, errors logged |
| Namespace handler (`netattachdef.go`) | – | create/delete a NetworkAttachmentDefinition; errors logged | informer → API server |
| Work queue (vendored `util/workqueue`) | queue, dirty, processing, delayed keys | Add, Get, Done, Forget, AddRateLimited, ShutDown | handlers ↔ worker |
| Informers (vendored `tools/cache`) | the stores, pending notifications | list, watch, relist, distribute | API server → handlers, listers |
| Process lifecycle (`main.go`, `pkg/signals`, `controller.go:128-153`) | stop channel | start, wait for stores, run **one** worker, stop | everything |

What is hard in it: check-then-act over several API calls with other actors in
between; two stores that lag behind the API server and each other; failures of
single calls in the middle of a handler; retries that meet the traces of their
own earlier attempt; a restart, after which every pod is announced again;
names that are used again by other pods; a daemon that deletes by name.

What makes each component correct:

* worker – no address twice, never the gateway, the address answers the pod's
  annotations, pods that share a list get different ones, no pod is dropped or
  starved, retries end;
* purge daemon – deletes only what belongs to no pod, and all of that in time;
* subnet handler – the gateway is known before addresses are given out;
* arithmetic – the hosts are the ones the CIDR and the ranges describe, and the
  loops end;
* Service synchroniser – the twin Service comes to exist once, owner look-up is
  total; namespace handler – one definition per namespace; queue – no key lost,
  no key processed twice at once; lifecycle – nothing half done is relied on.

`PROJECT.json` lists every hazard at its line, with the properties that cover it.

## 2. Modules

| Module | What it is |
|---|---|
| `MacvlanController` | The core: worker, purge daemon, subnet handler, informer stores, API server, users, garbage collector, restarts. One action per API call. |
| `AddressPool` | The abstract promise: per subnet a pool; *Grant* a free host to a name without one, *Release* one. |
| `MacvlanControllerProofs` | Theorems about `MacvlanController`: types, unique addresses, the pool, gateways, annotations, the length of a job. |
| `MacvlanServingProofs` | More of them: labels, what the purge daemon goes by, that no pod is forgotten. |
| `MCMacvlan` | Keys, subnets, annotation sets for the runs of the core. |
| `WorkQueue` | The vendored queue, delaying queue and rate limiter with handler, workers, waiting loop and shutdown. One action per critical section or channel operation. |
| `PendingWork` | The abstract promise of the queue: a key is pending until one worker takes it. |
| `WorkQueueProofs` | The queue's invariant, and that `WorkQueue` implements `PendingWork`. |
| `ServiceSync` | `service.go`, one action per API call, with users in between. |
| `MCServiceSync` | Pods, owners and Services for its run. |
| `ServiceSyncProofs` | Theorems about `ServiceSync`. |
| `Namespaces` | The namespace handlers behind their informer. Part of `Process`. |
| `Process` | `main`, the signal handler, the factories, `Controller.Run`, around `PendingWork` and `Namespaces`, over restarts. |
| `ProcessProofs` | Theorems about `Process` and the `Namespaces` in it. |
| `SubnetHosts` | `calcSubnetHosts`: both address loops, byte by byte, one action per pass; then the choice of a free address, and the default gateway. |
| `MCSubnetHosts` | Small bytes and range lists for its run. |
| `AddressProofs` | Lemmas about the operators of `SubnetHosts`: bytes as numbers, networks as intervals, sorting. |
| `SubnetHostsProofs` | The invariants of the loops, and the theorems about them. |

The modules meet where the code does. `Process` runs its workers on `PendingWork`,
which `WorkQueue` is proved to implement, and its namespace handlers are
`Namespaces` with `Exit` as their end of memory. `MacvlanController` abstracts the
hosts of a subnet, which `SubnetHosts` computes, and ends an item where
`ServiceSync` begins.

### How `MacvlanController` corresponds to the code

*State.* `pods`, `macvlanips`, `subnets`, `gateway` are what the API server
stores. `podCache`/`podsSynced`, `ipCache`/`ipsSynced` are the two listers and
their `HasSynced`; `adds` and `subnetAdds` are notifications on their way to a
handler. `dirty` and `waiting` are the work queue and its delaying queue. `job`
is the stack of `doAddMacvlanIP`: its `pc` names the next API call, its other
fields the local variables that live across calls. `purgeTodo`/`purgeVictim`
are the loop of `purge`.

| Action | Code |
|---|---|
| `ProcessNextWorkItem` | `controller.go:165-243` up to the first call |
| `GetSubnet` (with `Dispatch`) | `macvlanip.go:49-84`, `ipalloc.go:162-170` |
| `ListPods` | `ipalloc.go:172-201`: first address of the list not labelled |
| `ListMacvlanIPs` (with `Allocate`, `Usable`) | `ipalloc.go:18-36, 98-140, 203-224` |
| `GetPod`, `UpdatePod` | the closure of `RetryOnConflict`, `macvlanip.go:86-110` |
| `CreateMacvlanIP` | `macvlanip.go:112-130, 145-171` |
| `PurgeList`, `PurgeCheck`, `PurgeDelete` | `purge.go:40-68` |
| `OnMacvlanSubnetAdd` | `macvlansubnet.go` |
| `SyncPods` … `EnqueuePod`, `BackoffOver`, `RelistPod` | informers and delaying queue, as the controller sees them |
| `Restart` | a new process; everything in memory is gone, the API server is not |

An item ends with `ReturnNil` (Forget) or `ReturnErr` (AddRateLimited), as in
`controller.go:196-213`. The places where the code returns a nil error after a
failure – an invalid ip annotation, a failed label update – return nil in the
model too, and a List of MacvlanIPs that fails yields an empty list, because its
error is overwritten.

*Failures.* Every failing call, conflict, re-creation of a name, relist or
restart is a disjunct guarded by `Occurs(e)`: `e` must be in the constant
`Events`, and at most `MaxEvents` of them happen. `Events` is how a run, or the
hypothesis of a theorem, says which failures it covers.

*Abstractions.* Addresses and MACs are numbers. The SHA-1 label is the annotation
it hashes. The text of annotations is parsed already (`mode`, `ips`, `macs`). The
work queue is a set: with one worker, a key added again while it is processed
is simply dirty. `Hosts[s]` stands for `calcSubnetHosts`, which `SubnetHosts`
models on its own.

### The other modules and the code

*`WorkQueue`.* `queue`, `dirty`, `processing`, `shuttingDown` are the fields of
`Type` (`queue.go:65-88`); `waiters` are the goroutines in `cond.Wait`. `Add`,
`GetWaits`/`GetTakes`/`GetEnds`, `Done`, `ShutDown` are its critical sections;
`AddAfterSends`/`AddAfterStops`, `LoopReceives`, `LoopAdds`, `LoopEnds` the channel
operations of `delaying_queue.go:142-255`. A worker runs `processNextWorkItem`:
get, sync, then either done, or retry, send and done; one that is launched after
the stop is `skipped`, because `wait.Until` looks at the stop channel first. When an entry of the
delaying queue is ready is left open; the rate limiter only chooses that.

*`ServiceSync`.* `job` is the running `SyncService`: the next call, and what it
keeps (`getPod`, `getReplicaSet`, `getApp`, `getService`, `getTwin`, `create`).
`Panic` is the index of an empty list at `service.go:64`. `Accepts` is what the API
server demands of a Service: a free name, a free clusterIP, ports of 16 bits. A
Service is its name, clusterIP, one port, its target and whether it bears the
annotation of `makeService`; labels, selectors and owner references are left out.
`todo` are the pods whose item has not come as far as `SyncService`. What comes
before that (`macvlanip.go:39-123`) is `MacvlanController`'s; here it is the moment at
which `SyncService(p)` happens, which for a pod in `Stuck` may be never.

*`Namespaces`.* `store`, `listed`, `notes` are the informer; `OnNamespaceAdd` and
`OnNamespaceDelete` are the handlers of `netattachdef.go`, each with its one API
call. A relist announces what is new, sends a tombstone for what is gone – which
`onNamespaceDelete` drops (`netattachdef.go:69-72`) – and nothing for what was
known. `failed` is what the log alone knows.

*`Process`.* `main` names the line `main` is at; `informer` follows `InformerFor`,
`Start` and the first list of each of the five informers; `handler`, `sigs` and `stop`
are `SetupSignalHandler` with its channel of two; `launched` and `worker` are the
goroutines of `Run`. `Exit` clears everything that is memory, and `Restart` begins
again on the same cluster.

*`SubnetHosts`.* The two loops of `calcSubnetHosts` over addresses of `Width` bytes;
`RemoveUsedHosts` is `allocateAutoIP`: the complement of what is in use, sorted, with
its lowest element first. `CalcDefaultGateway` is `ipcalc.go:118-128`.
The reference reads an address as a number (`Value`, the last of its `Prefixes`); powers of
two are a recursive function (`Pow2`), about which theorems can be proved.

*Not modelled.* Changes of the annotations of an existing pod (the controller has
no Update handler), deletion or change of a subnet, labels set by users, the deletion of a
NetworkAttachmentDefinition by a user (nothing watches them: it is not put back),
MacvlanIPs created by anyone else, a create still on its way to the API server
when the process dies, addresses of the form IPv6. The labels the subnet handler
writes beside the gateway, which nothing in the controller reads. The event
recorder, generated clients, deep copies and build files, which carry calls and
decide nothing. Two controllers at once, as during a rolling update of the
Deployment: `main.go` elects no leader, list-then-create relies on being alone,
and there is no property the code could keep.

## 3. Runs

Passing runs (all in `PROJECT.json`, each property with a mutant of the code that
breaks it):

| Run | Instance | Shows |
|---|---|---|
| `Allocation` | 2 pods of one namespace, list of two addresses or auto, 3 hosts, any one of 8 disturbances, the two names symmetric | types; `UniqueIPs`, `PickedIPIsFree`, `SharedListLabelsDistinct`; `ImplementsPool`: the controller refines `AddressPool` |
| `Annotations` | 1 name used up to 3 times, 9 kinds of annotations over 2 subnets (every mode in both, MACs with and without), any two of 6 disturbances, failed Lists included | `GatewayNeverAllocated`, `HonoursAnnotation` |
| `Serving` | 2 names that compete for addresses in all modes, gateways given or not, any two of 7 failures | `ServedOrPending`, `LabelMatchesIP`; `EventuallyServed` (auto and single mode) |
| `Reclaim` | 1 name used up to 3 times, auto mode in a subnet with room and in one that a single pod fills, single mode; any two of 5 disturbances, restarts and relists included | `PurgeDecidesOnTheDead`; `OrphansReclaimed`, `RetriesEnd` (auto mode, with room) |
| `SubnetHosts` | addresses of 2 bytes of 2 bits, every CIDR but /0, every single range, five lists of two; a stretch of the lowest hosts and one more in use | `HostsCorrect`, `LowestFreeFirst`, `GatewayInNetwork`, `Terminates` |
| `WorkQueue` | 2 keys, 2 workers, a channel of one place, shutdown at any time | `QueueHoldsTheDirty`, `NothingLeftBehind`, `ImplementsPendingWork`; `AddedIsTaken`, `FailedIsRetried`, `WorkersEnd` |
| `ServiceSync` | 4 pods (of a Deployment, a StatefulSet, a ReplicaSet of nobody and one of a foreign kind), one of them in `Stuck`, 5 possible Services of users, 3 changes by users, 1 failed call, 1 restart beside those after a panic | `TwinOfWorkloadService`, `ForeignServiceKept`, `HeadlessGetsTwin` |
| `Process` | 1 key, 1 worker as in the code, 1 namespace, 2 changes by users, 1 failed call, 1 broken watch; signals, kills and restarts without bound | `WorkersSeeSyncedStores`, `MissingIsPending`; `SignalEnds`, `AnnouncedIsTaken`, `NamespaceGetsDefinition` |

Each run checks its module's `TypeOK` somewhere; the core's is in `Allocation`.

Violation runs, each a disagreement of the code with a statement in the repository:

| Run | What happens |
|---|---|
| `DuplicateIP` | the error of the List of MacvlanIPs is overwritten (`ipalloc.go:19-25`, also 99-105 and 204-210): everything looks free, two pods get one address |
| `PodForgotten` | `return err` where `retryErr` is meant (`macvlanip.go:109`): the pod is forgotten |
| `StaticMAC` | a MAC beside a single static address is dropped (`macvlanip.go:69-72`), although `artifacts/poc/macvlan-network.md:94` and `artifacts/sample/pod-1.yml` set one |
| `ServicePanic` | for a pod whose ReplicaSet has no owner the error message indexes an empty list (`service.go:64`): the process panics, and panics again after a restart when the allocation of that pod succeeds again |

### Bounds, and why they are enough

* `MaxEvents` (1 or 2): the properties relate a job, its retry and one other
  actor. One failure already separates an attempt from its retry; two let the
  retry fail too, or a restart meet a re-creation. The events not in a run's
  `Events` are those under which the property is known to fail (see the violation
  runs and the limits below) or to which it is indifferent.
* Two pods: a clash needs two. Three hosts, one of them the gateway: two usable
  addresses, so that both pods can be served, one can be blocked by the other,
  and the list `<<2, 3>>` can be exhausted. Subnet `two` has one usable address: it
  is full as soon as a pod is served, which is where a pod that is announced again
  finds nothing free.
* `RetrySteps` stands for the 5 attempts of `retry.DefaultRetry`: 2 with one
  event or where giving up is to happen, 3 in `Serving`, so that two conflicts do not use the
  attempts up (that they may be used up, and the pod then forgotten, is
  `PodForgotten`).
* `SubnetHosts`: 2-bit bytes have both edges and two inner values, two bytes have
  the carry, and ranges up to `<<3, 3>>` the overflow out of the last address.
  Prefix length 0 is left out: the loop over it does not end
  (`ipcalc.go:96`, the increment wraps and never leaves the network).
* The two names of `Allocation` are model values and interchangeable (`SYMMETRY`): the
  run checks safety only, and no definition picks one name before the other.
* `WorkQueue`: two workers and two keys have every race on one key (add while it is
  processed, two `Get`s, a wake-up that falls between look and sleep); a channel of
  one place is full as soon as one worker has failed, so that the other blocks.
* `ServiceSync`: three changes let a Service be deleted, replaced and met again
  between two calls of one attempt; `MaxPort` 3 keeps the last port in reach.
* `Process`: two changes by users are a delete and a re-creation, in either order
  with a broken watch and a failed call; one namespace is enough because no handler
  looks at two, and `MissingNoticed` proves it for any number.
* Deadlock is checked for `WorkQueue` and `Process`, where the waiting loop, the
  shutdown, the kill or the restart can always go on. The other systems may stop:
  a cluster in which everybody is served has nothing to do, and loops end.

### Fairness

`FairSpec` assumes that each goroutine of the process keeps running, that the API
server answers and delivers watch events, and that a back-off ends: weak fairness
of each informer, handler, purge and worker step. A key in the queue is got
eventually although the worker is busy in between; the queue is first in, first
out (`queue.go:141-160`), which is strong fairness of `ProcessNextWorkItem(k)`.
Nothing is assumed of users, of the garbage collector, or of failures, which are
bounded by `MaxEvents`. `SubnetHosts` assumes weak fairness of its only thread.

`WorkQueue` assumes weak fairness of each worker and of the waiting loop, and that a
send on a channel that has room again and again goes through (strong fairness of
`AddAfterSends`: blocked senders are served in order). `ServiceSync` assumes that the
worker goes on and that a process that panicked is restarted; not that a pod in
`Stuck` gets through the allocation. `Process` assumes that
`main`, goroutines and handlers run, that lists succeed in the end and that the
container is started again; signals, kills, users and pods owe nothing.

### Known limits: behaviours outside the passing runs

These hold in the model because the code has them; the passing runs leave the
event out where it breaks the property.

* A restart makes the worker allocate and label again for pods that are served
  (`macvlanip.go:101, 117`): `LabelMatchesIP` fails with `"restart"`, and with
  `"createLost"`, whose retry in auto mode picks a second address.
* A pod created again under its name counts as served as soon as the create meets
  the MacvlanIP of its predecessor (`macvlanip.go:117`). When that one is
  collected nothing retries: `EventuallyServed` fails with `"recreatePod"`.
* A relist turns a re-creation into an update, for which there is no handler
  (`"relist"` beside `"recreatePod"`): the new pod is not queued at all.
* A subnet created without a gateway is allocated from before
  `onMacvlanSubnetAdd` has written the default (`ipalloc.go:24` leaves out the
  gateway it was given, which is empty): the later gateway may be handed out.
* A pod that is served and announced again, after a restart or because the answer
  of its create was lost, goes through the allocation again. With a static address
  it finds that address in use, by itself (`ipalloc.go:114, 127`); in auto mode in a
  full subnet it finds nothing free (`ipalloc.go:30-33`). Either is requeued for
  ever: `RetriesEnd` is about pods in auto mode whose subnet has an address left.
* A retry in list mode counts the label its own failed attempt left as another
  pod's (`ipalloc.go:192`); when the rest of the list is taken the pod starves beside
  its own free address. `EventuallyServed` is about auto and single mode.
* The first round of the purge daemon starts beside the wait for the stores
  (`purge.go:37`): with the pod store still empty it deletes the MacvlanIPs of live
  pods. `PurgeDecidesOnTheDead` speaks of the time after that store is filled.
* The purge daemon deletes by name, without a uid, one call after its look at the
  pod store (`purge.go:48, 49`): when the name is used again in between, the
  MacvlanIP it deletes is that of the new pod, which has been served and is not
  queued. `PurgeDecidesOnTheDead` says that this is the only way: at the look, what
  it condemns belongs to no live pod, and a live pod's MacvlanIP goes only if
  it was condemned.
* `SyncService` is tried once per item and process: a Service created later has no
  twin until the next restart, and none even then when the pod does not get through
  the allocation again (above). A process that dies between the create and
  `SyncService` leaves the Service of such a pod without its twin for good, which is
  why `HeadlessGetsTwin` asks of a pod in `Stuck` that no restart follows. The
  twin never follows its Service, and nothing
  deletes it, although the comment says "auto create/delete" (`service.go:17`).
* `makeService` copies the clusterIP (and node ports), so that the twin of an
  ordinary Service is refused; only headless ones get theirs, which is what
  `HeadlessGetsTwin` says. A named target port becomes port 1.
* A workload named `x-macvlan` makes the twin of `x` count as its own Service and
  gets a twin of the twin: the hypothesis `NoWorkloadNamedAsTwin`.
* A namespace deleted and created again while no watch is up is an update to the
  informer, and gets no definition until the process restarts (`HiddenChanges`).
  A create that failed is not tried again either.
* `Run` returns without waiting for its workers, although its comment says
  that it waits for them (`controller.go:124-127` and `149-153`): an item may be cut off between two of its calls.
  A signal that comes before the stores are filled ends in exit code 1. A stop
  while the workers are launched may find none that runs: the keys in the queue
  are then left (`NobodyWorked`), and announced again to the next process.
* A definition that a user deletes is not put back (`netattachdef.go` acts on
  namespaces only).
* The default gateway is the network address plus one, not an address that ends
  in `.1` (`ipcalc.go:118`), and a /32 has none.
* A static MAC is used only beside a list of addresses (`macvlanip.go:63-79`):
  `StaticMAC`. `HonoursAnnotation` is about the MAC at the place of the address in a list.
* The network and broadcast addresses are left out by their last byte, 0 or 255,
  not by the prefix (`ipcalc.go:98-102`); `Test_CIDRtoHosts` expects that.

## 4. Proofs

All theorems hold for any values of the constants that satisfy the module's
assumption: any keys, subnets, hosts, annotations, workers, namespaces, owner
references, numbers of failures and retries.

| Theorem | Statement | Extra hypothesis |
|---|---|---|
| *`MacvlanControllerProofs`* | | |
| `TypeCorrect` | `Spec => []TypeOK` | – |
| `AddressesUnique` | `Spec => [](UniqueIPs /\ PickedIPIsFree)` | no List of MacvlanIPs fails (`"listIPs" \notin Events`) |
| `PickedStaysFree` | `Spec => []PickedIPIsFree` | the same |
| `PoolImplemented` | `Spec => ImplementsPool` | the same |
| `LeasesKeptApart` | `Spec => []LeasesApart` | the same |
| `GatewaySafe` | `Spec => []GatewayNeverAllocated` | every subnet is created with a gateway |
| `AnnotationsHonoured` | `Spec => []HonoursAnnotation` | – |
| `JobsAreBounded` | `CallsLeft` is between 0 and `2 * RetrySteps + 4`, and every step that touches a job ends it or lessens `CallsLeft` | – |
| *`MacvlanServingProofs`* | | |
| `SharedLabelsDistinct` | `Spec => []SharedListLabelsDistinct` | – |
| `PurgeTakesTheDead` | `Spec => PurgeDecidesOnTheDead` | – |
| `NobodyForgotten` | `Spec => []ServedOrPending` | `OneLife`: no name is used again, no restart; `RetriesSuffice`: the calls whose error is swallowed succeed, fewer failures than attempts |
| `LabelsTell` | `Spec => []LabelMatchesIP` | `OneLife`; no create succeeds and is answered with an error |
| *`WorkQueueProofs`* | | |
| `QueueTypeCorrect` | `Spec => []TypeOK` | – |
| `QueueInOrder` | `Spec => []QueueHoldsTheDirty` | – |
| `ShutdownDrains` | `Spec => []NothingLeftBehind` | – |
| `QueueImplementsPendingWork` | `Spec => ImplementsPendingWork` | – |
| `OneWorkerPerKey` | `Spec => []OneHolder`: no two workers hold one key | – |
| `NoKeyIsLost` | a key leaves `dirty` only into the hands of a free worker | – |
| *`ServiceSyncProofs`* | | |
| `ServiceTypeCorrect` | `Spec => []TypeOK` | `NoWorkloadNamedAsTwin` |
| `TwinsBelong` | `Spec => []TwinOfWorkloadService` | the same |
| `ServicesKept` | `Spec => ForeignServiceKept` | – |
| `PanicOnlyForUnowned` | `Spec => []NeverPanics` | every ReplicaSet has an owner |
| *`ProcessProofs`* | | |
| `ProcessTypeCorrect` | `Spec => []TypeOK` | – |
| `WorkersWait` | `Spec => []WorkersSeeSyncedStores` | – |
| `MissingNoticed` | `Spec => []MissingIsPending` | no namespace is replaced while nobody watches |
| *`SubnetHostsProofs`* | | |
| `SubnetTypeCorrect` | `Spec => []TypeOK` | – |
| `HostsAreThoseWanted` | `Spec => []HostsCorrect` | – |
| `LowestIsHandedOut` | `Spec => []LowestFreeFirst` | – |
| `GatewayIsNoHost` | `Spec => []GatewayInNetwork` | – |
| `LoopsComeToAnEnd` | `Stages` and `Turns` are natural numbers, and every step lessens them, `Stages` first | prefix length above 0 |
| `HostsFitTheController` | `Spec => []HostsAsNumbers`: what `MacvlanController` assumes of its `Hosts`, and does with them | – |

The hypotheses are what the code needs. `DuplicateIP` shows what a failing List does,
`PodForgotten` what a swallowed error does, `ServicePanic` what a ReplicaSet without an
owner does; the others are among the known limits
above. The runs check each property under the same hypotheses.

*Addresses.* `UniqueIPs` is not inductive: the create needs to know that the picked
address is still free, which is `PickedIPIsFree`, and that in turn relies on the
worker being the only one to add MacvlanIPs and on `PickedIPIsHost`. Together
with `OnePerName` (a name has at most one MacvlanIP, for the *Grant* of the pool)
they are `AllocationInv`. The proof does not look at every action there: `StepCases`
classifies the steps into five shapes – *Frees*, *Resets*, *Picks*, *Carries*, *Records* –
and invariance is proved per shape. `PoolImplemented` reuses the invariant:
*Records* is a Grant, deleting one object a Release. `LeasesKeptApart` reads the
refinement backwards: `AddressPool` alone keeps the leases of two names and of
two addresses apart, hence so does the controller.

*The worker.* `CallsLeft` counts the calls a job may still make. A conflict sends it
back from `updatePod` to `getPod`, and it is the bound on `tries` (`TriesBounded`)
that makes the count smaller all the same. `PodForgotten` is the price of that bound.

*Gateways and annotations.* `GatewayInv` says that every existing subnet has a
gateway, that a job past `GetSubnet` carries that very gateway (a given gateway is
never overwritten), and that a picked address is not it. `AnnotationInv` ties
identities together: a uid belongs to one pod (`UidsCoherent`: in the API server, in
the store, in the job, in the owner reference, all below `nextUid`), so a MacvlanIP
whose owner exists was made from the annotations of that very pod, even though the
store lags and the name may have passed to another pod; `JobAnswers` says that what a
job has picked answers the annotations it carries.

*Labels.* `LabelInv` adds to the property that a name has one pod (`PodPerName`), that
what a job has read to update is one pod of the name of its item (`ReadIsPod`), and
that a picked address is on no other pod's label: the one worker is the only writer of labels, so what it
saw free stays free.

*The purge daemon.* What it goes by lags, and yet its verdicts are right: a filled
pod store has the owner of every MacvlanIP, and the pod of the running job, if they
exist (`OwnersStored`), because the worker makes a MacvlanIP only for a pod that
store has had, and a pod leaves it only when it is gone or its name is another's
(`StoreSteps`). `StoreInv` joins this to `AnnotationInv`, for the uids, and to `LabelInv`,
for the one pod of a name. `Removals` collects the steps that delete a MacvlanIP: the garbage
collector takes those of dead owners, the daemon the one it has condemned.

*Serving.* `LifeInv` is `UidsCoherent` with `NamesCoherent` (while no name is used
again a name has one uid, in whichever store it is seen) and `SeenFirst` (a MacvlanIP
exists only for a pod the pod store has seen). With both, a name missing from the
store the purge daemon asks is a pod that is gone. `ServingInv` adds that the
tries of a label update do not exceed the failures so far, and that the pod to be
updated is the one the API server has, or is deleted. `WrittenInv` adds `OnceFor`:
a key is announced, queued or worked on at most once, so no second attempt
picks an address after the first has made the object.

*Queue.* `IInv` adds to `QueueHoldsTheDirty` that a worker holds a key exactly while
its place says so, that no two hold one key, and that once all workers have ended
the queue is shut down and empty. A step of the queue is then an Accept, Take,
Release, Close or none of `PendingWork`. That no key is lost or worked on twice (`NoKeyIsLost`,
`OneWorkerPerKey`) is proved of `PendingWork` and carried over by the refinement.

*Services.* `IInv` follows the call from hop to hop: the ReplicaSet in hand is that
of a pod, the workload in hand owns a pod, the Service in hand has the name of such a
workload and its twin's values, and a Service without the annotation is a user's.

*Process.* `LifeInv`: launched workers mean filled stores and a `main` past the wait;
informers only advance until `Exit` resets everything. For namespaces, the property
says nothing while no watch is up and is not inductive when a late delete
notification takes the definition away. `NSInv` says that every Deleted note of a
namespace that is there and known is followed by an Added one (`DeletesAnswered`), and
that such a namespace has its definition, is announced or has failed, with or
without a watch (`KnownIsPending`). `NSSteps` shows that each step of `Process` is one of
`Namespaces`, or leaves it alone.

*Addresses as numbers.* `SubnetHosts` speaks of bytes and its reference of numbers,
so `AddressProofs` first proves, for bytes of any number of bits and addresses of any
number of bytes, that the operations on bytes are the operations on numbers: `bytes.Compare`
is `<` (`BeforeValue`), `incip` adds one and wraps from the last address to the first
(`IncValue`), sharing the first bits is lying in the same interval (`SharedBits`,
`NetworkInterval`), the network address exists, is unique and begins that interval
(`NetworkFirst`), and the mapped form has the same value with room for one more
(`MappedValue`, `IncInRange`). `AscendingSorts` shows that sorting a finite set of addresses
yields each once, in order. The installed provers cannot use the library's theorems that
take an operator as a parameter, so induction is over sets: `NatSetInduction` proves, from
the cardinality of finite sets, that a set of naturals with 0 and all successors is `Nat`,
and `NatFixpoint` that recursive definitions such as `Pow2` have the value they state.

*The loops.* `HostsInv` says that the loop over the CIDR has collected, in order, the hosts
below the address it is at, and all of them once it is outside: the distinction is
needed because the increment of the last address wraps to the first, which is below
everything. `RangesInv` says the same of the ranges begun so far, with the addresses
of the present one below the one the loop is at; there the mapped form keeps the increment
from wrapping. `FreeInv` is the complement. `HostsInv` speaks of /1 and longer prefixes:
`TypeInv` records that the loop over a /0 is never left. `LoopsComeToAnEnd` is the measure
behind `Terminates`; what is missing to that is fairness and ENABLED. `HostsFitTheController`
joins the two models: as numbers the wanted hosts are natural numbers other than 0, which
`ConstantsAssumption` asks of `Hosts`, and the first free one is what `Usable` and `Allocate` pick. The invariants and
the measure were checked with TLC on the instance of the run before they were proved.

*Only model-checked.* Liveness (`EventuallyServed`, `RetriesEnd`, `OrphansReclaimed`,
`Terminates`, `AddedIsTaken`, `FailedIsRetried`, `WorkersEnd`, `HeadlessGetsTwin`,
`SignalEnds`, `AnnouncedIsTaken`, `NamespaceGetsDefinition`), which TLAPS does not do
under fairness.

## 5. Plan

Done: all components that decide anything, their runs, and every safety property of
the passing runs as a theorem. Left:

1. The composition of `MacvlanController` with `WorkQueue` instead of its own set of
   dirty keys, should the number of workers ever be raised above one: list-then-create
   would then no longer be safe, and the model would show how.
2. `RollingUpdate` – two controllers on one API server, once there is leader election
   or another guarantee for them to keep.
3. Theorems under weaker hypotheses: which of the restarts and re-creations that
   `OneLife` excludes `ServedOrPending` and `LabelMatchesIP` survive. `PurgeTakesTheDead`
   is the one that came out of this already.

## 6. Running it

    tlc -config Allocation.cfg MCMacvlan.tla        # a minute, as most of them
    tlc -config SubnetHosts.cfg MCSubnetHosts.tla
    tlc -config WorkQueue.cfg WorkQueue.tla
    tlc -config ServiceSync.cfg MCServiceSync.tla
    tlc -config Process.cfg Process.tla
    tlapm MacvlanControllerProofs.tla               # and the other *Proofs modules
