------------------------- MODULE MacvlanController -------------------------
(***************************************************************************)
(* The address allocator of the macvlan network controller: one worker     *)
(* that gives every annotated pod a MacvlanIP object, the purge daemon     *)
(* that deletes the MacvlanIPs of pods that are gone, the subnet handler   *)
(* that fills in a missing gateway, the informer caches the first two read *)
(* and the API server they all write to.                                   *)
(*                                                                         *)
(* Every call to the API server is a step of its own, so everything that   *)
(* another actor may do between two calls of one handler is a behaviour of *)
(* this specification.                                                     *)
(***************************************************************************)
EXTENDS Naturals, Sequences

CONSTANTS
    Keys,            \* the namespace/name keys under which pods are created
    NsOf,            \* the namespace of each key
    Subnets,         \* the names of the MacvlanSubnets
    Hosts,           \* the addresses calcSubnetHosts yields for each subnet
    DefaultGateway,  \* the address CalcDefaultGateway yields for each subnet
    CreatedGateways, \* the gateways each subnet may be created with
    Annotations,     \* what the macvlan annotations of a pod may say
    Events,          \* the failures and disturbances that may happen
    MaxEvents,       \* how many of them happen in one behaviour
    RetrySteps       \* retry.DefaultRetry.Steps: the attempts at a pod update

(***************************************************************************)
(* Addresses and MACs are numbers.  NoIP is an empty gateway, or the       *)
(* selectedIp label of a pod that has none: net.ParseIP turns the empty    *)
(* string into nil, which equals no host, and 0 is no element of any       *)
(* Hosts[s].  NoMac is an empty MAC.                                       *)
(***************************************************************************)
NoIP  == 0
NoMac == 0

Modes == {"none", "auto", "single", "multiple", "invalid"}

Annotation == [mode: Modes, ips: Seq(Nat \ {NoIP}), macs: Seq(Nat),
               subnet: Subnets]

ASSUME ConstantsAssumption ==
    /\ DOMAIN NsOf = Keys
    /\ Hosts \in [Subnets -> SUBSET (Nat \ {NoIP})]
    /\ DefaultGateway \in [Subnets -> Nat]
    /\ CreatedGateways \in [Subnets -> SUBSET Nat]
    /\ Annotations \subseteq Annotation
    /\ MaxEvents \in Nat
    /\ RetrySteps \in Nat \ {0}

(***************************************************************************)
(* A single address is one address; a list of addresses joined by dashes   *)
(* is split into two or more.                                              *)
(***************************************************************************)
ASSUME AnnotationsAssumption ==
    \A ann \in Annotations :
        /\ ann.mode = "single" => Len(ann.ips) = 1
        /\ ann.mode = "multiple" => Len(ann.ips) >= 2

VARIABLES
    \* The objects the API server stores.
    pods,        \* pods, as records
    nextUid,     \* the uid of the next pod to be created
    names,       \* the keys under which a pod has been created
    macvlanips,  \* MacvlanIPs, as records
    subnets,     \* the names of the MacvlanSubnets that exist
    gateway,     \* the spec.gateway of each of them
    \* The informers of the controller process.
    podCache,    \* what the pod lister returns
    podsSynced,  \* HasSynced of the pod informer
    adds,        \* Add notifications not yet handed to enqueuePod, per key
    ipCache,     \* the keys of the MacvlanIPs the MacvlanIP lister returns
    ipsSynced,   \* HasSynced of the MacvlanIP informer
    subnetAdds,  \* subnets whose Add notification is not yet handled
    \* The work queue and the worker.
    dirty,       \* keys in the queue
    waiting,     \* keys in the delaying queue, to be added after a back-off
    job,         \* the item in process and how far doAddMacvlanIP has come
    \* The purge daemon.
    purgeTodo,   \* listed MacvlanIPs not yet looked at in this round
    purgeVictim, \* the MacvlanIP found without a pod and not yet deleted
    \* How many failures and disturbances have happened.
    events

cluster  == <<pods, nextUid, names, macvlanips, subnets, gateway>>
informer == <<podCache, podsSynced, adds, ipCache, ipsSynced, subnetAdds>>
queue    == <<dirty, waiting>>
purger   == <<purgeTodo, purgeVictim>>
vars     == <<cluster, informer, queue, job, purger, events>>

-----------------------------------------------------------------------------
(***************************************************************************)
(* Objects.  The hash label holds the SHA-1 of the ip annotation: two pods *)
(* carry the same hash exactly when their ip annotations are the same      *)
(* text, so the text itself stands for its hash.                           *)
(***************************************************************************)
IPText(ann) == <<ann.mode, ann.ips>>
NoText      == <<>>
Texts       == {IPText(ann) : ann \in Annotations} \cup {NoText}

Pod       == [key: Keys, uid: Nat, ann: Annotations,
              hash: Texts, selected: Nat]
CachedPod == [key: Keys, uid: Nat, ann: Annotations]
MacvlanIP == [key: Keys, uid: Nat, subnet: Subnets, ip: Nat, mac: Nat]

Idle == [pc |-> "idle"]
Job  == [pc: {"getSubnet", "listPods", "listIPs", "getPod", "updatePod",
              "create"},
         pod: CachedPod,      \* the pod read from the lister
         gw: Nat,             \* the gateway of the subnet that was fetched
         ip: Nat, mac: Nat,   \* the address picked so far
         read: SUBSET Pod,    \* the pod fetched to be updated, if any
         tries: Nat]          \* conflicts of that update so far

Cached(p)     == [key |-> p.key, uid |-> p.uid, ann |-> p.ann]
PodsOf(k)     == {p \in pods : p.key = k}
CachedPodOf(k) == {p \in podCache : p.key = k}
IPsOf(k)      == {m \in macvlanips : m.key = k}
Live(uid)     == \E p \in pods : p.uid = uid

TypeOK ==
    /\ pods \subseteq Pod
    /\ nextUid \in Nat
    /\ names \subseteq Keys
    /\ macvlanips \subseteq MacvlanIP
    /\ subnets \subseteq Subnets
    /\ gateway \in [Subnets -> Nat]
    /\ podCache \subseteq CachedPod
    /\ podsSynced \in BOOLEAN
    /\ adds \in [Keys -> Nat]
    /\ ipCache \subseteq Keys
    /\ ipsSynced \in BOOLEAN
    /\ subnetAdds \subseteq Subnets
    /\ dirty \subseteq Keys
    /\ waiting \subseteq Keys
    /\ job \in {Idle} \cup Job
    /\ purgeTodo \subseteq Keys
    /\ purgeVictim \subseteq Keys
    /\ events \in Nat

(***************************************************************************)
(* The state of a process that has just started: nothing listed, nothing   *)
(* queued, no item in process, the purge daemon before its first round.    *)
(***************************************************************************)
ProcessStarted ==
    /\ podCache = {}
    /\ podsSynced = FALSE
    /\ adds = [k \in Keys |-> 0]
    /\ ipCache = {}
    /\ ipsSynced = FALSE
    /\ subnetAdds = subnets
    /\ dirty = {}
    /\ waiting = {}
    /\ job = Idle
    /\ purgeTodo = {}
    /\ purgeVictim = {}

Init ==
    /\ pods = {}
    /\ nextUid = 1
    /\ names = {}
    /\ macvlanips = {}
    /\ subnets = {}
    /\ gateway = [s \in Subnets |-> NoIP]
    /\ events = 0
    /\ ProcessStarted

(***************************************************************************)
(* The failures and disturbances: a call that returns an error, an update  *)
(* that meets a conflict, a pod created under the name of an earlier one,  *)
(* an informer that lists again instead of watching, a restart of the      *)
(* controller.  Each one that happens counts against MaxEvents.            *)
(***************************************************************************)
Occurs(e) == e \in Events /\ events < MaxEvents /\ events' = events + 1
Quiet     == events' = events

-----------------------------------------------------------------------------
(***************************************************************************)
(* Users and the cluster.                                                  *)
(***************************************************************************)
CreateSubnet(s) ==
    /\ s \notin subnets
    /\ subnets' = subnets \cup {s}
    /\ \E g \in CreatedGateways[s] : gateway' = [gateway EXCEPT ![s] = g]
    /\ subnetAdds' = subnetAdds \cup {s}
    /\ UNCHANGED <<pods, nextUid, names, macvlanips, podCache, podsSynced, adds,
                   ipCache, ipsSynced, queue, job, purger, events>>

(***************************************************************************)
(* A name is used again when a StatefulSet, say, replaces its pod: that is *)
(* a disturbance, whereas the pods of a Deployment have names of their own.*)
(***************************************************************************)
CreatePod(k, ann) ==
    /\ PodsOf(k) = {}
    /\ pods' = pods \cup {[key |-> k, uid |-> nextUid, ann |-> ann,
                           hash |-> NoText, selected |-> NoIP]}
    /\ nextUid' = nextUid + 1
    /\ names' = names \cup {k}
    /\ \/ k \notin names /\ Quiet
       \/ k \in names /\ Occurs("recreatePod")
    /\ UNCHANGED <<macvlanips, subnets, gateway, informer, queue, job, purger>>

DeletePod(p) ==
    /\ pods' = pods \ {p}
    /\ UNCHANGED <<nextUid, names, macvlanips, subnets, gateway, informer,
                   queue, job, purger, events>>

(***************************************************************************)
(* The garbage collector deletes a MacvlanIP whose owner reference names a *)
(* pod that no longer exists.                                              *)
(***************************************************************************)
CollectGarbage(m) ==
    /\ ~Live(m.uid)
    /\ macvlanips' = macvlanips \ {m}
    /\ UNCHANGED <<pods, nextUid, names, subnets, gateway, informer, queue, job,
                   purger, events>>

-----------------------------------------------------------------------------
(***************************************************************************)
(* The informers.  The initial list fills the pod store and notifies the   *)
(* handler of every pod in it; afterwards the store follows the API server *)
(* one event at a time, and the notifications are handed over by another   *)
(* goroutine, some time later.                                             *)
(***************************************************************************)
SyncPods ==
    /\ ~podsSynced
    /\ podsSynced' = TRUE
    /\ podCache' = {Cached(p) : p \in pods}
    /\ adds' = [k \in Keys |-> IF PodsOf(k) = {} THEN 0 ELSE 1]
    /\ UNCHANGED <<cluster, ipCache, ipsSynced, subnetAdds, queue, job, purger,
                   events>>

SyncMacvlanIPs ==
    /\ ~ipsSynced
    /\ ipsSynced' = TRUE
    /\ ipCache' = {m.key : m \in macvlanips}
    /\ UNCHANGED <<cluster, podCache, podsSynced, adds, subnetAdds, queue, job,
                   purger, events>>

WatchPodAdd(p) ==
    /\ podsSynced
    /\ CachedPodOf(p.key) = {}
    /\ podCache' = podCache \cup {Cached(p)}
    /\ adds' = [adds EXCEPT ![p.key] = @ + 1]
    /\ UNCHANGED <<cluster, podsSynced, ipCache, ipsSynced, subnetAdds, queue,
                   job, purger, events>>

WatchPodDelete(c) ==
    /\ ~Live(c.uid)
    /\ podCache' = podCache \ {c}
    /\ UNCHANGED <<cluster, podsSynced, adds, ipCache, ipsSynced, subnetAdds,
                   queue, job, purger, events>>

(***************************************************************************)
(* A watch that broke is replaced by a new list.  A pod that was deleted   *)
(* and created again meanwhile is a Sync of a key the store knows: the     *)
(* store takes the new pod over and the handlers get an update, for which  *)
(* this controller registers no function.                                  *)
(***************************************************************************)
RelistPod(p) ==
    /\ podsSynced
    /\ \E c \in CachedPodOf(p.key) :
          /\ c.uid # p.uid
          /\ podCache' = (podCache \ {c}) \cup {Cached(p)}
    /\ Occurs("relist")
    /\ UNCHANGED <<cluster, podsSynced, adds, ipCache, ipsSynced, subnetAdds,
                   queue, job, purger>>

WatchMacvlanIP(k) ==
    /\ ipsSynced
    /\ k \in ipCache <=> IPsOf(k) = {}
    /\ ipCache' = IF k \in ipCache THEN ipCache \ {k} ELSE ipCache \cup {k}
    /\ UNCHANGED <<cluster, podCache, podsSynced, adds, ipsSynced, subnetAdds,
                   queue, job, purger, events>>

\* A variant that does not wait for a notification.
EnqueueUnasked(k) ==
    /\ adds' = [adds EXCEPT ![k] = @ - 1]
    /\ dirty' = dirty \cup {k}
    /\ UNCHANGED <<cluster, podCache, podsSynced, ipCache, ipsSynced,
                   subnetAdds, waiting, job, purger, events>>

EnqueuePod(k) ==
    /\ adds[k] > 0
    /\ adds' = [adds EXCEPT ![k] = @ - 1]
    /\ dirty' = dirty \cup {k}
    /\ UNCHANGED <<cluster, podCache, podsSynced, ipCache, ipsSynced,
                   subnetAdds, waiting, job, purger, events>>

(* The back-off of AddRateLimited has passed. *)
BackoffOver(k) ==
    /\ k \in waiting
    /\ waiting' = waiting \ {k}
    /\ dirty' = dirty \cup {k}
    /\ UNCHANGED <<cluster, informer, job, purger, events>>

(***************************************************************************)
(* onMacvlanSubnetAdd writes the subnet back with its labels and, if it    *)
(* has no gateway, with the default one.  An update that fails is logged,  *)
(* and nothing calls the handler for that subnet again.                    *)
(***************************************************************************)
OnMacvlanSubnetAdd(s) ==
    /\ s \in subnetAdds
    /\ subnetAdds' = subnetAdds \ {s}
    /\ \/ /\ gateway' = [gateway EXCEPT ![s] = IF @ = NoIP
                                                 THEN DefaultGateway[s] ELSE @]
          /\ Quiet
       \/ Occurs("updateSubnet") /\ UNCHANGED gateway
    /\ UNCHANGED <<pods, nextUid, names, macvlanips, subnets, podCache, podsSynced,
                   adds, ipCache, ipsSynced, queue, job, purger>>

-----------------------------------------------------------------------------
(***************************************************************************)
(* The worker.                                                             *)
(*                                                                         *)
(* How processNextWorkItem ends an item: with Forget when syncHandler      *)
(* returned nil, with AddRateLimited when it returned an error.            *)
(***************************************************************************)
\* A variant that forgets the key although syncHandler failed.
ReturnErrForgotten == job' = Idle /\ UNCHANGED waiting

ReturnNil == job' = Idle /\ UNCHANGED waiting
ReturnErr == job' = Idle /\ waiting' = waiting \cup {job.pod.key}

Continue(next) == job' = next /\ UNCHANGED waiting

IsMacvlanPod(c) == c.ann.mode # "none"

(***************************************************************************)
(* Get from the queue, and syncHandler up to doAddMacvlanIP.  A key whose  *)
(* pod is not in the store, or has no macvlan annotations, is forgotten.   *)
(***************************************************************************)
ProcessNextWorkItem(k) ==
    /\ podsSynced /\ ipsSynced
    /\ job = Idle
    /\ k \in dirty
    /\ dirty' = dirty \ {k}
    /\ \/ /\ \A c \in CachedPodOf(k) : ~IsMacvlanPod(c)
          /\ ReturnNil
       \/ \E c \in CachedPodOf(k) :
             /\ IsMacvlanPod(c)
             /\ Continue([pc |-> "getSubnet", pod |-> c, gw |-> NoIP,
                          ip |-> NoIP, mac |-> NoMac, read |-> {},
                          tries |-> 0])
    /\ UNCHANGED <<cluster, informer, purger, events>>

(***************************************************************************)
(* The annotation says which allocation follows.  Only a mac annotation    *)
(* with a dash in it is looked at, and only for a list of addresses.  An   *)
(* invalid ip annotation returns the err of the Get before it, nil.        *)
(***************************************************************************)
CountsDiffer(ann) == Len(ann.macs) >= 2 /\ Len(ann.macs) # Len(ann.ips)

Dispatch(ann, gw) ==
    \/ ann.mode = "auto" /\ Continue([job EXCEPT !.pc = "listIPs", !.gw = gw])
    \/ /\ ann.mode = "single"
       /\ Continue([job EXCEPT !.pc = "listIPs", !.gw = gw, !.ip = ann.ips[1]])
    \/ /\ ann.mode = "multiple"
       /\ ~CountsDiffer(ann)
       /\ Continue([job EXCEPT !.pc = "listPods", !.gw = gw])
    \/ ann.mode = "multiple" /\ CountsDiffer(ann) /\ ReturnErr
    \/ ann.mode = "invalid" /\ ReturnNil

GetSubnet ==
    /\ job.pc = "getSubnet"
    /\ \/ /\ job.pod.ann.subnet \in subnets
          /\ Dispatch(job.pod.ann, gateway[job.pod.ann.subnet])
          /\ Quiet
       \/ job.pod.ann.subnet \notin subnets /\ ReturnErr /\ Quiet
       \/ Occurs("getSubnet") /\ ReturnErr
    /\ UNCHANGED <<cluster, informer, dirty, purger>>

(***************************************************************************)
(* allocateMultipleIP takes the first address of the list that no pod of   *)
(* the namespace with the same ip annotation carries as its selectedIp     *)
(* label, the labels of the pod itself included.  The address brings the   *)
(* MAC at its last place in the list.                                      *)
(***************************************************************************)
\* A variant that looks at the labels of the pod itself only.
OwnLabelledIPs(c) == {p.selected : p \in {q \in PodsOf(c.key) : q.hash = IPText(c.ann)}}

LabelledIPs(c) ==
    {p.selected : p \in {q \in pods : /\ NsOf[q.key] = NsOf[c.key]
                                      /\ q.hash = IPText(c.ann)}}

MacsFor(ann, ip) ==
    IF Len(ann.macs) < 2
      THEN {NoMac}
      ELSE LET places == {i \in DOMAIN ann.macs : ann.ips[i] = ip}
           IN  {ann.macs[i] : i \in {j \in places : \A n \in places : n <= j}}

UnusedPlaces(c) ==
    {i \in DOMAIN c.ann.ips : c.ann.ips[i] \notin LabelledIPs(c)}

TakePlace(i) ==
    \E mac \in MacsFor(job.pod.ann, job.pod.ann.ips[i]) :
        Continue([job EXCEPT !.pc = "listIPs", !.mac = mac,
                             !.ip = job.pod.ann.ips[i]])

ListPods ==
    /\ job.pc = "listPods"
    /\ \/ /\ \E i \in UnusedPlaces(job.pod) :
                /\ \A j \in UnusedPlaces(job.pod) : i <= j
                /\ TakePlace(i)
          /\ Quiet
       \/ UnusedPlaces(job.pod) = {} /\ ReturnErr /\ Quiet
       \/ Occurs("listPods") /\ ReturnErr
    /\ UNCHANGED <<cluster, informer, dirty, purger>>

(***************************************************************************)
(* The part the three allocate functions share.  All MacvlanIPs of the     *)
(* subnet, in whatever namespace, are listed, and the gateway is added to  *)
(* the used addresses.  The err of the List is overwritten by the one of   *)
(* calcSubnetHosts: a List that fails yields an empty list.  Auto takes    *)
(* the lowest usable host, the other two the address they were given.      *)
(***************************************************************************)
\* Variants that leave out the addresses in use in auto mode, and the gateway.
UsableAutoUnchecked(used) ==
    LET all == Hosts[job.pod.ann.subnet] \ {job.gw}
    IN  IF job.pod.ann.mode = "auto" THEN all ELSE (all \ used) \cap {job.ip}

UsableWithGateway(used) ==
    LET free == Hosts[job.pod.ann.subnet] \ used
    IN  IF job.pod.ann.mode = "auto" THEN free ELSE free \cap {job.ip}

Usable(used) ==
    LET free == Hosts[job.pod.ann.subnet] \ (used \cup {job.gw})
    IN  IF job.pod.ann.mode = "auto" THEN free ELSE free \cap {job.ip}

Allocate(used) ==
    \/ Usable(used) = {} /\ ReturnErr
    \/ \E a \in Usable(used) :
          /\ \A b \in Usable(used) : a <= b
          /\ Continue([job EXCEPT !.pc = "getPod", !.ip = a])

\* A variant that overlooks the MacvlanIPs of pods that are gone.
IPsOfLivePodsIn(s) ==
    {m.ip : m \in {n \in macvlanips : n.subnet = s /\ Live(n.uid)}}

IPsIn(s) == {m.ip : m \in {n \in macvlanips : n.subnet = s}}

ListMacvlanIPs ==
    /\ job.pc = "listIPs"
    /\ \/ Allocate(IPsIn(job.pod.ann.subnet)) /\ Quiet
       \/ Allocate({}) /\ Occurs("listIPs")
    /\ UNCHANGED <<cluster, informer, dirty, purger>>

(***************************************************************************)
(* RetryOnConflict: get the pod, label it, update it, and start again when *)
(* the update meets a conflict.  When it gives up, or the get or the       *)
(* update fails otherwise, doAddMacvlanIP returns err and not retryErr;    *)
(* err is nil at that point.                                               *)
(***************************************************************************)
GetPod ==
    /\ job.pc = "getPod"
    /\ \/ /\ PodsOf(job.pod.key) # {}
          /\ Continue([job EXCEPT !.pc = "updatePod",
                                  !.read = PodsOf(job.pod.key)])
          /\ Quiet
       \/ PodsOf(job.pod.key) = {} /\ ReturnNil /\ Quiet
       \/ Occurs("getPod") /\ ReturnNil
    /\ UNCHANGED <<cluster, informer, dirty, purger>>

\* A variant that keeps the address a pod is already labelled with.
LabelledOnce(p) ==
    [p EXCEPT !.hash = IPText(job.pod.ann),
              !.selected = IF @ = NoIP THEN job.ip ELSE @]

Labelled(p) == [p EXCEPT !.hash = IPText(job.pod.ann), !.selected = job.ip]

UpdateApplied ==
    /\ job.read \subseteq pods
    /\ pods' = (pods \ job.read) \cup {Labelled(p) : p \in job.read}
    /\ Continue([job EXCEPT !.pc = "create"])

Conflict ==
    /\ UNCHANGED pods
    /\ \/ /\ job.tries + 1 < RetrySteps
          /\ Continue([job EXCEPT !.pc = "getPod", !.tries = @ + 1])
       \/ job.tries + 1 >= RetrySteps /\ ReturnNil

UpdatePod ==
    /\ job.pc = "updatePod"
    /\ \/ UpdateApplied /\ Quiet
       \/ /\ ~(job.read \subseteq pods)
          /\ PodsOf(job.pod.key) # {}
          /\ Conflict
          /\ Quiet
       \/ Conflict /\ Occurs("conflict")
       \/ PodsOf(job.pod.key) = {} /\ ReturnNil /\ UNCHANGED pods /\ Quiet
       \/ Occurs("updatePod") /\ ReturnNil /\ UNCHANGED pods
    /\ UNCHANGED <<nextUid, names, macvlanips, subnets, gateway, informer,
                   dirty, purger>>

(***************************************************************************)
(* The MacvlanIP has the name of the pod, and the uid of the pod that was  *)
(* read from the store as its owner.  If an object of that name exists,    *)
(* whatever it says, the create counts as done.                            *)
(***************************************************************************)
\* A variant that makes the pod fetched for the update the owner.
MakeMacvlanIPOfLatest ==
    [key |-> job.pod.key, uid |-> (CHOOSE p \in job.read : TRUE).uid,
     subnet |-> job.pod.ann.subnet, ip |-> job.ip, mac |-> job.mac]

MakeMacvlanIP ==
    [key |-> job.pod.key, uid |-> job.pod.uid, subnet |-> job.pod.ann.subnet,
     ip |-> job.ip, mac |-> job.mac]

\* A variant that returns the error of SyncService.
ReturnSyncError == ReturnNil \/ ReturnErr

(* SyncService follows, and its error is logged and no more.               *)
SyncAndReturn == ReturnNil

CreateMacvlanIP ==
    /\ job.pc = "create"
    /\ \/ /\ IPsOf(job.pod.key) = {}
          /\ macvlanips' = macvlanips \cup {MakeMacvlanIP}
          /\ SyncAndReturn
          /\ Quiet
       \/ IPsOf(job.pod.key) # {} /\ UNCHANGED macvlanips /\ SyncAndReturn /\ Quiet
       \/ Occurs("createIP") /\ UNCHANGED macvlanips /\ ReturnErr
       \/ /\ Occurs("createLost")    \* created, but the answer is an error
          /\ IPsOf(job.pod.key) = {}
          /\ macvlanips' = macvlanips \cup {MakeMacvlanIP}
          /\ ReturnErr
    /\ UNCHANGED <<pods, nextUid, names, subnets, gateway, informer, dirty, purger>>

-----------------------------------------------------------------------------
(***************************************************************************)
(* The purge daemon, started with the process and not only when the stores *)
(* are filled: it lists the MacvlanIPs of the store, looks each one's pod  *)
(* up by name in the pod store, and deletes, by name, the ones without.    *)
(***************************************************************************)
PurgeList ==
    /\ purgeTodo = {} /\ purgeVictim = {}
    /\ ipCache # {}
    /\ purgeTodo' = ipCache
    /\ UNCHANGED <<cluster, informer, queue, job, purgeVictim, events>>

\* A variant with the answer of isPodNotExist the wrong way round.
PurgeCheckInverted(k) ==
    /\ purgeVictim = {}
    /\ k \in purgeTodo
    /\ purgeTodo' = purgeTodo \ {k}
    /\ purgeVictim' = IF CachedPodOf(k) = {} THEN {} ELSE {k}
    /\ UNCHANGED <<cluster, informer, queue, job, events>>

PurgeCheck(k) ==
    /\ purgeVictim = {}
    /\ k \in purgeTodo
    /\ purgeTodo' = purgeTodo \ {k}
    /\ purgeVictim' = IF CachedPodOf(k) = {} THEN {k} ELSE {}
    /\ UNCHANGED <<cluster, informer, queue, job, events>>

\* A variant that deletes every MacvlanIP at once.
PurgeDeleteAll(k) ==
    /\ k \in purgeVictim
    /\ purgeVictim' = {}
    /\ macvlanips' = {} /\ Quiet
    /\ UNCHANGED <<pods, nextUid, names, subnets, gateway, informer, queue,
                   job, purgeTodo>>

PurgeDelete(k) ==
    /\ k \in purgeVictim
    /\ purgeVictim' = {}
    /\ \/ macvlanips' = macvlanips \ IPsOf(k) /\ Quiet
       \/ Occurs("deleteIP") /\ UNCHANGED macvlanips
    /\ UNCHANGED <<pods, nextUid, names, subnets, gateway, informer, queue, job,
                   purgeTodo>>

(***************************************************************************)
(* The controller process dies and its Deployment starts another one.      *)
(***************************************************************************)
Restart ==
    /\ Occurs("restart")
    /\ podCache' = {}
    /\ podsSynced' = FALSE
    /\ adds' = [k \in Keys |-> 0]
    /\ ipCache' = {}
    /\ ipsSynced' = FALSE
    /\ subnetAdds' = subnets
    /\ dirty' = {}
    /\ waiting' = {}
    /\ job' = Idle
    /\ purgeTodo' = {}
    /\ purgeVictim' = {}
    /\ UNCHANGED cluster

-----------------------------------------------------------------------------
Users ==
    \/ \E s \in Subnets : CreateSubnet(s)
    \/ \E k \in Keys, ann \in Annotations : CreatePod(k, ann)
    \/ \E p \in pods : DeletePod(p)
    \/ \E m \in macvlanips : CollectGarbage(m)

Informers ==
    \/ SyncPods
    \/ SyncMacvlanIPs
    \/ \E p \in pods : WatchPodAdd(p)
    \/ \E c \in podCache : WatchPodDelete(c)
    \/ \E p \in pods : RelistPod(p)
    \/ \E k \in Keys : WatchMacvlanIP(k)
    \/ \E k \in Keys : EnqueuePod(k)
    \/ \E k \in Keys : BackoffOver(k)
    \/ \E s \in Subnets : OnMacvlanSubnetAdd(s)

DoAddMacvlanIP ==
    \/ GetSubnet
    \/ ListPods
    \/ ListMacvlanIPs
    \/ GetPod
    \/ UpdatePod
    \/ CreateMacvlanIP

Purge ==
    \/ PurgeList
    \/ \E k \in Keys : PurgeCheck(k)
    \/ \E k \in Keys : PurgeDelete(k)

Next ==
    \/ Users
    \/ Informers
    \/ \E k \in Keys : ProcessNextWorkItem(k)
    \/ DoAddMacvlanIP
    \/ Purge
    \/ Restart

Spec == Init /\ [][Next]_vars

(***************************************************************************)
(* Every goroutine of the process keeps running, the API server answers    *)
(* and delivers its watch events, and a back-off ends.  The queue is first *)
(* in, first out: a key that keeps coming back is got again and again,     *)
(* although the worker is busy in between (SF).  Nothing is assumed of     *)
(* users or of the garbage collector.                                      *)
(***************************************************************************)
Fairness ==
    /\ WF_vars(SyncPods)
    /\ WF_vars(SyncMacvlanIPs)
    /\ WF_vars(\E p \in pods : WatchPodAdd(p))
    /\ WF_vars(\E c \in podCache : WatchPodDelete(c))
    /\ WF_vars(\E k \in Keys : WatchMacvlanIP(k))
    /\ \A k \in Keys : /\ WF_vars(EnqueuePod(k))
                       /\ WF_vars(BackoffOver(k))
                       /\ SF_vars(ProcessNextWorkItem(k))
    /\ \A s \in Subnets : WF_vars(OnMacvlanSubnetAdd(s))
    /\ WF_vars(DoAddMacvlanIP)
    /\ WF_vars(Purge)

FairSpec == Spec /\ Fairness

-----------------------------------------------------------------------------
(* Safety.                                                                 *)

(***************************************************************************)
(* No address of a subnet is given to two pods, whatever their namespaces, *)
(* although the addresses in use are read three calls before the new one   *)
(* is recorded (doAddMacvlanIP, macvlanip.go:67-114).                      *)
(***************************************************************************)
UniqueIPs ==
    \A m, n \in macvlanips : m.subnet = n.subnet /\ m.ip = n.ip => m = n

(***************************************************************************)
(* From the moment the worker has picked an address until it records it,   *)
(* nobody else is given that address, although it is only held in a local  *)
(* variable while pods are fetched, updated, retried (macvlanip.go:67-114).*)
(***************************************************************************)
PickedIPIsFree ==
    job.pc \in {"getPod", "updatePod", "create"} =>
        job.ip \notin IPsIn(job.pod.ann.subnet)

(***************************************************************************)
(* The MacvlanIP of a pod that exists is in the subnet the pod asked for,  *)
(* is a host of it, is one of the addresses the pod named unless it said   *)
(* auto, and has the MAC that stands at the place of that address in the   *)
(* list of MACs, if the pod gave one (a MAC beside a single address is     *)
(* another matter, see StaticMACHonoured).  The annotations are read from  *)
(* a store that lags, and a job started for one pod may end when another   *)
(* one has its name (macvlanip.go:45-47, 113).                             *)
(***************************************************************************)
HonoursAnnotation ==
    \A m \in macvlanips, p \in pods :
        m.uid = p.uid =>
            /\ m.key = p.key
            /\ m.subnet = p.ann.subnet
            /\ m.ip \in Hosts[m.subnet]
            /\ p.ann.mode # "auto" =>
                  \E i \in DOMAIN p.ann.ips :
                     /\ m.ip = p.ann.ips[i]
                     /\ p.ann.mode = "multiple" /\ Len(p.ann.macs) >= 2
                        => m.mac = p.ann.macs[i]

(***************************************************************************)
(* A pod that gives one address and one MAC gets both: the documentation   *)
(* of the network lets the user set a static ip or mac                     *)
(* (artifacts/poc/macvlan-network.md:94), and macvlanip.go:61-72 picks the *)
(* address and the MAC.                                                    *)
(***************************************************************************)
StaticMACHonoured ==
    \A m \in macvlanips, p \in pods :
        m.uid = p.uid /\ p.ann.mode = "single" /\ p.ann.macs # <<>>
        => m.mac = p.ann.macs[1]

(***************************************************************************)
(* The gateway of a subnet is never given to a pod, even when the list of  *)
(* the addresses in use could not be had (ipalloc.go:23-24).               *)
(***************************************************************************)
GatewayNeverAllocated ==
    \A m \in macvlanips : m.ip # gateway[m.subnet]

(***************************************************************************)
(* Two pods of a namespace that share a list of addresses never carry the  *)
(* same selectedIp label: the labels are what allocateMultipleIP goes by   *)
(* (ipalloc.go:182-197), and the label is written two calls after they are *)
(* read (macvlanip.go:100-103).                                            *)
(***************************************************************************)
SharedListLabelsDistinct ==
    \A p, q \in pods :
        /\ NsOf[p.key] = NsOf[q.key]
        /\ p.hash = q.hash /\ p.hash # NoText
        /\ p.hash[1] = "multiple"
        /\ p.selected = q.selected
        => p = q

(***************************************************************************)
(* The selectedIp label of a pod says which address its MacvlanIP has: the *)
(* label is written before the MacvlanIP (macvlanip.go:86-114), by calls   *)
(* that fail and are retried one by one.                                   *)
(***************************************************************************)
LabelMatchesIP ==
    \A m \in macvlanips, p \in pods : m.uid = p.uid => p.selected = m.ip

(***************************************************************************)
(* Every pod the informer has told the controller of, and that still       *)
(* exists, has its MacvlanIP, or is still to be worked on: no failure of a *)
(* call may make the controller forget it (controller.go:174-179).         *)
(***************************************************************************)
Pending(k) == \/ adds[k] > 0
              \/ k \in dirty \cup waiting
              \/ job # Idle /\ job.pod.key = k

ServedOrPending ==
    \A c \in podCache :
        c.ann.mode \in {"auto", "single", "multiple"} /\ Live(c.uid)
        => Pending(c.key) \/ \E m \in macvlanips : m.uid = c.uid

(***************************************************************************)
(* Once the pod store is filled, the purge daemon condemns no MacvlanIP    *)
(* whose pod exists, although it goes by a name, in two stores that lag,   *)
(* that are listed anew and whose names pass from pod to pod.  If it does  *)
(* delete the MacvlanIP of a pod that exists, then one that was made under *)
(* that name after the look, or that it condemned while the store was not  *)
(* yet filled (purge.go:37, 48-49).                                        *)
(***************************************************************************)
Condemned(m) == m.key \in purgeVictim /\ Live(m.uid)

PurgeDecidesOnTheDead ==
    [][/\ podsSynced => \A m \in macvlanips : Condemned(m)' => Condemned(m)
       /\ \A m \in macvlanips \ macvlanips' : Live(m.uid) => Condemned(m)]_vars

(***************************************************************************)
(* Seen as a pool of addresses, the MacvlanIPs change only by granting a   *)
(* free host of the subnet to a pod name that has none, and by releasing   *)
(* one address at a time: the detailed handlers, with every failure in     *)
(* them, implement AddressPool.                                            *)
(***************************************************************************)
Lease(m) == [key |-> m.key, subnet |-> m.subnet, ip |-> m.ip]
Leases   == {Lease(m) : m \in macvlanips}

Pool == INSTANCE AddressPool WITH leases <- Leases

ImplementsPool == Pool!PoolSpec

-----------------------------------------------------------------------------
(* Liveness.                                                               *)

(***************************************************************************)
(* No pod that asks for any address, or for one, stays without a MacvlanIP *)
(* for good while an address it could have is free for good, whichever     *)
(* call failed on the way, unless it is the pod update, whose error the    *)
(* worker does not see: every pod is worked on until it is served          *)
(* (controller.go:176-179, 198-201).  Pods with a list compete for the     *)
(* addresses; they may starve themselves (ipalloc.go:192).                 *)
(***************************************************************************)
FreeFor(p) ==
    {a \in Hosts[p.ann.subnet] \ (IPsIn(p.ann.subnet) \cup {gateway[p.ann.subnet]}) :
        \/ p.ann.mode = "auto"
        \/ p.ann.mode = "single" /\ p.ann.ips[1] = a}

Starved(k) ==
    \E p \in PodsOf(k) :
        /\ p.ann.mode \in {"auto", "single"}
        /\ p.ann.subnet \in subnets
        /\ FreeFor(p) # {}
        /\ \A m \in macvlanips : m.uid # p.uid

EventuallyServed == \A k \in Keys : []<>(~Starved(k))

(***************************************************************************)
(* Once a pod in auto mode has its MacvlanIP for good, and its subnet has  *)
(* an address to spare for good, its key leaves the queue for good         *)
(* (controller.go:203-205), although every restart takes it through the    *)
(* whole allocation again, and the retry after a lost answer does.  On a   *)
(* full subnet it would never come out (ipalloc.go:31-33).                 *)
(***************************************************************************)
HasRoom(s) == Hosts[s] \ (IPsIn(s) \cup {gateway[s]}) # {}

ServedWithRoom(k) ==
    \E m \in macvlanips, p \in PodsOf(k) :
        m.uid = p.uid /\ p.ann.mode = "auto" /\ HasRoom(m.subnet)

RetriesEnd ==
    \A k \in Keys : <>[]ServedWithRoom(k) => <>[](k \notin waiting)

(***************************************************************************)
(* The address of a pod that is gone does not stay taken: the MacvlanIP is *)
(* deleted, or a pod of that name is there again, even if the worker made  *)
(* the MacvlanIP when the pod was gone already, and even if a delete fails *)
(* (purge.go:40-60).                                                       *)
(***************************************************************************)
OrphansReclaimed ==
    \A k \in Keys : IPsOf(k) # {} /\ PodsOf(k) = {}
                    ~> IPsOf(k) = {} \/ PodsOf(k) # {}

=============================================================================
