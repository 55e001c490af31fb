---------------------------- MODULE ServiceSync ----------------------------
(***************************************************************************)
(* SyncService, which doAddMacvlanIP calls when the MacvlanIP of a pod is   *)
(* there: it looks for the workload that owns the pod, for the Service with *)
(* the name of the workload, and creates a second Service for the macvlan   *)
(* network beside it.  Every look and the create are API calls of their own,*)
(* and users and the garbage collector act between them.  doAddMacvlanIP    *)
(* logs what goes wrong and forgets it: a pod has one attempt per process,  *)
(* and none in a process in which its allocation does not succeed.          *)
(* One namespace; owner references do not leave it.                         *)
(***************************************************************************)
EXTENDS Integers, Sequences, Functions

CONSTANTS Pods,         \* pods that get a MacvlanIP
          Stuck,        \* those whose item need not get that far (again)
          OwnerRefs,    \* their owner references, sequences of [kind, name]
          ReplicaSets,  \* names of ReplicaSets
          RSOwnerRefs,  \* and the owner references of those
          Workloads,    \* DaemonSets, StatefulSets and Deployments, [kind, name]
          UserServices, \* Services users create
          Twin,         \* Twin[n] is the name n with "-macvlan" after it
          MaxPort,      \* 65535
          MaxFailures,  \* calls that fail
          MaxRestarts,  \* restarts without a panic
          MaxChanges    \* what users do

Names == DOMAIN Twin \cup Range(Twin)
AppKinds == {"DaemonSet", "StatefulSet", "Deployment"}

Headless == "None"     \* the clusterIP of a Service without one
Named == 0             \* IntValue of a targetPort that is the name of a port

\* The annotation with the network is the mark of a Service made here.
Service == [name : Names, clusterIP : STRING, port : 1 .. MaxPort + 1,
            targetPort : 0 .. MaxPort + 1, annotated : BOOLEAN]

Ref == [kind : STRING, name : STRING]

ASSUME ServiceAssumption ==
  /\ Stuck \subseteq Pods
  /\ OwnerRefs \in [Pods -> Seq(Ref)]
  /\ RSOwnerRefs \in [ReplicaSets -> Seq(Ref)]
  /\ Workloads \subseteq Ref
  /\ \A p \in Pods : \A i \in DOMAIN OwnerRefs[p] :
       OwnerRefs[p][i].kind = "ReplicaSet" => OwnerRefs[p][i].name \in ReplicaSets
  /\ MaxPort \in Nat
  /\ Twin \in [DOMAIN Twin -> STRING]
  /\ UserServices \subseteq Service
  /\ \A s \in UserServices :
       /\ s.name \in DOMAIN Twin /\ ~s.annotated
       /\ s.port <= MaxPort /\ s.targetPort <= MaxPort
  /\ MaxFailures \in Nat /\ MaxRestarts \in Nat /\ MaxChanges \in Nat

VARIABLES pods,        \* pods that exist
          replicaSets, \* ReplicaSets that exist
          workloads,   \* workloads that exist
          services,    \* Services that exist
          todo,        \* pods whose item has not reached SyncService
          job,         \* the running call: its next API call, what it keeps
          failures, restarts, changes

cluster == <<pods, replicaSets, workloads, services>>
faults == <<failures, restarts, changes>>
vars == <<cluster, todo, job, faults>>

Idle == [pc |-> "idle"]
Panic == [pc |-> "panic"]

\* The kinds of record a call can be.
Jobs ==
  {Idle, Panic}
    \cup [pc : {"getPod"}, pod : Pods]
    \cup [pc : {"getReplicaSet"}, replicaSet : ReplicaSets]
    \cup [pc : {"getApp", "getService"}, app : {r \in Ref : r.kind \in AppKinds}]
    \cup [pc : {"getTwin", "create"}, svc : Service]

TypeOK ==
  /\ pods \subseteq Pods
  /\ replicaSets \subseteq ReplicaSets
  /\ workloads \subseteq Workloads
  /\ services \subseteq Service
  /\ todo \subseteq Pods
  /\ failures \in 0 .. MaxFailures
  /\ restarts \in 0 .. MaxRestarts
  /\ changes \in 0 .. MaxChanges
  /\ job \in Jobs

Init ==
  /\ pods = Pods
  /\ replicaSets = ReplicaSets
  /\ workloads = Workloads
  /\ services = {}
  /\ todo = Pods
  /\ job = Idle
  /\ failures = 0
  /\ restarts = 0
  /\ changes = 0

Exists(n) == \E s \in services : s.name = n

-----------------------------------------------------------------------------
(* The API server's side of creating a Service.                            *)

\* A name is used once, an address is (vendor/k8s.io/api/core/v1/types.go:
\* 3465-3468), and a port has 16 bits.
Accepts(svc) ==
  /\ ~Exists(svc.name)
  /\ svc.clusterIP # Headless => \A s \in services : s.clusterIP # svc.clusterIP
  /\ svc.port <= MaxPort /\ svc.targetPort <= MaxPort

-----------------------------------------------------------------------------
(* SyncService.                                                            *)

\* SyncService returns; nil and an error are the same to its caller.
Return == job' = Idle

Goto(j) == job' = j

\* The first reference that findOwnerWorkload understands decides.
WorkloadRefs(p) ==
  {i \in DOMAIN OwnerRefs[p] : OwnerRefs[p][i].kind \in AppKinds \cup {"ReplicaSet"}}

FindOwnerWorkload(p) ==
  \/ WorkloadRefs(p) = {} /\ Return
  \/ \E i \in WorkloadRefs(p) :
       LET ref == OwnerRefs[p][i]
       IN  /\ \A j \in WorkloadRefs(p) : i <= j
           /\ \/ /\ ref.kind = "ReplicaSet"
                 /\ Goto([pc |-> "getReplicaSet", replicaSet |-> ref.name])
              \/ /\ ref.kind \in AppKinds
                 /\ Goto([pc |-> "getApp", app |-> ref])

\* The item of a pod reaches the end of doAddMacvlanIP.  Before that come the
\* allocation and the create, which may fail and be retried for ever.
SyncService(p) ==
  /\ job = Idle
  /\ p \in todo
  /\ todo' = todo \ {p}
  /\ Goto([pc |-> "getPod", pod |-> p])
  /\ UNCHANGED <<cluster, faults>>

GetPod ==
  /\ job.pc = "getPod"
  /\ IF job.pod \in pods /\ OwnerRefs[job.pod] # <<>>
     THEN FindOwnerWorkload(job.pod)
     ELSE Return
  /\ UNCHANGED <<cluster, todo, faults>>

\* A variant that takes the ReplicaSet for the workload.
GetReplicaSetOnly ==
  /\ job.pc = "getReplicaSet"
  /\ IF job.replicaSet \in replicaSets
     THEN Goto([pc |-> "getApp",
                app |-> [kind |-> "ReplicaSet", name |-> job.replicaSet]])
     ELSE Return
  /\ UNCHANGED <<cluster, todo, faults>>

\* The error for a ReplicaSet that is not owned by a Deployment quotes the kind
\* of its first owner, also when it has none.
GetReplicaSet ==
  /\ job.pc = "getReplicaSet"
  /\ LET owners == RSOwnerRefs[job.replicaSet]
     IN  \/ job.replicaSet \notin replicaSets /\ Return
         \/ /\ job.replicaSet \in replicaSets
            /\ \/ owners = <<>> /\ Goto(Panic)
               \/ owners # <<>> /\ owners[1].kind # "Deployment" /\ Return
               \/ /\ owners # <<>> /\ owners[1].kind = "Deployment"
                  /\ Goto([pc |-> "getApp", app |-> owners[1]])
  /\ UNCHANGED <<cluster, todo, faults>>

GetAppName ==
  /\ job.pc = "getApp"
  /\ IF job.app \in workloads THEN Goto([job EXCEPT !.pc = "getService"]) ELSE Return
  /\ UNCHANGED <<cluster, todo, faults>>

\* A variant that leaves the port of the Service as it is.
MakeServiceSamePort(svc) ==
  [svc EXCEPT !.name = Twin[@], !.targetPort = @ + 1, !.annotated = TRUE]

\* The spec is copied, the address of the Service with it.
MakeService(svc) ==
  [svc EXCEPT !.name = Twin[@], !.port = @ + 1, !.targetPort = @ + 1,
              !.annotated = TRUE]

\* A user's Service may have a name that ends in "-macvlan" itself; only the
\* Services of workloads are looked up, by the name of the workload.
GetService ==
  /\ job.pc = "getService"
  /\ \/ /\ ~Exists(job.app.name)
        /\ Return
     \/ \E s \in services :
          /\ s.name = job.app.name
          /\ Goto([pc |-> "getTwin", svc |-> MakeService(s)])
  /\ UNCHANGED <<cluster, todo, faults>>

\* A variant that gives up when the twin is not found.
GetTwinOrFail ==
  /\ job.pc = "getTwin"
  /\ Return
  /\ UNCHANGED <<cluster, todo, faults>>

\* createServiceIfNotExist: the look ...
GetTwin ==
  /\ job.pc = "getTwin"
  /\ IF Exists(job.svc.name) THEN Return ELSE Goto([job EXCEPT !.pc = "create"])
  /\ UNCHANGED <<cluster, todo, faults>>

\* A variant that replaces what is there by now.
CreateOrReplaceTwin ==
  /\ job.pc = "create"
  /\ services' = {s \in services : s.name # job.svc.name} \cup {job.svc}
  /\ Return
  /\ UNCHANGED <<pods, replicaSets, workloads, todo, faults>>

\* ... and the create, which the API server may refuse.
CreateTwin ==
  /\ job.pc = "create"
  /\ services' = services \cup (IF Accepts(job.svc) THEN {job.svc} ELSE {})
  /\ Return
  /\ UNCHANGED <<pods, replicaSets, workloads, todo, faults>>

\* Any call may fail, which ends the attempt.
CallFails ==
  /\ job \notin {Idle, Panic}
  /\ failures < MaxFailures
  /\ failures' = failures + 1
  /\ Return
  /\ UNCHANGED <<cluster, todo, restarts, changes>>

Calls ==
  GetPod \/ GetReplicaSet \/ GetAppName \/ GetService \/ GetTwin \/ CreateTwin

Worker == (\E p \in Pods : SyncService(p)) \/ Calls

\* A new process takes every pod up again, from the allocation on; no handler
\* recovers from a panic.
Restart ==
  /\ \/ job = Panic /\ UNCHANGED restarts
     \/ restarts < MaxRestarts /\ restarts' = restarts + 1
  /\ Return
  /\ todo' = pods
  /\ UNCHANGED <<cluster, failures, changes>>

-----------------------------------------------------------------------------
(* Users and the garbage collector.                                        *)

CreateService(svc) ==
  /\ Accepts(svc)
  /\ services' = services \cup {svc}
  /\ UNCHANGED <<pods, replicaSets, workloads>>

DeletePod(p) ==
  /\ p \in pods
  /\ pods' = pods \ {p}
  /\ UNCHANGED <<replicaSets, workloads, services>>

DeleteWorkload(a) ==
  /\ a \in workloads
  /\ workloads' = workloads \ {a}
  /\ replicaSets' = {r \in replicaSets : \A i \in DOMAIN RSOwnerRefs[r] :
                                            RSOwnerRefs[r][i] # a}
  /\ UNCHANGED <<pods, services>>

DeleteService(s) ==
  /\ s \in services
  /\ services' = services \ {s}
  /\ UNCHANGED <<pods, replicaSets, workloads>>

Users ==
  /\ changes < MaxChanges
  /\ changes' = changes + 1
  /\ \/ \E s \in UserServices : CreateService(s)
     \/ \E p \in Pods : DeletePod(p)
     \/ \E a \in Workloads : DeleteWorkload(a)
     \/ \E s \in services : DeleteService(s)
  /\ UNCHANGED <<todo, job, failures, restarts>>

-----------------------------------------------------------------------------
Next == Worker \/ CallFails \/ Restart \/ Users

Spec == Init /\ [][Next]_vars

\* The worker goes on, calls return, and a process that panicked is restarted.  A
\* pod in Stuck reaches SyncService only if the calls before it happen to succeed:
\* after a restart a static address is in use, by the pod itself
\* (ipalloc.go:114, 127), and so may be the last address of a subnet (30-33); and
\* a pod whose label update fails is forgotten (macvlanip.go:107-109).
Fairness ==
  /\ WF_vars(Calls \/ \E p \in Pods \ Stuck : SyncService(p))
  /\ WF_vars(job = Panic /\ Restart)

FairSpec == Spec /\ Fairness

-----------------------------------------------------------------------------
(* Properties.                                                             *)

\* The workload a pod belongs to: its first reference of a kind SyncService
\* knows, through the first owner of a ReplicaSet if it is one.
FirstRef(p, i) ==
  /\ i \in DOMAIN OwnerRefs[p]
  /\ \A j \in 1 .. i - 1 : OwnerRefs[p][j].kind \notin AppKinds \cup {"ReplicaSet"}

OwnedBy(p, a) ==
  \E i \in DOMAIN OwnerRefs[p] :
    /\ FirstRef(p, i)
    /\ \/ OwnerRefs[p][i] = a
       \/ /\ OwnerRefs[p][i].kind = "ReplicaSet"
          /\ RSOwnerRefs[OwnerRefs[p][i].name] # <<>>
          /\ RSOwnerRefs[OwnerRefs[p][i].name][1] = a

WorkloadOf(p) == {a \in Workloads : OwnedBy(p, a)}

\* s is the twin of a user's Service with the name of a workload of macvlan pods.
IsTwin(s) ==
  \E p \in Pods, u \in UserServices : \E a \in WorkloadOf(p) :
    /\ u.name = a.name
    /\ s.name = Twin[u.name]
    /\ s.clusterIP = u.clusterIP
    /\ s.port = u.port + 1
    /\ s.targetPort = u.targetPort + 1

\* Whatever comes and goes between the calls, a Service made here stands beside
\* the Service of a workload of macvlan pods: its name, one port above, the same
\* clusterIP.  A chain of twins, or the twin of a ReplicaSet, would break this.
TwinOfWorkloadService == \A s \in services : s.annotated => IsTwin(s)

\* The look and the create are two calls (service.go:118-127): whoever comes
\* between them, no call of SyncService changes or removes a Service.
ForeignServiceKept == [][job' # job => services \subseteq services']_vars

\* The workload of p has a headless Service with a port to spare, and no pod of a
\* ReplicaSet without owner is about.
Ready(p) ==
  /\ p \in pods
  /\ \A q \in pods, i \in 1 .. 2 :
       i \in DOMAIN OwnerRefs[q] /\ OwnerRefs[q][i].kind = "ReplicaSet" =>
         OwnerRefs[q][i].name \in replicaSets /\ RSOwnerRefs[OwnerRefs[q][i].name] # <<>>
  /\ \E a \in WorkloadOf(p) \cap workloads, s \in services :
       /\ s.name = a.name /\ s.clusterIP = Headless
       /\ s.port < MaxPort /\ s.targetPort < MaxPort

HasTwin(p) == \E a \in WorkloadOf(p) : Exists(Twin[a.name])

\* The attempt for p is ahead, and no restart takes it away: p gets through the
\* allocation in every process, or is through it in the last one.
Attempted(p) ==
  \/ p \in todo \ Stuck
  \/ restarts = MaxRestarts /\ job = [pc |-> "getPod", pod |-> p]

\* Only failing calls, a cluster address, a Service that comes after its pod, and
\* a restart after which the allocation fails (macvlanip.go:81-84) keep the twin
\* away: a pod that finds everything in place gets one, although it has a single
\* attempt, and restarts, users and other pods' calls come between.
HeadlessGetsTwin ==
  \A p \in Pods :
    (Attempted(p) /\ Ready(p) /\ failures = MaxFailures) ~> (HasTwin(p) \/ ~Ready(p))

\* service.go:61-64 means to return an error for a ReplicaSet without owners.
NeverPanics == job # Panic
=============================================================================
