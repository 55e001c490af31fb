-------------------------- MODULE ServiceSyncProofs --------------------------
(***************************************************************************)
(* Theorems about ServiceSync, for any pods, references, workloads and      *)
(* Services, any number of failures, restarts and changes.                  *)
(***************************************************************************)
EXTENDS ServiceSync, TLAPS

\* No workload has the name of a twin.  A Deployment "web-macvlan" would take the
\* twin of "web" for its own Service, and a chain of twins begins.
NoWorkloadNamedAsTwin == \A a \in Workloads : a.name \notin Range(Twin)

-----------------------------------------------------------------------------
(* The inductive invariant: what the running call has in hand is what the   *)
(* references of some pod lead to, whatever has been deleted meanwhile.      *)

\* A ReplicaSet is looked up for a pod whose deciding reference names it.
ReplicaSetOfPod ==
  job.pc = "getReplicaSet" =>
    \E p \in Pods : \E i \in DOMAIN OwnerRefs[p] :
      /\ FirstRef(p, i)
      /\ OwnerRefs[p][i].kind = "ReplicaSet"
      /\ OwnerRefs[p][i].name = job.replicaSet

\* What is looked up as a workload owns a pod, be it there or not.
AppOfPod == job.pc = "getApp" => \E p \in Pods : OwnedBy(p, job.app)

\* A Service is looked up for a workload only.
ServiceOfApp == job.pc = "getService" => \E p \in Pods : job.app \in WorkloadOf(p)

\* What is to be created is a twin with the mark on it.
TwinInHand ==
  job.pc \in {"getTwin", "create"} => job.svc.annotated /\ IsTwin(job.svc)

\* A Service without the mark is a user's, as the user made it.
UnmarkedIsUsers == \A s \in services : ~s.annotated => s \in UserServices

IInv ==
  /\ TypeOK
  /\ ReplicaSetOfPod
  /\ AppOfPod
  /\ ServiceOfApp
  /\ TwinInHand
  /\ UnmarkedIsUsers
  /\ TwinOfWorkloadService

\* The parts that speak of the running call alone.
JobInv == ReplicaSetOfPod /\ AppOfPod /\ ServiceOfApp /\ TwinInHand

\* What the next call of a job says of its record.
LEMMA JobShape ==
  ASSUME NEW j \in Jobs
  PROVE  /\ j.pc = "getPod" => j.pod \in Pods
         /\ j.pc = "getReplicaSet" => j.replicaSet \in ReplicaSets
         /\ j.pc \in {"getApp", "getService"} =>
              j = [pc |-> j.pc, app |-> j.app] /\ j.app \in Ref /\ j.app.kind \in AppKinds
         /\ j.pc \in {"getTwin", "create"} =>
              j = [pc |-> j.pc, svc |-> j.svc] /\ j.svc \in Service
<1>1. CASE j \in {Idle, Panic}
  BY <1>1 DEF Idle, Panic
<1>2. CASE j \in [pc : {"getPod"}, pod : Pods]
  BY <1>2
<1>3. CASE j \in [pc : {"getReplicaSet"}, replicaSet : ReplicaSets]
  BY <1>3
<1>4. CASE j \in [pc : {"getApp", "getService"}, app : {r \in Ref : r.kind \in AppKinds}]
  BY <1>4
<1>5. CASE j \in [pc : {"getTwin", "create"}, svc : Service]
  BY <1>5
<1> QED BY <1>1, <1>2, <1>3, <1>4, <1>5 DEF Jobs

\* A call that has returned claims nothing.
LEMMA ReturnKeeps ==
  ASSUME job' \in {Idle, Panic}
  PROVE  job' \in Jobs /\ JobInv'
BY DEF Jobs, JobInv, Idle, Panic, ReplicaSetOfPod, AppOfPod, ServiceOfApp, TwinInHand

LEMMA InitIInv == Init => IInv
<1> SUFFICES ASSUME Init PROVE IInv
  OBVIOUS
<1>1. TypeOK
  BY ServiceAssumption DEF Init, TypeOK, Jobs, Idle
<1>2. ReplicaSetOfPod /\ AppOfPod /\ ServiceOfApp /\ TwinInHand
  BY DEF Init, Idle, ReplicaSetOfPod, AppOfPod, ServiceOfApp, TwinInHand
<1>3. UnmarkedIsUsers /\ TwinOfWorkloadService
  BY DEF Init, UnmarkedIsUsers, TwinOfWorkloadService
<1> QED BY <1>1, <1>2, <1>3 DEF IInv

-----------------------------------------------------------------------------
(* The looks, one after the other.                                         *)

LEMMA FindOwnerFacts ==
  ASSUME NEW p \in Pods, FindOwnerWorkload(p)
  PROVE  job' \in Jobs /\ JobInv'
<1>1. CASE Return
  BY <1>1, ReturnKeeps DEF Return
<1>2. ASSUME NEW i \in WorkloadRefs(p), \A j \in WorkloadRefs(p) : i <= j
      PROVE  FirstRef(p, i) /\ OwnerRefs[p][i] \in Ref
  <2>1. OwnerRefs[p] \in Seq(Ref)
    BY ServiceAssumption
  <2>2. /\ i \in DOMAIN OwnerRefs[p] /\ i \in Nat
        /\ OwnerRefs[p][i] \in Ref
        /\ \A j \in 1 .. i - 1 : j \in DOMAIN OwnerRefs[p]
    BY <1>2, <2>1 DEF WorkloadRefs
  <2>3. ASSUME NEW j \in 1 .. i - 1 PROVE j \notin WorkloadRefs(p)
    BY <1>2, <2>2
  <2> QED BY <2>2, <2>3 DEF FirstRef, WorkloadRefs
<1>3. ASSUME NEW i \in WorkloadRefs(p), \A j \in WorkloadRefs(p) : i <= j,
             OwnerRefs[p][i].kind = "ReplicaSet",
             Goto([pc |-> "getReplicaSet", replicaSet |-> OwnerRefs[p][i].name])
      PROVE  job' \in Jobs /\ JobInv'
  <2>1. /\ i \in DOMAIN OwnerRefs[p] /\ FirstRef(p, i)
        /\ OwnerRefs[p][i].name \in ReplicaSets
    BY <1>2, <1>3, ServiceAssumption DEF WorkloadRefs
  <2>2. /\ job' = [pc |-> "getReplicaSet", replicaSet |-> OwnerRefs[p][i].name]
        /\ job'.pc = "getReplicaSet" /\ job'.replicaSet = OwnerRefs[p][i].name
    BY <1>3 DEF Goto
  <2>3. job' \in Jobs
    BY <2>1, <2>2 DEF Jobs
  <2>4. ReplicaSetOfPod'
    BY <1>3, <2>1, <2>2 DEF ReplicaSetOfPod
  <2> QED BY <2>2, <2>3, <2>4 DEF JobInv, AppOfPod, ServiceOfApp, TwinInHand
<1>4. ASSUME NEW i \in WorkloadRefs(p), \A j \in WorkloadRefs(p) : i <= j,
             OwnerRefs[p][i].kind \in AppKinds,
             Goto([pc |-> "getApp", app |-> OwnerRefs[p][i]])
      PROVE  job' \in Jobs /\ JobInv'
  <2>1. /\ i \in DOMAIN OwnerRefs[p] /\ FirstRef(p, i) /\ OwnerRefs[p][i] \in Ref
    BY <1>2, <1>4 DEF WorkloadRefs
  <2>2. /\ job' = [pc |-> "getApp", app |-> OwnerRefs[p][i]]
        /\ job'.pc = "getApp" /\ job'.app = OwnerRefs[p][i]
    BY <1>4 DEF Goto
  <2>3. job' \in Jobs
    BY <1>4, <2>1, <2>2 DEF Jobs
  <2>4. AppOfPod'
    BY <2>1, <2>2 DEF AppOfPod, OwnedBy
  <2> QED BY <2>2, <2>3, <2>4 DEF JobInv, ReplicaSetOfPod, ServiceOfApp, TwinInHand
<1> QED BY <1>1, <1>3, <1>4 DEF FindOwnerWorkload

LEMMA ReplicaSetFacts ==
  ASSUME IInv, GetReplicaSet
  PROVE  job' \in Jobs /\ JobInv'
<1> DEFINE owners == RSOwnerRefs[job.replicaSet]
<1>1. CASE Return \/ Goto(Panic)
  BY <1>1, ReturnKeeps DEF Return, Goto
<1>2. CASE /\ owners # <<>> /\ owners[1].kind = "Deployment"
           /\ Goto([pc |-> "getApp", app |-> owners[1]])
  <2>1. job.pc = "getReplicaSet" /\ job.replicaSet \in ReplicaSets
    BY JobShape DEF GetReplicaSet, IInv, TypeOK
  <2>2. owners \in Seq(Ref)
    BY <2>1, ServiceAssumption
  <2>3. owners[1] \in Ref /\ owners[1].kind \in AppKinds
    BY <1>2, <2>2 DEF AppKinds
  <2>4. PICK p \in Pods : OwnedBy(p, owners[1])
    BY <1>2, <2>1 DEF IInv, ReplicaSetOfPod, OwnedBy
  <2> HIDE DEF owners
  <2>5. /\ job' = [pc |-> "getApp", app |-> owners[1]]
        /\ job'.pc = "getApp" /\ job'.app = owners[1]
    BY <1>2 DEF Goto
  <2>6. job' \in Jobs
    BY <2>3, <2>5 DEF Jobs
  <2>7. AppOfPod'
    BY <2>4, <2>5 DEF AppOfPod, OwnedBy, FirstRef
  <2> QED BY <2>5, <2>6, <2>7 DEF JobInv, ReplicaSetOfPod, ServiceOfApp, TwinInHand
<1> QED BY <1>1, <1>2 DEF GetReplicaSet

LEMMA AppFacts ==
  ASSUME IInv, GetAppName
  PROVE  job' \in Jobs /\ JobInv'
<1>1. CASE Return
  BY <1>1, ReturnKeeps DEF Return
<1>2. CASE job.app \in workloads /\ Goto([job EXCEPT !.pc = "getService"])
  <2>1. /\ job.pc = "getApp" /\ job = [pc |-> job.pc, app |-> job.app]
        /\ job.app \in Ref /\ job.app.kind \in AppKinds
    BY JobShape DEF GetAppName, IInv, TypeOK
  <2>2. job' = [pc |-> "getService", app |-> job.app]
    BY <1>2, <2>1 DEF Goto
  <2>3. job'.pc = "getService" /\ job'.app = job.app
    BY <2>2
  <2>4. PICK p \in Pods : job.app \in WorkloadOf(p)
    BY <1>2, <2>1 DEF IInv, AppOfPod, WorkloadOf, TypeOK
  <2>5. job' \in Jobs
    BY <2>1, <2>2 DEF Jobs
  <2>6. ServiceOfApp'
    BY <2>3, <2>4 DEF ServiceOfApp, WorkloadOf, OwnedBy, FirstRef
  <2> QED BY <2>3, <2>5, <2>6 DEF JobInv, ReplicaSetOfPod, AppOfPod, TwinInHand
<1> QED BY <1>1, <1>2 DEF GetAppName

\* This is where a twin of a twin would come from.
LEMMA ServiceFacts ==
  ASSUME IInv, NoWorkloadNamedAsTwin, GetService
  PROVE  job' \in Jobs /\ JobInv'
<1>1. CASE Return
  BY <1>1, ReturnKeeps DEF Return
<1>2. ASSUME NEW s \in services, s.name = job.app.name,
             Goto([pc |-> "getTwin", svc |-> MakeService(s)])
      PROVE  job' \in Jobs /\ JobInv'
  <2>1. job.pc = "getService"
    BY DEF GetService
  <2>2. PICK p \in Pods : job.app \in WorkloadOf(p)
    BY <2>1 DEF IInv, ServiceOfApp
  <2>3. job.app \in Workloads /\ s.name \notin Range(Twin)
    BY <1>2, <2>2 DEF WorkloadOf, NoWorkloadNamedAsTwin
  <2>4. s \in Service
    BY DEF IInv, TypeOK
  <2>5. s \in UserServices
    <3> SUFFICES ASSUME s.annotated PROVE FALSE
      BY <2>4 DEF IInv, UnmarkedIsUsers, Service
    <3>1. PICK u \in UserServices : s.name = Twin[u.name]
      BY DEF IInv, TwinOfWorkloadService, IsTwin
    <3> QED BY <2>3, <3>1, ServiceAssumption DEF Range
  <2>6. s.name \in DOMAIN Twin /\ s.port <= MaxPort /\ s.targetPort <= MaxPort
    BY <2>5, ServiceAssumption
  <2> DEFINE t == MakeService(s)
  <2>7. /\ t.name = Twin[s.name] /\ t.clusterIP = s.clusterIP
        /\ t.port = s.port + 1 /\ t.targetPort = s.targetPort + 1 /\ t.annotated
    BY <2>4 DEF MakeService, Service
  <2>8. t \in Service
    <3>1. Twin[s.name] \in Names
      BY <2>6 DEF Names, Range
    <3>2. s.port + 1 \in 1 .. MaxPort + 1 /\ s.targetPort + 1 \in 0 .. MaxPort + 1
      BY <2>4, <2>6, ServiceAssumption DEF Service
    <3> QED BY <2>4, <3>1, <3>2 DEF MakeService, Service
  <2>9. IsTwin(t)
    BY <1>2, <2>2, <2>5, <2>7 DEF IsTwin
  <2> HIDE DEF t
  <2>10. job' = [pc |-> "getTwin", svc |-> t] /\ job'.pc = "getTwin" /\ job'.svc = t
    BY <1>2 DEF Goto, t
  <2>11. job' \in Jobs
    BY <2>8, <2>10 DEF Jobs
  <2>12. TwinInHand'
    BY <2>7, <2>9, <2>10 DEF TwinInHand, IsTwin, WorkloadOf, OwnedBy, FirstRef
  <2> QED BY <2>10, <2>11, <2>12 DEF JobInv, ReplicaSetOfPod, AppOfPod, ServiceOfApp
<1> QED BY <1>1, <1>2 DEF GetService

LEMMA TwinFacts ==
  ASSUME IInv, GetTwin
  PROVE  job' \in Jobs /\ JobInv'
<1>1. CASE Return
  BY <1>1, ReturnKeeps DEF Return
<1>2. CASE Goto([job EXCEPT !.pc = "create"])
  <2>1. job.pc = "getTwin" /\ job = [pc |-> job.pc, svc |-> job.svc] /\ job.svc \in Service
    BY JobShape DEF GetTwin, IInv, TypeOK
  <2>2. job' = [pc |-> "create", svc |-> job.svc]
    BY <1>2, <2>1 DEF Goto
  <2>3. job'.pc = "create" /\ job'.svc = job.svc
    BY <2>2
  <2>4. job' \in Jobs
    BY <2>1, <2>2 DEF Jobs
  <2>5. TwinInHand'
    BY <2>1, <2>3 DEF IInv, TwinInHand, IsTwin, WorkloadOf, OwnedBy, FirstRef
  <2> QED BY <2>3, <2>4, <2>5 DEF JobInv, ReplicaSetOfPod, AppOfPod, ServiceOfApp
<1> QED BY <1>1, <1>2 DEF GetTwin

-----------------------------------------------------------------------------
(* The steps.                                                              *)

\* A look changes nothing but the call.
LEMMA LookKeeps ==
  ASSUME IInv, UNCHANGED <<cluster, faults>>, todo' \subseteq Pods, job' \in Jobs, JobInv'
  PROVE  IInv'
BY DEF IInv, JobInv, TypeOK, cluster, faults, UnmarkedIsUsers,
       TwinOfWorkloadService, IsTwin, WorkloadOf, OwnedBy, FirstRef

\* A call that goes on, with Services that are users' or twins.
LEMMA ServicesKeep ==
  ASSUME IInv, UNCHANGED job, services' \subseteq services \cup UserServices
  PROVE  /\ services' \subseteq Service /\ job' \in Jobs /\ JobInv'
         /\ UnmarkedIsUsers' /\ TwinOfWorkloadService'
<1>1. JobInv' /\ job' \in Jobs
  BY DEF IInv, JobInv, TypeOK, ReplicaSetOfPod, AppOfPod, ServiceOfApp, TwinInHand,
         IsTwin, WorkloadOf, OwnedBy, FirstRef
<1>2. services' \subseteq Service /\ UnmarkedIsUsers'
  BY ServiceAssumption DEF IInv, TypeOK, UnmarkedIsUsers
<1>3. TwinOfWorkloadService'
  BY ServiceAssumption DEF IInv, TwinOfWorkloadService, IsTwin, WorkloadOf, OwnedBy, FirstRef
<1> QED BY <1>1, <1>2, <1>3

LEMMA WorkerStep ==
  ASSUME IInv, NoWorkloadNamedAsTwin, Worker
  PROVE  IInv'
<1>1. ASSUME NEW p \in Pods, SyncService(p) PROVE IInv'
  <2>1. job' = [pc |-> "getPod", pod |-> p] /\ job'.pc = "getPod"
    BY <1>1 DEF SyncService, Goto
  <2>2. job' \in Jobs /\ JobInv'
    BY <2>1 DEF Jobs, JobInv, ReplicaSetOfPod, AppOfPod, ServiceOfApp, TwinInHand
  <2> QED BY <1>1, <2>2, LookKeeps DEF SyncService, IInv, TypeOK
<1>2. CASE GetPod
  <2>1. job.pod \in Pods
    BY <1>2, JobShape DEF GetPod, IInv, TypeOK
  <2>2. job' \in Jobs /\ JobInv'
    BY <1>2, <2>1, FindOwnerFacts, ReturnKeeps DEF GetPod, Return
  <2> QED BY <1>2, <2>2, LookKeeps DEF GetPod, IInv, TypeOK
<1>3. CASE GetReplicaSet
  BY <1>3, ReplicaSetFacts, LookKeeps DEF GetReplicaSet, IInv, TypeOK
<1>4. CASE GetAppName
  BY <1>4, AppFacts, LookKeeps DEF GetAppName, IInv, TypeOK
<1>5. CASE GetService
  BY <1>5, ServiceFacts, LookKeeps DEF GetService, IInv, TypeOK
<1>6. CASE GetTwin
  BY <1>6, TwinFacts, LookKeeps DEF GetTwin, IInv, TypeOK
<1>7. CASE CreateTwin
  <2>1. /\ job.svc \in Service /\ job.svc.annotated /\ IsTwin(job.svc)
    BY <1>7, JobShape DEF CreateTwin, IInv, TypeOK, TwinInHand
  <2>2. services' \subseteq services \cup {job.svc}
    BY <1>7 DEF CreateTwin
  <2>3. services' \subseteq Service /\ UnmarkedIsUsers'
    BY <2>1, <2>2 DEF IInv, TypeOK, UnmarkedIsUsers
  <2>4. TwinOfWorkloadService'
    BY <2>1, <2>2
    DEF IInv, TwinOfWorkloadService, IsTwin, WorkloadOf, OwnedBy, FirstRef
  <2>5. job' \in Jobs /\ JobInv'
    BY <1>7, ReturnKeeps DEF CreateTwin, Return
  <2> QED BY <1>7, <2>3, <2>4, <2>5 DEF CreateTwin, IInv, JobInv, TypeOK, faults
<1> QED BY <1>1, <1>2, <1>3, <1>4, <1>5, <1>6, <1>7 DEF Worker, Calls

LEMMA UsersStep ==
  ASSUME IInv, Users
  PROVE  IInv'
<1>1. services' \subseteq services \cup UserServices
  BY DEF Users, CreateService, DeletePod, DeleteWorkload, DeleteService
<1>2. pods' \subseteq Pods /\ replicaSets' \subseteq ReplicaSets /\ workloads' \subseteq Workloads
  BY DEF Users, CreateService, DeletePod, DeleteWorkload, DeleteService, IInv, TypeOK
<1>3. changes' \in 0 .. MaxChanges
  BY ServiceAssumption DEF Users, IInv, TypeOK
<1>4. UNCHANGED <<todo, job, failures, restarts>>
  BY DEF Users
<1> QED BY <1>1, <1>2, <1>3, <1>4, ServicesKeep DEF IInv, JobInv, TypeOK

LEMMA NextIInv == IInv /\ NoWorkloadNamedAsTwin /\ [Next]_vars => IInv'
<1> SUFFICES ASSUME IInv, NoWorkloadNamedAsTwin, [Next]_vars PROVE IInv'
  OBVIOUS
<1>1. CASE Worker
  BY <1>1, WorkerStep
<1>2. CASE CallFails
  <2>1. job' \in Jobs /\ JobInv'
    BY <1>2, ReturnKeeps DEF CallFails, Return
  <2>2. failures' \in 0 .. MaxFailures
    BY <1>2, ServiceAssumption DEF CallFails, IInv, TypeOK
  <2>3. UnmarkedIsUsers' /\ TwinOfWorkloadService'
    BY <1>2 DEF CallFails, IInv, cluster, UnmarkedIsUsers, TwinOfWorkloadService, IsTwin,
                WorkloadOf, OwnedBy, FirstRef
  <2> QED BY <1>2, <2>1, <2>2, <2>3 DEF CallFails, IInv, JobInv, TypeOK, cluster
<1>3. CASE Restart
  <2>1. job' \in Jobs /\ JobInv'
    BY <1>3, ReturnKeeps DEF Restart, Return
  <2>2. restarts' \in 0 .. MaxRestarts /\ todo' \subseteq Pods
    BY <1>3, ServiceAssumption DEF Restart, IInv, TypeOK
  <2>3. UnmarkedIsUsers' /\ TwinOfWorkloadService'
    BY <1>3 DEF Restart, IInv, cluster, UnmarkedIsUsers, TwinOfWorkloadService, IsTwin,
                WorkloadOf, OwnedBy, FirstRef
  <2> QED BY <1>3, <2>1, <2>2, <2>3 DEF Restart, IInv, JobInv, TypeOK, cluster
<1>4. CASE Users
  BY <1>4, UsersStep
<1>5. CASE UNCHANGED vars
  <2>1. UNCHANGED <<cluster, faults>> /\ UNCHANGED <<todo, job>>
    BY <1>5 DEF vars
  <2>2. job' \in Jobs /\ JobInv'
    BY <2>1, ServicesKeep DEF cluster
  <2> QED BY <2>1, <2>2, LookKeeps DEF IInv, TypeOK
<1> QED BY <1>1, <1>2, <1>3, <1>4, <1>5 DEF Next

-----------------------------------------------------------------------------
(* The theorems.                                                           *)

LEMMA InvariantHolds == ASSUME NoWorkloadNamedAsTwin PROVE Spec => []IInv
<1>1. IInv /\ [Next]_vars => IInv'
  BY NextIInv
<1> QED BY <1>1, InitIInv, PTL DEF Spec

\* SyncService never has anything in hand but a workload of a supported kind, a
\* ReplicaSet of the cluster, or a Service with a port to try.
THEOREM ServiceTypeCorrect == ASSUME NoWorkloadNamedAsTwin PROVE Spec => []TypeOK
<1>1. IInv => TypeOK
  BY DEF IInv
<1> QED BY <1>1, InvariantHolds, PTL

\* Unless a workload has the name of a twin, every Service that SyncService made
\* (service.go:78-127) stands beside a user's Service of a workload of a macvlan
\* pod, whatever users delete, create or replace between its calls.
THEOREM TwinsBelong == ASSUME NoWorkloadNamedAsTwin PROVE Spec => []TwinOfWorkloadService
<1>1. IInv => TwinOfWorkloadService
  BY DEF IInv
<1> QED BY <1>1, InvariantHolds, PTL

\* No step of SyncService, nor a failure or a restart, changes or removes a
\* Service that is there (service.go:118-127).
THEOREM ServicesKept == Spec => ForeignServiceKept
<1>1. [Next]_vars => [job' # job => services \subseteq services']_vars
  BY DEF Next, Worker, Calls, SyncService, GetPod, GetReplicaSet, GetAppName, GetService, GetTwin,
         CreateTwin, CallFails, Restart, Users, cluster, vars
<1> QED BY <1>1, PTL DEF Spec, ForeignServiceKept

-----------------------------------------------------------------------------
(* The panic.                                                              *)

\* Every ReplicaSet has an owner, as those of a Deployment do.
ReplicaSetsOwned == \A r \in ReplicaSets : RSOwnerRefs[r] # <<>>

\* Which of the jobs that the next call extends are records of two fields.
JobFields ==
  /\ job.pc = "getApp" => job = [pc |-> "getApp", app |-> job.app]
  /\ job.pc = "getTwin" => job = [pc |-> "getTwin", svc |-> job.svc]

NoPanicInv == replicaSets \subseteq ReplicaSets /\ JobFields /\ NeverPanics

\* What a call leaves as the next job, none of it a panic.
LEMMA NoPanicJobs ==
  ASSUME \/ job' \in {Idle, job}
         \/ \E x : job' \in {[pc |-> "getPod", pod |-> x],
                             [pc |-> "getReplicaSet", replicaSet |-> x],
                             [pc |-> "getApp", app |-> x],
                             [pc |-> "getService", app |-> x],
                             [pc |-> "getTwin", svc |-> x],
                             [pc |-> "create", svc |-> x]},
         NoPanicInv
  PROVE  JobFields' /\ NeverPanics'
<1>1. CASE job' \in {Idle, job}
  BY <1>1 DEF NoPanicInv, JobFields, NeverPanics, Idle, Panic
<1>2. ASSUME NEW x, job' \in {[pc |-> "getPod", pod |-> x],
                             [pc |-> "getReplicaSet", replicaSet |-> x],
                             [pc |-> "getApp", app |-> x],
                             [pc |-> "getService", app |-> x],
                             [pc |-> "getTwin", svc |-> x],
                             [pc |-> "create", svc |-> x]}
      PROVE  JobFields' /\ NeverPanics'
  BY <1>2 DEF JobFields, NeverPanics, Panic
<1> QED BY <1>1, <1>2

\* No step gives up the invariant when every ReplicaSet has an owner.
LEMMA NextNoPanic ==
  ASSUME ReplicaSetsOwned, NoPanicInv, [Next]_vars
  PROVE  NoPanicInv'
<1>1. replicaSets' \subseteq ReplicaSets
  <2>1. replicaSets' \subseteq replicaSets
    BY DEF Next, Worker, Calls, SyncService, GetPod, GetReplicaSet, GetAppName, GetService,
           GetTwin, CreateTwin, CallFails, Restart, Users, CreateService, DeletePod,
           DeleteWorkload, DeleteService, cluster, vars
  <2> QED BY <2>1 DEF NoPanicInv
<1>2. CASE \/ \E p \in Pods : SyncService(p)
           \/ GetPod \/ GetService \/ CreateTwin \/ CallFails \/ Restart \/ Users
           \/ UNCHANGED vars
  <2>1. \/ job' \in {Idle, job}
        \/ \E x : job' \in {[pc |-> "getPod", pod |-> x],
                            [pc |-> "getReplicaSet", replicaSet |-> x],
                            [pc |-> "getApp", app |-> x],
                            [pc |-> "getTwin", svc |-> x]}
    BY <1>2 DEF SyncService, GetPod, FindOwnerWorkload, GetService, CreateTwin,
       CallFails, Restart, Users, vars, Return, Goto
  <2> QED BY <1>1, <2>1, NoPanicJobs DEF NoPanicInv
<1>3. CASE GetReplicaSet
  <2>1. RSOwnerRefs[job.replicaSet] # <<>> \/ Return
    BY <1>3 DEF GetReplicaSet, ReplicaSetsOwned, NoPanicInv
  <2>2. \/ job' = Idle
        \/ job' = [pc |-> "getApp", app |-> RSOwnerRefs[job.replicaSet][1]]
    BY <1>3, <2>1 DEF GetReplicaSet, Return, Goto
  <2> QED BY <1>1, <2>2, NoPanicJobs DEF NoPanicInv
<1>4. CASE GetAppName
  <2>1. job = [pc |-> "getApp", app |-> job.app]
    BY <1>4 DEF GetAppName, NoPanicInv, JobFields
  <2>2. [job EXCEPT !.pc = "getService"] = [pc |-> "getService", app |-> job.app]
    BY <2>1
  <2>3. job' = Idle \/ job' = [pc |-> "getService", app |-> job.app]
    BY <1>4, <2>2 DEF GetAppName, Return, Goto
  <2> QED BY <1>1, <2>3, NoPanicJobs DEF NoPanicInv
<1>5. CASE GetTwin
  <2>1. job = [pc |-> "getTwin", svc |-> job.svc]
    BY <1>5 DEF GetTwin, NoPanicInv, JobFields
  <2>2. [job EXCEPT !.pc = "create"] = [pc |-> "create", svc |-> job.svc]
    BY <2>1
  <2>3. job' = Idle \/ job' = [pc |-> "create", svc |-> job.svc]
    BY <1>5, <2>2 DEF GetTwin, Return, Goto
  <2> QED BY <1>1, <2>3, NoPanicJobs DEF NoPanicInv
<1> QED BY <1>2, <1>3, <1>4, <1>5 DEF Next, Worker, Calls

\* A ReplicaSet without an owner is the only thing that makes SyncService panic
\* (service.go:61-64): where each has one, no deletion, failure or restart between
\* the calls leads there.
THEOREM PanicOnlyForUnowned == ASSUME ReplicaSetsOwned PROVE Spec => []NeverPanics
<1>1. Init => NoPanicInv
  BY DEF Init, Idle, Panic, NoPanicInv, JobFields, NeverPanics
<1>2. NoPanicInv /\ [Next]_vars => NoPanicInv'
  BY NextNoPanic
<1>3. NoPanicInv => NeverPanics
  BY DEF NoPanicInv
<1> QED BY <1>1, <1>2, <1>3, PTL DEF Spec

=============================================================================
