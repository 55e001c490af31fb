---------------------- MODULE MacvlanControllerProofs ----------------------
(***************************************************************************)
(* Theorems about MacvlanController, for any pods, subnets, annotations    *)
(* and numbers of failures.                                                *)
(***************************************************************************)
EXTENDS MacvlanController, TLAPS

USE DEF NoIP, NoMac

-----------------------------------------------------------------------------
(* Type correctness. *)

LEMMA InitType == ASSUME ConstantsAssumption, Init PROVE TypeOK
BY DEF ConstantsAssumption, Init, ProcessStarted, TypeOK, Idle

LEMMA UsersType == TypeOK /\ Users => TypeOK'
<1> SUFFICES ASSUME TypeOK, Users PROVE TypeOK'
  OBVIOUS
<1> USE ConstantsAssumption DEF informer, queue, purger
<1>1. ASSUME NEW s \in Subnets, CreateSubnet(s) PROVE TypeOK'
  <2>1. gateway' \in [Subnets -> Nat]
    BY <1>1 DEF CreateSubnet, TypeOK, ConstantsAssumption
  <2> QED BY <1>1, <2>1 DEF CreateSubnet, TypeOK
<1>2. ASSUME NEW k \in Keys, NEW ann \in Annotations, CreatePod(k, ann)
      PROVE  TypeOK'
  <2>1. pods' \subseteq Pod
    BY <1>2 DEF CreatePod, TypeOK, Pod, Texts
  <2>2. nextUid' \in Nat /\ names' \subseteq Keys /\ events' \in Nat
    BY <1>2 DEF CreatePod, TypeOK, Quiet, Occurs
  <2> QED BY <1>2, <2>1, <2>2 DEF CreatePod, TypeOK
<1>3. ASSUME NEW p \in pods, DeletePod(p) PROVE TypeOK'
  BY <1>3 DEF DeletePod, TypeOK
<1>4. ASSUME NEW m \in macvlanips, CollectGarbage(m) PROVE TypeOK'
  BY <1>4 DEF CollectGarbage, TypeOK
<1> QED BY <1>1, <1>2, <1>3, <1>4 DEF Users

LEMMA InformersType == TypeOK /\ Informers => TypeOK'
<1> SUFFICES ASSUME TypeOK, Informers PROVE TypeOK'
  OBVIOUS
<1> USE ConstantsAssumption DEF cluster, queue, purger
<1>1. CASE SyncPods
  <2>1. podCache' \subseteq CachedPod
    BY <1>1 DEF SyncPods, TypeOK, Cached, Pod, CachedPod
  <2>2. adds' \in [Keys -> Nat]
    BY <1>1 DEF SyncPods
  <2> QED BY <1>1, <2>1, <2>2 DEF SyncPods, TypeOK
<1>2. CASE SyncMacvlanIPs
  BY <1>2 DEF SyncMacvlanIPs, TypeOK, MacvlanIP
<1>3. ASSUME NEW p \in pods, WatchPodAdd(p) PROVE TypeOK'
  <2>1. podCache' \subseteq CachedPod
    BY <1>3 DEF WatchPodAdd, TypeOK, Cached, Pod, CachedPod
  <2>2. adds' \in [Keys -> Nat]
    BY <1>3 DEF WatchPodAdd, TypeOK, Pod
  <2> QED BY <1>3, <2>1, <2>2 DEF WatchPodAdd, TypeOK
<1>4. ASSUME NEW c \in podCache, WatchPodDelete(c) PROVE TypeOK'
  BY <1>4 DEF WatchPodDelete, TypeOK
<1>5. ASSUME NEW p \in pods, RelistPod(p) PROVE TypeOK'
  <2>1. podCache' \subseteq CachedPod
    BY <1>5 DEF RelistPod, TypeOK, Cached, Pod, CachedPod
  <2>2. events' \in Nat
    BY <1>5 DEF RelistPod, TypeOK, Occurs
  <2> QED BY <1>5, <2>1, <2>2 DEF RelistPod, TypeOK
<1>6. ASSUME NEW k \in Keys, WatchMacvlanIP(k) PROVE TypeOK'
  BY <1>6 DEF WatchMacvlanIP, TypeOK
<1>7. ASSUME NEW k \in Keys, EnqueuePod(k) PROVE TypeOK'
  <2>1. adds' \in [Keys -> Nat]
    BY <1>7 DEF EnqueuePod, TypeOK
  <2> QED BY <1>7, <2>1 DEF EnqueuePod, TypeOK
<1>8. ASSUME NEW k \in Keys, BackoffOver(k) PROVE TypeOK'
  BY <1>8 DEF BackoffOver, TypeOK, informer
<1>9. ASSUME NEW s \in Subnets, OnMacvlanSubnetAdd(s) PROVE TypeOK'
  <2>1. gateway' \in [Subnets -> Nat]
    BY <1>9 DEF OnMacvlanSubnetAdd, TypeOK, ConstantsAssumption
  <2>2. events' \in Nat
    BY <1>9 DEF OnMacvlanSubnetAdd, TypeOK, Occurs, Quiet
  <2> QED BY <1>9, <2>1, <2>2 DEF OnMacvlanSubnetAdd, TypeOK
<1> QED BY <1>1, <1>2, <1>3, <1>4, <1>5, <1>6, <1>7, <1>8, <1>9 DEF Informers

(***************************************************************************)
(* A step of the worker that leaves a well-typed job and puts at most the  *)
(* key of the job into the delaying queue.                                 *)
(***************************************************************************)
LEMMA ReturnType ==
    ASSUME TypeOK, job # Idle, ReturnNil \/ ReturnErr
    PROVE  job' \in {Idle} \cup Job /\ waiting' \subseteq Keys
BY DEF ReturnNil, ReturnErr, TypeOK, Job, CachedPod

LEMMA ProcessNextWorkItemType ==
    ASSUME TypeOK, NEW k \in Keys, ProcessNextWorkItem(k)
    PROVE  TypeOK'
<1>1. waiting' \subseteq Keys
  BY DEF ProcessNextWorkItem, ReturnNil, Continue, TypeOK
<1>2. ASSUME NEW c \in CachedPodOf(k)
      PROVE  [pc |-> "getSubnet", pod |-> c, gw |-> NoIP, ip |-> NoIP,
              mac |-> NoMac, read |-> {}, tries |-> 0] \in Job
  BY DEF CachedPodOf, TypeOK, Job
<1>3. job' \in {Idle} \cup Job
  BY <1>2 DEF ProcessNextWorkItem, ReturnNil, Continue
<1> QED
  BY <1>1, <1>3 DEF ProcessNextWorkItem, TypeOK, cluster, informer, purger

LEMMA JobAnnotation ==
    ASSUME TypeOK, job # Idle
    PROVE  /\ job \in Job
           /\ job.pod.key \in Keys
           /\ job.pod.ann \in Annotations
           /\ job.pod.ann \in Annotation
BY ConstantsAssumption DEF TypeOK, Job, CachedPod, ConstantsAssumption

LEMMA DoAddType == TypeOK /\ DoAddMacvlanIP => TypeOK'
<1> SUFFICES ASSUME TypeOK, DoAddMacvlanIP PROVE TypeOK'
  OBVIOUS
<1> USE DEF cluster, informer, queue, purger
<1>1. CASE GetSubnet
  <2>1. job # Idle
    BY <1>1 DEF GetSubnet, Idle
  <2>2. CASE ReturnNil \/ ReturnErr
    BY <1>1, <2>1, <2>2, ReturnType DEF GetSubnet, TypeOK, Quiet, Occurs
  <2>3. ASSUME Dispatch(job.pod.ann, gateway[job.pod.ann.subnet]), Quiet
        PROVE  TypeOK'
    <3>1. gateway[job.pod.ann.subnet] \in Nat
      BY <2>1, JobAnnotation DEF TypeOK, Annotation
    <3>2. job.pod.ann.mode = "single" => job.pod.ann.ips[1] \in Nat
      BY <2>1, JobAnnotation, AnnotationsAssumption
      DEF AnnotationsAssumption, Annotation
    <3>3. job' \in {Idle} \cup Job /\ waiting' \subseteq Keys
      BY <2>1, <2>3, <3>1, <3>2, ReturnType, JobAnnotation
      DEF Dispatch, Continue, TypeOK, Job
    <3> QED BY <1>1, <2>3, <3>3 DEF GetSubnet, TypeOK, Quiet
  <2> QED BY <1>1, <2>2, <2>3 DEF GetSubnet
<1>2. CASE ListPods
  <2>1. job # Idle
    BY <1>2 DEF ListPods, Idle
  <2>2. CASE ReturnErr
    BY <1>2, <2>1, <2>2, ReturnType DEF ListPods, TypeOK, Quiet, Occurs
  <2>3. ASSUME NEW i \in DOMAIN job.pod.ann.ips, TakePlace(i), Quiet
        PROVE  TypeOK'
    <3>1. job.pod.ann.ips[i] \in Nat
      BY <2>1, JobAnnotation DEF Annotation
    <3>2. PICK mac \in MacsFor(job.pod.ann, job.pod.ann.ips[i]) :
             Continue([job EXCEPT !.pc = "listIPs", !.mac = mac,
                                  !.ip = job.pod.ann.ips[i]])
      BY <2>3 DEF TakePlace
    <3>3. mac \in Nat
      <4>1. CASE Len(job.pod.ann.macs) < 2
        BY <4>1 DEF MacsFor
      <4>2. CASE ~(Len(job.pod.ann.macs) < 2)
        <5>1. PICK n \in DOMAIN job.pod.ann.macs : mac = job.pod.ann.macs[n]
          BY <4>2 DEF MacsFor
        <5>2. job.pod.ann.macs \in Seq(Nat)
          BY <2>1, JobAnnotation DEF Annotation
        <5> QED BY <5>1, <5>2
      <4> QED BY <4>1, <4>2
    <3>4. job' \in Job /\ waiting' = waiting
      BY <2>1, <3>1, <3>2, <3>3, JobAnnotation DEF Continue, Job
    <3> QED BY <1>2, <2>3, <3>4 DEF ListPods, TypeOK, Quiet
  <2> QED BY <1>2, <2>2, <2>3 DEF ListPods, UnusedPlaces
<1>3. CASE ListMacvlanIPs
  <2>1. job # Idle
    BY <1>3 DEF ListMacvlanIPs, Idle
  <2>2. CASE ReturnErr
    BY <1>3, <2>1, <2>2, ReturnType DEF ListMacvlanIPs, TypeOK, Quiet, Occurs
  <2>3. ASSUME NEW used, Allocate(used), ~ReturnErr PROVE TypeOK'
    <3>1. PICK a \in Usable(used) :
             Continue([job EXCEPT !.pc = "getPod", !.ip = a])
      BY <2>3 DEF Allocate
    <3>2. a \in Nat
      BY <2>1, <3>1, JobAnnotation, ConstantsAssumption
      DEF Usable, ConstantsAssumption, Annotation
    <3>3. job' \in Job /\ waiting' = waiting
      BY <2>1, <3>1, <3>2, JobAnnotation DEF Continue, Job
    <3> QED BY <1>3, <3>3 DEF ListMacvlanIPs, TypeOK, Quiet, Occurs
  <2> QED BY <1>3, <2>2, <2>3 DEF ListMacvlanIPs
<1>4. CASE GetPod
  <2>1. job # Idle
    BY <1>4 DEF GetPod, Idle
  <2>2. CASE ReturnNil
    BY <1>4, <2>1, <2>2, ReturnType DEF GetPod, TypeOK, Quiet, Occurs
  <2>3. ASSUME Continue([job EXCEPT !.pc = "updatePod",
                                    !.read = PodsOf(job.pod.key)]), Quiet
        PROVE  TypeOK'
    <3>1. job' \in Job /\ waiting' = waiting
      BY <2>1, <2>3, JobAnnotation DEF Continue, Job, PodsOf, TypeOK
    <3> QED BY <1>4, <2>3, <3>1 DEF GetPod, TypeOK, Quiet
  <2> QED BY <1>4, <2>2, <2>3 DEF GetPod
<1>5. CASE UpdatePod
  <2>1. job # Idle
    BY <1>5 DEF UpdatePod, Idle
  <2>2. events' \in Nat
    BY <1>5 DEF UpdatePod, TypeOK, Quiet, Occurs
  <2>3. pods' \subseteq Pod
    <3>1. CASE UNCHANGED pods
      BY <3>1 DEF TypeOK
    <3>2. CASE UpdateApplied
      <4>1. IPText(job.pod.ann) \in Texts /\ job.ip \in Nat /\ job.read \subseteq Pod
        BY <2>1, JobAnnotation DEF Texts, Job
      <4>2. \A p \in job.read : Labelled(p) \in Pod
        BY <4>1 DEF Labelled, Pod
      <4> QED BY <3>2, <4>2 DEF UpdateApplied, TypeOK
    <3> QED BY <1>5, <3>1, <3>2 DEF UpdatePod, Conflict
  <2>4. job' \in {Idle} \cup Job /\ waiting' \subseteq Keys
    <3>1. CASE ReturnNil
      BY <2>1, <3>1, ReturnType
    <3>2. CASE UpdateApplied
      BY <2>1, <3>2, JobAnnotation DEF UpdateApplied, Continue, Job, TypeOK
    <3>3. CASE Continue([job EXCEPT !.pc = "getPod", !.tries = @ + 1])
      <4>1. job.tries + 1 \in Nat
        BY <2>1, JobAnnotation DEF Job
      <4>2. job' = [job EXCEPT !.pc = "getPod", !.tries = job.tries + 1]
        BY <3>3 DEF Continue
      <4>3. job' \in Job
        BY <2>1, <4>1, <4>2, JobAnnotation DEF Job
      <4> QED BY <3>3, <4>3 DEF Continue, TypeOK
    <3> QED BY <1>5, <3>1, <3>2, <3>3 DEF UpdatePod, Conflict
  <2> QED BY <1>5, <2>2, <2>3, <2>4 DEF UpdatePod, TypeOK
<1>6. CASE CreateMacvlanIP
  <2>1. job # Idle
    BY <1>6 DEF CreateMacvlanIP, SyncAndReturn, Idle
  <2>2. job' \in {Idle} \cup Job /\ waiting' \subseteq Keys
    BY <1>6, <2>1, ReturnType DEF CreateMacvlanIP, SyncAndReturn
  <2>3. MakeMacvlanIP \in MacvlanIP
    BY <2>1, JobAnnotation
    DEF MakeMacvlanIP, MacvlanIP, Job, CachedPod, Annotation
  <2> QED BY <1>6, <2>2, <2>3 DEF CreateMacvlanIP, SyncAndReturn, TypeOK, Quiet, Occurs
<1> QED BY <1>1, <1>2, <1>3, <1>4, <1>5, <1>6 DEF DoAddMacvlanIP

LEMMA PurgeType == TypeOK /\ Purge => TypeOK'
<1> SUFFICES ASSUME TypeOK, Purge PROVE TypeOK'
  OBVIOUS
<1> USE DEF cluster, informer, queue
<1>1. CASE PurgeList
  BY <1>1 DEF PurgeList, TypeOK
<1>2. ASSUME NEW k \in Keys, PurgeCheck(k) PROVE TypeOK'
  BY <1>2 DEF PurgeCheck, TypeOK
<1>3. ASSUME NEW k \in Keys, PurgeDelete(k) PROVE TypeOK'
  BY <1>3 DEF PurgeDelete, TypeOK, Quiet, Occurs
<1> QED BY <1>1, <1>2, <1>3 DEF Purge

LEMMA RestartType == TypeOK /\ Restart => TypeOK'
<1> SUFFICES ASSUME TypeOK, Restart PROVE TypeOK'
  OBVIOUS
<1>1. adds' \in [Keys -> Nat]
  BY DEF Restart
<1>2. events' \in Nat
  BY DEF Restart, Occurs, TypeOK
<1>3. UNCHANGED cluster
  BY DEF Restart
<1> QED BY <1>1, <1>2, <1>3 DEF Restart, TypeOK, cluster

LEMMA NextType == TypeOK /\ [Next]_vars => TypeOK'
<1> SUFFICES ASSUME TypeOK, [Next]_vars PROVE TypeOK'
  OBVIOUS
<1>1. CASE UNCHANGED vars
  BY <1>1 DEF TypeOK, vars, cluster, informer, queue, purger
<1> QED
  BY <1>1, UsersType, InformersType, ProcessNextWorkItemType, DoAddType,
     PurgeType, RestartType DEF Next

(***************************************************************************)
(* The variables keep their types in every behaviour, whatever fails and   *)
(* however often (MacvlanController, all of its actions).                  *)
(***************************************************************************)
THEOREM TypeCorrect == Spec => []TypeOK
<1>1. Init => TypeOK
  BY InitType, ConstantsAssumption
<1>2. TypeOK /\ [Next]_vars => TypeOK'
  BY NextType
<1> QED BY <1>1, <1>2, PTL DEF Spec

-----------------------------------------------------------------------------
(* Addresses are unique. *)

(***************************************************************************)
(* The five things a step can do to the MacvlanIPs and the picked address. *)
(***************************************************************************)
Late == {"getPod", "updatePod", "create"}

Frees ==
    /\ job' = job
    /\ \/ UNCHANGED macvlanips
       \/ \E m \in macvlanips : macvlanips' = macvlanips \ {m}
       \/ \E k \in Keys : macvlanips' = macvlanips \ IPsOf(k)

Resets == UNCHANGED macvlanips /\ job'.pc \notin Late

Picks ==
    /\ UNCHANGED macvlanips
    /\ job'.pod = job.pod
    /\ job'.ip \in Hosts[job.pod.ann.subnet] \ IPsIn(job.pod.ann.subnet)

Carries ==
    /\ UNCHANGED macvlanips
    /\ job.pc \in Late
    /\ job'.pod = job.pod /\ job'.ip = job.ip

Records ==
    /\ job.pc = "create"
    /\ IPsOf(job.pod.key) = {}
    /\ macvlanips' = macvlanips \cup {MakeMacvlanIP}
    /\ job' = Idle

LEMMA ReturnResets ==
    ASSUME ReturnNil \/ ReturnErr
    PROVE  job' = Idle /\ job'.pc \notin Late
BY DEF ReturnNil, ReturnErr, Idle, Late

LEMMA WorkerCases ==
    ASSUME TypeOK, "listIPs" \notin Events, DoAddMacvlanIP
    PROVE  Resets \/ Picks \/ Carries \/ Records
<1>1. CASE GetSubnet
  <2>1. UNCHANGED macvlanips
    BY <1>1 DEF GetSubnet, cluster
  <2>2. job \in Job
    BY <1>1, JobAnnotation DEF GetSubnet, Idle
  <2>3. job'.pc \notin Late
    BY <1>1, <2>2, ReturnResets DEF GetSubnet, Dispatch, Continue, Late, Job
  <2> QED BY <2>1, <2>3 DEF Resets
<1>2. CASE ListPods
  <2>1. UNCHANGED macvlanips
    BY <1>2 DEF ListPods, cluster
  <2>2. job \in Job
    BY <1>2, JobAnnotation DEF ListPods, Idle
  <2>3. ASSUME NEW i, TakePlace(i) PROVE job'.pc \notin Late
    BY <2>2, <2>3 DEF TakePlace, Continue, Late, Job
  <2>4. job'.pc \notin Late
    BY <1>2, <2>3, ReturnResets DEF ListPods
  <2> QED BY <2>1, <2>4 DEF Resets
<1>3. CASE ListMacvlanIPs
  <2>1. UNCHANGED macvlanips
    BY <1>3 DEF ListMacvlanIPs, cluster
  <2>2. job \in Job
    BY <1>3, JobAnnotation DEF ListMacvlanIPs, Idle
  <2>3. Allocate(IPsIn(job.pod.ann.subnet))
    BY <1>3 DEF ListMacvlanIPs, Occurs
  <2>4. CASE ReturnErr
    BY <2>1, <2>4, ReturnResets DEF Resets
  <2>5. ASSUME NEW a \in Usable(IPsIn(job.pod.ann.subnet)),
               Continue([job EXCEPT !.pc = "getPod", !.ip = a])
        PROVE  Picks
    <3>1. job'.pod = job.pod /\ job'.ip = a
      BY <2>2, <2>5 DEF Continue, Job
    <3>2. a \in Hosts[job.pod.ann.subnet] \ IPsIn(job.pod.ann.subnet)
      BY <2>5 DEF Usable
    <3> QED BY <2>1, <3>1, <3>2 DEF Picks
  <2> QED BY <2>3, <2>4, <2>5 DEF Allocate
<1>4. CASE GetPod
  <2>1. UNCHANGED macvlanips /\ job.pc \in Late
    BY <1>4 DEF GetPod, cluster, Late
  <2>2. job \in Job
    BY <1>4, JobAnnotation DEF GetPod, Idle
  <2>3. CASE ReturnNil
    BY <2>1, <2>3, ReturnResets DEF Resets
  <2>4. CASE Continue([job EXCEPT !.pc = "updatePod",
                                  !.read = PodsOf(job.pod.key)])
    BY <2>1, <2>2, <2>4 DEF Continue, Carries, Job
  <2> QED BY <1>4, <2>3, <2>4 DEF GetPod
<1>5. CASE UpdatePod
  <2>1. UNCHANGED macvlanips /\ job.pc \in Late
    BY <1>5 DEF UpdatePod, Late
  <2>2. job \in Job
    BY <1>5, JobAnnotation DEF UpdatePod, Idle
  <2>3. CASE ReturnNil
    BY <2>1, <2>3, ReturnResets DEF Resets
  <2>4. CASE UpdateApplied
    BY <2>1, <2>2, <2>4 DEF UpdateApplied, Continue, Carries, Job
  <2>5. CASE Continue([job EXCEPT !.pc = "getPod", !.tries = @ + 1])
    <3>1. job' = [job EXCEPT !.pc = "getPod", !.tries = job.tries + 1]
      BY <2>5 DEF Continue
    <3>2. job'.pod = job.pod /\ job'.ip = job.ip
      BY <2>2, <3>1 DEF Job
    <3> QED BY <2>1, <3>2 DEF Carries
  <2> QED BY <1>5, <2>3, <2>4, <2>5 DEF UpdatePod, Conflict
<1>6. CASE CreateMacvlanIP
  BY <1>6, ReturnResets DEF CreateMacvlanIP, SyncAndReturn, Resets, Records
<1> QED BY <1>1, <1>2, <1>3, <1>4, <1>5, <1>6 DEF DoAddMacvlanIP

LEMMA StepCases ==
    ASSUME TypeOK, "listIPs" \notin Events, [Next]_vars
    PROVE  Frees \/ Resets \/ Picks \/ Carries \/ Records
<1>1. CASE UNCHANGED vars
  BY <1>1 DEF vars, cluster, Frees
<1>2. CASE Users
  BY <1>2 DEF Users, CreateSubnet, CreatePod, DeletePod, CollectGarbage, Frees
<1>3. CASE Informers
  BY <1>3 DEF Informers, SyncPods, SyncMacvlanIPs, WatchPodAdd,
     WatchPodDelete, RelistPod, WatchMacvlanIP, EnqueuePod, BackoffOver,
     OnMacvlanSubnetAdd, cluster, Frees
<1>4. ASSUME NEW k \in Keys, ProcessNextWorkItem(k) PROVE Resets
  <2>1. UNCHANGED macvlanips
    BY <1>4 DEF ProcessNextWorkItem, cluster
  <2>2. job'.pc \notin Late
    BY <1>4, ReturnResets DEF ProcessNextWorkItem, Continue, Late
  <2> QED BY <2>1, <2>2 DEF Resets
<1>5. CASE DoAddMacvlanIP
  BY <1>5, WorkerCases
<1>6. CASE Purge
  BY <1>6 DEF Purge, PurgeList, PurgeCheck, PurgeDelete, cluster, Frees
<1>7. CASE Restart
  BY <1>7 DEF Restart, cluster, Idle, Late, Resets
<1> QED BY <1>1, <1>2, <1>3, <1>4, <1>5, <1>6, <1>7 DEF Next

(***************************************************************************)
(* UniqueIPs is not inductive: that the address of a job at its create is  *)
(* free is what was found when it was picked, and stays so because no      *)
(* other step adds a MacvlanIP.  The pool needs in addition that the       *)
(* address is a host, and that a name has one MacvlanIP.                   *)
(***************************************************************************)
PickedIPIsHost ==
    job.pc \in Late => job.ip \in Hosts[job.pod.ann.subnet]

OnePerName ==
    \A m, n \in macvlanips : m.key = n.key => m = n

AllocationInv ==
    /\ UniqueIPs
    /\ PickedIPIsFree
    /\ PickedIPIsHost
    /\ OnePerName

LEMMA InitAllocation == Init => AllocationInv
BY DEF Init, ProcessStarted, Idle, AllocationInv, UniqueIPs, PickedIPIsFree,
   PickedIPIsHost, OnePerName, Late

LEMMA NextAllocation ==
    ASSUME TypeOK, "listIPs" \notin Events, AllocationInv, [Next]_vars
    PROVE  AllocationInv'
<1> USE DEF Late
<1>1. CASE Frees
  <2>1. macvlanips' \subseteq macvlanips /\ job' = job
    BY <1>1 DEF Frees
  <2> QED BY <2>1 DEF AllocationInv, UniqueIPs, PickedIPIsFree,
                      PickedIPIsHost, OnePerName, IPsIn
<1>2. CASE Resets
  BY <1>2 DEF Resets, AllocationInv, UniqueIPs, PickedIPIsFree,
              PickedIPIsHost, OnePerName
<1>3. CASE Picks
  BY <1>3 DEF Picks, AllocationInv, UniqueIPs, PickedIPIsFree,
              PickedIPIsHost, OnePerName, IPsIn
<1>4. CASE Carries
  BY <1>4 DEF Carries, AllocationInv, UniqueIPs, PickedIPIsFree,
              PickedIPIsHost, OnePerName, IPsIn
<1>5. CASE Records
  <2>1. job.ip \notin IPsIn(job.pod.ann.subnet)
    BY <1>5 DEF Records, AllocationInv, PickedIPIsFree
  <2>2. \A m \in macvlanips :
           m.key # job.pod.key /\ ~(m.subnet = job.pod.ann.subnet /\ m.ip = job.ip)
    BY <1>5, <2>1 DEF Records, IPsOf, IPsIn
  <2>3. UniqueIPs'
    BY <1>5, <2>2 DEF Records, AllocationInv, UniqueIPs, MakeMacvlanIP
  <2>4. OnePerName'
    BY <1>5, <2>2 DEF Records, AllocationInv, OnePerName, MakeMacvlanIP
  <2>5. job'.pc = "idle"
    BY <1>5 DEF Records, Idle
  <2> QED BY <2>3, <2>4, <2>5
          DEF AllocationInv, PickedIPIsFree, PickedIPIsHost
<1> QED BY <1>1, <1>2, <1>3, <1>4, <1>5, StepCases

(***************************************************************************)
(* As long as every List of the MacvlanIPs succeeds, no address is given   *)
(* to two pods, and the address the worker has picked stays free until it  *)
(* is recorded, for any interleaving of worker, purge daemon, garbage      *)
(* collector, users, restarts and the other failures (macvlanip.go:67-114, *)
(* ipalloc.go:18-36, 100-131, 199-225).                                    *)
(***************************************************************************)
THEOREM AddressesUnique ==
    ASSUME "listIPs" \notin Events
    PROVE  Spec => [](UniqueIPs /\ PickedIPIsFree)
<1>1. Init => AllocationInv
  BY InitAllocation
<1>2. TypeOK /\ AllocationInv /\ [Next]_vars => AllocationInv'
  BY NextAllocation
<1>3. AllocationInv => UniqueIPs /\ PickedIPIsFree
  BY DEF AllocationInv
<1> QED BY <1>1, <1>2, <1>3, TypeCorrect, PTL DEF Spec

(***************************************************************************)
(* What the worker has picked is nobody else's until it is recorded, while *)
(* pods are fetched, labelled and retried: allocateAutoIP and the others   *)
(* return the address in a local variable (macvlanip.go:67-114).           *)
(***************************************************************************)
THEOREM PickedStaysFree ==
    ASSUME "listIPs" \notin Events
    PROVE  Spec => []PickedIPIsFree
<1>1. UniqueIPs /\ PickedIPIsFree => PickedIPIsFree
  OBVIOUS
<1> QED BY <1>1, AddressesUnique, PTL

-----------------------------------------------------------------------------
(* The pool of addresses. *)

LEMMA InitPool == Init => Pool!PoolInit
BY DEF Init, Pool!PoolInit, Leases

(* Deleting the MacvlanIP of a name releases its lease, if it has one. *)
LEMMA DeleteReleases ==
    ASSUME OnePerName, NEW m \in macvlanips, macvlanips' = macvlanips \ {m}
    PROVE  Lease(m) \in Leases /\ Leases' = Leases \ {Lease(m)}
BY DEF OnePerName, Leases, Lease

LEMMA NextPool ==
    ASSUME TypeOK, "listIPs" \notin Events, AllocationInv, [Next]_vars
    PROVE  [Pool!PoolNext]_Leases
<1>1. CASE UNCHANGED macvlanips
  BY <1>1 DEF Leases, Lease
<1>2. ASSUME NEW m \in macvlanips, macvlanips' = macvlanips \ {m}
      PROVE  Pool!PoolNext
  BY <1>2, DeleteReleases DEF AllocationInv, Pool!PoolNext, Pool!Release
<1>3. CASE Frees
  <2>1. ASSUME NEW k \in Keys, macvlanips' = macvlanips \ IPsOf(k)
        PROVE  [Pool!PoolNext]_Leases
    <3>1. CASE IPsOf(k) = {}
      BY <1>1, <2>1, <3>1
    <3>2. ASSUME NEW m \in IPsOf(k) PROVE [Pool!PoolNext]_Leases
      <4>1. m \in macvlanips /\ IPsOf(k) = {m}
        BY <3>2 DEF IPsOf, AllocationInv, OnePerName
      <4> QED BY <1>2, <2>1, <4>1
    <3> QED BY <3>1, <3>2
  <2> QED BY <1>1, <1>2, <1>3, <2>1 DEF Frees
<1>4. CASE Records
  <2> DEFINE k == job.pod.key
             s == job.pod.ann.subnet
             a == job.ip
  <2>1. k \in Keys /\ s \in Subnets
    BY <1>4, JobAnnotation DEF Records, Idle, Annotation
  <2>2. a \in Hosts[s] /\ a \notin IPsIn(s)
    BY <1>4 DEF Records, AllocationInv, PickedIPIsFree, PickedIPIsHost, Late
  <2>3. \A l \in Leases : l.key # k
    BY <1>4 DEF Records, IPsOf, Leases, Lease
  <2>4. \A l \in Leases : l.subnet = s => l.ip # a
    BY <2>2 DEF IPsIn, Leases, Lease
  <2>5. Leases' = Leases \cup {[key |-> k, subnet |-> s, ip |-> a]}
    <3>1. Lease(MakeMacvlanIP) = [key |-> k, subnet |-> s, ip |-> a]
      BY DEF MakeMacvlanIP, Lease
    <3>2. Leases' = Leases \cup {Lease(MakeMacvlanIP)}
      BY <1>4 DEF Records, Leases, Lease
    <3> QED BY <3>1, <3>2
  <2>6. Pool!Grant(k, s, a)
    BY <2>2, <2>3, <2>4, <2>5 DEF Pool!Grant
  <2> QED BY <2>1, <2>2, <2>6 DEF Pool!PoolNext
<1> QED BY <1>1, <1>3, <1>4, StepCases DEF Resets, Picks, Carries

(***************************************************************************)
(* The controller implements AddressPool: every step of every handler, a   *)
(* failing or a repeated one included, grants one free host to a name that *)
(* has none, releases one address, or changes no lease at all              *)
(* (macvlanip.go:39-130, purge.go:40-60).                                  *)
(***************************************************************************)
THEOREM PoolImplemented ==
    ASSUME "listIPs" \notin Events
    PROVE  Spec => ImplementsPool
<1>1. Init => AllocationInv /\ Pool!PoolInit
  BY InitAllocation, InitPool
<1>2. TypeOK /\ AllocationInv /\ [Next]_vars
      => AllocationInv' /\ [Pool!PoolNext]_Leases
  BY NextAllocation, NextPool
<1> QED
  BY <1>1, <1>2, TypeCorrect, PTL DEF Spec, ImplementsPool, Pool!PoolSpec

(***************************************************************************)
(* What AddressPool stands for: as long as the leases change only as it    *)
(* says, no two of them are for one address of a subnet, and none is for   *)
(* an address that is no host.                                             *)
(***************************************************************************)
LeasesApart ==
    \A l, m \in Leases :
        /\ l.ip \in Hosts[l.subnet]
        /\ l.key = m.key \/ (l.subnet = m.subnet /\ l.ip = m.ip) => l = m

LEMMA PoolKeepsLeasesApart == Pool!PoolSpec => []LeasesApart
<1>1. Pool!PoolInit => LeasesApart
  BY DEF Pool!PoolInit, LeasesApart
<1>2. LeasesApart /\ [Pool!PoolNext]_Leases => LeasesApart'
  <2> SUFFICES ASSUME LeasesApart, [Pool!PoolNext]_Leases
               PROVE  LeasesApart'
    OBVIOUS
  <2>1. ASSUME NEW k \in Keys, NEW s \in Subnets, NEW a \in Hosts[s], Pool!Grant(k, s, a)
        PROVE  LeasesApart'
    <3>1. /\ \A l \in Leases : l.key # k
          /\ \A l \in Leases : l.subnet = s => l.ip # a
          /\ Leases' = Leases \cup {[key |-> k, subnet |-> s, ip |-> a]}
      BY <2>1 DEF Pool!Grant
    <3> QED BY <3>1 DEF LeasesApart
  <2>2. ASSUME NEW l \in Leases, Pool!Release(l)
        PROVE  LeasesApart'
    BY <2>2 DEF Pool!Release, LeasesApart
  <2>3. CASE UNCHANGED Leases
    BY <2>3 DEF LeasesApart
  <2> QED BY <2>1, <2>2, <2>3 DEF Pool!PoolNext
<1> QED BY <1>1, <1>2, PTL DEF Pool!PoolSpec

(***************************************************************************)
(* Hence, of the controller: one lease for a pod name and one for an       *)
(* address of a subnet, and only hosts of the subnet are leased            *)
(* (macvlanip.go:67-114, ipalloc.go:58-71).                                *)
(***************************************************************************)
THEOREM LeasesKeptApart ==
    ASSUME "listIPs" \notin Events
    PROVE  Spec => []LeasesApart
BY PoolImplemented, PoolKeepsLeasesApart, PTL DEF ImplementsPool

-----------------------------------------------------------------------------
(* The gateway. *)

(***************************************************************************)
(* What a job knows of the gateway is what the subnet says: a gateway once *)
(* written does not change.                                                *)
(***************************************************************************)
Fetched == {"listPods", "listIPs"} \cup Late

GatewayInv ==
    /\ subnetAdds \subseteq subnets
    /\ \A s \in subnets : gateway[s] # NoIP
    /\ \A m \in macvlanips : m.subnet \in subnets /\ m.ip # gateway[m.subnet]
    /\ job.pc \in Fetched => /\ job.pod.ann.subnet \in subnets
                             /\ job.gw = gateway[job.pod.ann.subnet]
    /\ job.pc \in Late => job.ip # job.gw

LEMMA InitGateway == Init => GatewayInv
BY DEF Init, ProcessStarted, Idle, GatewayInv, Fetched, Late

LEMMA WorkerGateway ==
    ASSUME TypeOK, GatewayInv, DoAddMacvlanIP
    PROVE  /\ UNCHANGED <<subnetAdds, subnets, gateway>>
           /\ job'.pc \in Fetched =>
                 /\ job'.pod = job.pod
                 /\ job.pod.ann.subnet \in subnets
                 /\ job'.gw = gateway[job.pod.ann.subnet]
           /\ job'.pc \in Late => job'.ip # job'.gw
           /\ macvlanips' # macvlanips =>
                 /\ job.pc = "create"
                 /\ macvlanips' = macvlanips \cup {MakeMacvlanIP}
<1> USE DEF Fetched, Late
<1>1. CASE GetSubnet
  <2>1. UNCHANGED <<subnetAdds, subnets, gateway, macvlanips>>
    BY <1>1 DEF GetSubnet, cluster, informer
  <2>2. job \in Job
    BY <1>1, JobAnnotation DEF GetSubnet, Idle
  <2>3. CASE job' = Idle
    BY <2>1, <2>3 DEF Idle
  <2>4. CASE ~(job' = Idle)
    <3>1. /\ job.pod.ann.subnet \in subnets
          /\ Dispatch(job.pod.ann, gateway[job.pod.ann.subnet])
      BY <1>1, <2>4, ReturnResets DEF GetSubnet
    <3>2. /\ job'.pc \in {"listPods", "listIPs"}
          /\ job'.pod = job.pod
          /\ job'.gw = gateway[job.pod.ann.subnet]
      BY <2>2, <2>4, <3>1, ReturnResets DEF Dispatch, Continue, Job
    <3> QED BY <2>1, <3>1, <3>2
  <2> QED BY <2>3, <2>4
<1>2. CASE ListPods
  <2>1. UNCHANGED <<subnetAdds, subnets, gateway, macvlanips>>
    BY <1>2 DEF ListPods, cluster, informer
  <2>2. job \in Job /\ job.pc \in Fetched
    BY <1>2, JobAnnotation DEF ListPods, Idle
  <2>3. CASE ReturnErr
    BY <2>1, <2>3, ReturnResets DEF Idle
  <2>4. ASSUME NEW i, TakePlace(i)
        PROVE  job'.pc = "listIPs" /\ job'.pod = job.pod /\ job'.gw = job.gw
    BY <2>2, <2>4 DEF TakePlace, Continue, Job
  <2> QED BY <1>2, <2>1, <2>2, <2>3, <2>4 DEF ListPods, GatewayInv
<1>3. CASE ListMacvlanIPs
  <2>1. UNCHANGED <<subnetAdds, subnets, gateway, macvlanips>>
    BY <1>3 DEF ListMacvlanIPs, cluster, informer
  <2>2. job \in Job /\ job.pc \in Fetched
    BY <1>3, JobAnnotation DEF ListMacvlanIPs, Idle
  <2>3. PICK used : Allocate(used)
    BY <1>3 DEF ListMacvlanIPs
  <2>4. CASE ReturnErr
    BY <2>1, <2>4, ReturnResets DEF Idle
  <2>5. ASSUME NEW a \in Usable(used),
               Continue([job EXCEPT !.pc = "getPod", !.ip = a])
        PROVE  job'.pod = job.pod /\ job'.gw = job.gw /\ job'.ip # job.gw
    BY <2>2, <2>5 DEF Continue, Job, Usable
  <2> QED BY <2>1, <2>2, <2>3, <2>4, <2>5 DEF Allocate, GatewayInv
<1>4. CASE GetPod
  <2>1. UNCHANGED <<subnetAdds, subnets, gateway, macvlanips>>
    BY <1>4 DEF GetPod, cluster, informer
  <2>2. job \in Job /\ job.pc \in Late
    BY <1>4, JobAnnotation DEF GetPod, Idle
  <2>3. CASE ReturnNil
    BY <2>1, <2>3, ReturnResets DEF Idle
  <2>4. CASE Continue([job EXCEPT !.pc = "updatePod",
                                  !.read = PodsOf(job.pod.key)])
    <3>1. job'.pod = job.pod /\ job'.gw = job.gw /\ job'.ip = job.ip
      BY <2>2, <2>4 DEF Continue, Job
    <3> QED BY <2>1, <2>2, <3>1 DEF GatewayInv
  <2> QED BY <1>4, <2>3, <2>4 DEF GetPod
<1>5. CASE UpdatePod
  <2>1. UNCHANGED <<subnetAdds, subnets, gateway, macvlanips>>
    BY <1>5 DEF UpdatePod, informer
  <2>2. job \in Job /\ job.pc \in Late
    BY <1>5, JobAnnotation DEF UpdatePod, Idle
  <2>3. CASE ReturnNil
    BY <2>1, <2>3, ReturnResets DEF Idle
  <2>4. CASE UpdateApplied
    <3>1. job'.pod = job.pod /\ job'.gw = job.gw /\ job'.ip = job.ip
      BY <2>2, <2>4 DEF UpdateApplied, Continue, Job
    <3> QED BY <2>1, <2>2, <3>1 DEF GatewayInv
  <2>5. CASE Continue([job EXCEPT !.pc = "getPod", !.tries = @ + 1])
    <3>1. job' = [job EXCEPT !.pc = "getPod", !.tries = job.tries + 1]
      BY <2>5 DEF Continue
    <3>2. job'.pod = job.pod /\ job'.gw = job.gw /\ job'.ip = job.ip
      BY <2>2, <3>1 DEF Job
    <3> QED BY <2>1, <2>2, <3>2 DEF GatewayInv
  <2> QED BY <1>5, <2>3, <2>4, <2>5 DEF UpdatePod, Conflict
<1>6. CASE CreateMacvlanIP
  <2>1. job' = Idle
    BY <1>6, ReturnResets DEF CreateMacvlanIP, SyncAndReturn
  <2> QED BY <1>6, <2>1 DEF CreateMacvlanIP, SyncAndReturn, informer, Idle
<1> QED BY <1>1, <1>2, <1>3, <1>4, <1>5, <1>6 DEF DoAddMacvlanIP

LEMMA NextGateway ==
    ASSUME TypeOK, \A s \in Subnets : NoIP \notin CreatedGateways[s],
           GatewayInv, [Next]_vars
    PROVE  GatewayInv'
<1>1. CASE /\ UNCHANGED <<subnets, gateway, job>>
           /\ subnetAdds' \subseteq subnetAdds
           /\ macvlanips' \subseteq macvlanips
  BY <1>1 DEF GatewayInv
<1>2. ASSUME NEW s \in Subnets, CreateSubnet(s) PROVE GatewayInv'
  <2>1. /\ UNCHANGED <<macvlanips, job>> /\ s \notin subnets
        /\ subnets' = subnets \cup {s} /\ subnetAdds' = subnetAdds \cup {s}
    BY <1>2 DEF CreateSubnet
  <2>2. gateway'[s] # NoIP /\ \A t \in subnets : gateway'[t] = gateway[t]
    BY <1>2 DEF CreateSubnet, TypeOK
  <2> QED BY <2>1, <2>2 DEF GatewayInv, Fetched, Late
<1>3. CASE Users
  BY <1>1, <1>2, <1>3
  DEF Users, CreatePod, DeletePod, CollectGarbage, informer
<1>4. ASSUME NEW s \in Subnets, OnMacvlanSubnetAdd(s) PROVE GatewayInv'
  <2>1. UNCHANGED gateway
    BY <1>4 DEF OnMacvlanSubnetAdd, GatewayInv, TypeOK
  <2> QED BY <1>1, <1>4, <2>1 DEF OnMacvlanSubnetAdd
<1>5. CASE Informers
  BY <1>1, <1>4, <1>5 DEF Informers, SyncPods, SyncMacvlanIPs, WatchPodAdd,
     WatchPodDelete, RelistPod, WatchMacvlanIP, EnqueuePod, BackoffOver,
     cluster, informer
<1>6. ASSUME NEW k \in Keys, ProcessNextWorkItem(k) PROVE GatewayInv'
  <2>1. UNCHANGED <<subnetAdds, subnets, gateway, macvlanips>>
    BY <1>6 DEF ProcessNextWorkItem, cluster, informer
  <2>2. job'.pc \notin Fetched
    BY <1>6, ReturnResets DEF ProcessNextWorkItem, Continue, Fetched, Late, Idle
  <2> QED BY <2>1, <2>2 DEF GatewayInv, Fetched
<1>7. CASE DoAddMacvlanIP
  <2>1. ASSUME job.pc = "create"
        PROVE  /\ MakeMacvlanIP.subnet \in subnets
               /\ MakeMacvlanIP.ip # gateway[MakeMacvlanIP.subnet]
    BY <2>1 DEF GatewayInv, MakeMacvlanIP, Fetched, Late
  <2> QED BY <1>7, <2>1, WorkerGateway DEF GatewayInv, Fetched
<1>8. CASE Purge
  BY <1>1, <1>8 DEF Purge, PurgeList, PurgeCheck, PurgeDelete, cluster, informer
<1>9. CASE Restart
  BY <1>9 DEF Restart, cluster, Idle, GatewayInv, Fetched, Late
<1>10. CASE UNCHANGED vars
  BY <1>1, <1>10 DEF vars, cluster, informer
<1> QED
  BY <1>3, <1>5, <1>6, <1>7, <1>8, <1>9, <1>10 DEF Next

(***************************************************************************)
(* When every subnet is created with its gateway, no pod is ever given the *)
(* gateway, not even when the List of the MacvlanIPs failed (ipalloc.go:   *)
(* 23-24, 105-106, 207-208; macvlansubnet.go:27-33).                       *)
(***************************************************************************)
THEOREM GatewaySafe ==
    ASSUME \A s \in Subnets : NoIP \notin CreatedGateways[s]
    PROVE  Spec => []GatewayNeverAllocated
<1>1. Init => GatewayInv
  BY InitGateway
<1>2. TypeOK /\ GatewayInv /\ [Next]_vars => GatewayInv'
  BY NextGateway
<1>3. GatewayInv => GatewayNeverAllocated
  BY DEF GatewayInv, GatewayNeverAllocated
<1> QED BY <1>1, <1>2, <1>3, TypeCorrect, PTL DEF Spec

-----------------------------------------------------------------------------
(* The annotation is honoured. *)

(***************************************************************************)
(* A uid stands for one pod wherever that pod is seen: at the API server,  *)
(* in the store of the informer, in the hands of the worker.               *)
(***************************************************************************)
Sightings ==
    {Cached(p) : p \in pods} \cup podCache
    \cup (IF job = Idle THEN {} ELSE {job.pod})

UidsCoherent ==
    /\ \A a, b \in Sightings : a.uid = b.uid => a = b
    /\ \A a \in Sightings : a.uid < nextUid
    /\ \A m \in macvlanips : m.uid < nextUid

(* The address, and the MAC that goes with it, answer an annotation.       *)
Answers(ip, mac, ann) ==
    ann.mode # "auto" =>
        \E i \in DOMAIN ann.ips :
            /\ ip = ann.ips[i]
            /\ ann.mode = "multiple" /\ Len(ann.macs) >= 2 => mac = ann.macs[i]

JobAnswers ==
    /\ job.pc = "listPods" =>
          job.pod.ann.mode = "multiple" /\ ~CountsDiffer(job.pod.ann)
    /\ job.pc \in {"listIPs"} \cup Late =>
          Answers(job.ip, job.mac, job.pod.ann)

AnnotationInv ==
    UidsCoherent /\ JobAnswers /\ PickedIPIsHost /\ HonoursAnnotation

LEMMA InitAnnotation == Init => AnnotationInv
BY DEF Init, ProcessStarted, Idle, AnnotationInv, UidsCoherent, Sightings,
   JobAnswers, PickedIPIsHost, HonoursAnnotation, Late

(***************************************************************************)
(* Only the creation of a pod brings a uid that was not seen before.       *)
(***************************************************************************)
LEMMA WorkerSightings ==
    ASSUME TypeOK, DoAddMacvlanIP
    PROVE  /\ nextUid' = nextUid
           /\ Sightings' \subseteq Sightings
           /\ job' = Idle \/ job'.pod = job.pod
           /\ {Cached(p) : p \in pods'} \subseteq {Cached(p) : p \in pods}
<1>0. job # Idle /\ job \in Job
  BY JobAnnotation DEF DoAddMacvlanIP, GetSubnet, ListPods, ListMacvlanIPs,
     GetPod, UpdatePod, CreateMacvlanIP, SyncAndReturn, Idle
<1>1. nextUid' = nextUid /\ podCache' = podCache
  BY DEF DoAddMacvlanIP, GetSubnet, ListPods, ListMacvlanIPs, GetPod,
     UpdatePod, CreateMacvlanIP, SyncAndReturn, cluster, informer
<1>2. {Cached(p) : p \in pods'} \subseteq {Cached(p) : p \in pods}
  <2>1. CASE pods' = pods
    BY <2>1
  <2>2. CASE UpdateApplied
    <3>1. \A p \in job.read : Cached(Labelled(p)) = Cached(p)
      <4> SUFFICES ASSUME NEW p \in job.read
                   PROVE  Cached(Labelled(p)) = Cached(p)
        OBVIOUS
      <4>1. p \in Pod
        BY <1>0 DEF Job
      <4> QED BY <4>1 DEF Cached, Labelled, Pod
    <3>2. pods' = (pods \ job.read) \cup {Labelled(p) : p \in job.read}
          /\ job.read \subseteq pods
      BY <2>2 DEF UpdateApplied
    <3>3. ASSUME NEW p \in pods' PROVE \E q \in pods : Cached(p) = Cached(q)
      BY <3>1, <3>2
    <3> QED BY <3>3
  <2>3. pods' = pods \/ UpdateApplied
    BY DEF DoAddMacvlanIP, GetSubnet, ListPods, ListMacvlanIPs, GetPod,
       UpdatePod, Conflict, CreateMacvlanIP, SyncAndReturn, cluster
  <2> QED BY <2>1, <2>2, <2>3
<1>3. job' = Idle \/ job'.pod = job.pod
  <2>1. CASE GetSubnet
    BY <1>0, <2>1, ReturnResets DEF GetSubnet, Dispatch, Continue, Job
  <2>2. CASE ListPods
    <3>1. ASSUME NEW i, TakePlace(i) PROVE job'.pod = job.pod
      BY <1>0, <3>1 DEF TakePlace, Continue, Job
    <3> QED BY <2>2, <3>1, ReturnResets DEF ListPods
  <2>3. CASE ListMacvlanIPs
    <3>1. ASSUME NEW used, Allocate(used) PROVE job' = Idle \/ job'.pod = job.pod
      BY <1>0, <3>1, ReturnResets DEF Allocate, Continue, Job
    <3> QED BY <2>3, <3>1 DEF ListMacvlanIPs
  <2>4. CASE GetPod
    <3>1. ASSUME Continue([job EXCEPT !.pc = "updatePod",
                                      !.read = PodsOf(job.pod.key)])
          PROVE  job'.pod = job.pod
      BY <1>0, <3>1 DEF Continue, Job
    <3> QED BY <2>4, <3>1, ReturnResets DEF GetPod
  <2>5. CASE UpdatePod
    <3>1. ASSUME UpdateApplied PROVE job'.pod = job.pod
      BY <1>0, <3>1 DEF UpdateApplied, Continue, Job
    <3>2. ASSUME Continue([job EXCEPT !.pc = "getPod", !.tries = @ + 1])
          PROVE  job'.pod = job.pod
      <4>1. job' = [job EXCEPT !.pc = "getPod", !.tries = job.tries + 1]
        BY <3>2 DEF Continue
      <4> QED BY <1>0, <4>1 DEF Job
    <3> QED BY <2>5, <3>1, <3>2, ReturnResets DEF UpdatePod, Conflict
  <2>6. CASE CreateMacvlanIP
    BY <2>6, ReturnResets DEF CreateMacvlanIP, SyncAndReturn
  <2> QED BY <2>1, <2>2, <2>3, <2>4, <2>5, <2>6 DEF DoAddMacvlanIP
<1>4. Sightings' \subseteq Sightings
  BY <1>0, <1>1, <1>2, <1>3 DEF Sightings
<1> QED BY <1>1, <1>2, <1>3, <1>4

LEMMA OtherSightings ==
    ASSUME TypeOK, [Next]_vars, ~DoAddMacvlanIP,
           ~(\E k \in Keys, ann \in Annotations : CreatePod(k, ann))
    PROVE  /\ nextUid' = nextUid
           /\ Sightings' \subseteq Sightings
           /\ {Cached(p) : p \in pods'} \subseteq {Cached(p) : p \in pods}
<1>1. nextUid' = nextUid /\ pods' \subseteq pods
  BY DEF Next, vars, Users, CreateSubnet, DeletePod, CollectGarbage,
     Informers, SyncPods, SyncMacvlanIPs, WatchPodAdd, WatchPodDelete,
     RelistPod, WatchMacvlanIP, EnqueuePod, BackoffOver, OnMacvlanSubnetAdd,
     ProcessNextWorkItem, Purge, PurgeList, PurgeCheck, PurgeDelete, Restart,
     cluster
<1>2. podCache' \subseteq podCache \cup {Cached(p) : p \in pods}
  BY DEF Next, vars, Users, CreateSubnet, DeletePod, CollectGarbage,
     Informers, SyncPods, SyncMacvlanIPs, WatchPodAdd, WatchPodDelete,
     RelistPod, WatchMacvlanIP, EnqueuePod, BackoffOver, OnMacvlanSubnetAdd,
     ProcessNextWorkItem, Purge, PurgeList, PurgeCheck, PurgeDelete, Restart,
     informer
<1>3. job' = job \/ job' = Idle \/ job'.pod \in podCache
  <2>1. ASSUME NEW k \in Keys, ProcessNextWorkItem(k)
        PROVE  job' = Idle \/ job'.pod \in podCache
    BY <2>1 DEF ProcessNextWorkItem, ReturnNil, Continue, CachedPodOf
  <2>2. CASE Restart
    BY <2>2 DEF Restart
  <2>3. CASE Users \/ Informers \/ Purge \/ UNCHANGED vars
    BY <2>3 DEF vars, Users, CreateSubnet, CreatePod, DeletePod,
       CollectGarbage, Informers, SyncPods, SyncMacvlanIPs, WatchPodAdd,
       WatchPodDelete, RelistPod, WatchMacvlanIP, EnqueuePod, BackoffOver,
       OnMacvlanSubnetAdd, Purge, PurgeList, PurgeCheck, PurgeDelete
  <2> QED BY <2>1, <2>2, <2>3 DEF Next
<1> QED BY <1>1, <1>2, <1>3 DEF Sightings

(* What a step does to the MacvlanIPs: it adds the one the job made, or     *)
(* none.                                                                    *)
LEMMA MacvlanIPSteps ==
    ASSUME [Next]_vars
    PROVE  \/ macvlanips' \subseteq macvlanips
           \/ /\ job.pc = "create" /\ job # Idle
              /\ macvlanips' = macvlanips \cup {MakeMacvlanIP}
<1>1. CASE DoAddMacvlanIP
  BY <1>1 DEF DoAddMacvlanIP, GetSubnet, ListPods, ListMacvlanIPs, GetPod,
     UpdatePod, CreateMacvlanIP, SyncAndReturn, cluster, Idle
<1>2. CASE ~DoAddMacvlanIP
  BY <1>2 DEF Next, vars, Users, CreateSubnet, CreatePod, DeletePod,
     CollectGarbage, Informers, SyncPods, SyncMacvlanIPs, WatchPodAdd,
     WatchPodDelete, RelistPod, WatchMacvlanIP, EnqueuePod, BackoffOver,
     OnMacvlanSubnetAdd, ProcessNextWorkItem, Purge, PurgeList, PurgeCheck,
     PurgeDelete, Restart, cluster
<1> QED BY <1>1, <1>2

LEMMA NextUids ==
    ASSUME TypeOK, UidsCoherent, [Next]_vars
    PROVE  UidsCoherent'
<1>1. CASE \E k \in Keys, ann \in Annotations : CreatePod(k, ann)
  <2>1. PICK k \in Keys, ann \in Annotations : CreatePod(k, ann)
    BY <1>1
  <2>2. PICK p : p.uid = nextUid /\ pods' = pods \cup {p}
    BY <2>1 DEF CreatePod
  <2>3. UNCHANGED <<podCache, job, macvlanips>> /\ nextUid' = nextUid + 1
    BY <2>1 DEF CreatePod, informer
  <2>4. Sightings' = Sightings \cup {Cached(p)}
    BY <2>2, <2>3 DEF Sightings
  <2>5. Cached(p).uid = nextUid
    BY <2>2 DEF Cached
  <2>6. \A a \in Sightings : a.uid \in Nat
    BY DEF Sightings, TypeOK, Pod, CachedPod, Job, Cached
  <2>7. \A m \in macvlanips : m.uid \in Nat
    BY DEF TypeOK, MacvlanIP
  <2> QED BY <2>3, <2>4, <2>5, <2>6, <2>7 DEF UidsCoherent, TypeOK
<1>2. CASE ~(\E k \in Keys, ann \in Annotations : CreatePod(k, ann))
  <2>1. nextUid' = nextUid /\ Sightings' \subseteq Sightings
    BY <1>2, WorkerSightings, OtherSightings
  <2>2. \A m \in macvlanips' : m.uid < nextUid
    <3>1. CASE macvlanips' \subseteq macvlanips
      BY <3>1 DEF UidsCoherent
    <3>2. CASE job # Idle /\ macvlanips' = macvlanips \cup {MakeMacvlanIP}
      BY <3>2 DEF UidsCoherent, Sightings, MakeMacvlanIP
    <3> QED BY <3>1, <3>2, MacvlanIPSteps
  <2> QED BY <2>1, <2>2 DEF UidsCoherent
<1> QED BY <1>1, <1>2

LEMMA WorkerAnswers ==
    ASSUME TypeOK, JobAnswers, PickedIPIsHost, DoAddMacvlanIP
    PROVE  JobAnswers' /\ PickedIPIsHost'
<1> USE DEF Late
<1>0. job \in Job /\ job.pod.ann \in Annotation
  BY JobAnnotation DEF DoAddMacvlanIP, GetSubnet, ListPods, ListMacvlanIPs,
     GetPod, UpdatePod, CreateMacvlanIP, SyncAndReturn, Idle
<1>1. CASE job' = Idle
  BY <1>1 DEF Idle, JobAnswers, PickedIPIsHost
<1>2. CASE GetSubnet /\ job' # Idle
  <2>1. Dispatch(job.pod.ann, gateway[job.pod.ann.subnet])
    BY <1>2, ReturnResets DEF GetSubnet
  <2>2. CASE job.pod.ann.mode = "auto"
    <3>1. job'.pc = "listIPs" /\ job'.pod = job.pod
      BY <1>0, <1>2, <2>1, <2>2, ReturnResets DEF Dispatch, Continue, Job
    <3> QED BY <2>2, <3>1 DEF JobAnswers, PickedIPIsHost, Answers
  <2>3. CASE job.pod.ann.mode = "single"
    <3>1. /\ job'.pc = "listIPs" /\ job'.pod = job.pod
          /\ job'.ip = job.pod.ann.ips[1]
      BY <1>0, <1>2, <2>1, <2>3, ReturnResets DEF Dispatch, Continue, Job
    <3>2. 1 \in DOMAIN job.pod.ann.ips
      BY <1>0, <1>2, <2>3, JobAnnotation, AnnotationsAssumption
      DEF AnnotationsAssumption, Annotation, GetSubnet, Idle
    <3> QED BY <2>3, <3>1, <3>2 DEF JobAnswers, PickedIPIsHost, Answers
  <2>4. CASE job.pod.ann.mode = "multiple"
    <3>1. /\ job'.pc = "listPods" /\ job'.pod = job.pod
          /\ ~CountsDiffer(job.pod.ann)
      BY <1>0, <1>2, <2>1, <2>4, ReturnResets DEF Dispatch, Continue, Job
    <3> QED BY <2>4, <3>1 DEF JobAnswers, PickedIPIsHost
  <2> QED BY <1>2, <2>1, <2>2, <2>3, <2>4, ReturnResets DEF Dispatch
<1>3. CASE ListPods /\ job' # Idle
  <2>1. PICK i \in DOMAIN job.pod.ann.ips : TakePlace(i)
    BY <1>3, ReturnResets DEF ListPods, UnusedPlaces
  <2>2. PICK mac \in MacsFor(job.pod.ann, job.pod.ann.ips[i]) :
           Continue([job EXCEPT !.pc = "listIPs", !.mac = mac,
                                !.ip = job.pod.ann.ips[i]])
    BY <2>1 DEF TakePlace
  <2>3. /\ job'.pc = "listIPs" /\ job'.pod = job.pod
        /\ job'.mac = mac /\ job'.ip = job.pod.ann.ips[i]
    BY <1>0, <2>2 DEF Continue, Job
  <2>4. CASE Len(job.pod.ann.macs) < 2
    <3>1. ~(Len(job.pod.ann.macs) >= 2)
      BY <1>0, <2>4 DEF Annotation
    <3> QED BY <2>3, <3>1 DEF JobAnswers, PickedIPIsHost, Answers
  <2>5. CASE ~(Len(job.pod.ann.macs) < 2)
    <3>1. PICK n \in DOMAIN job.pod.ann.macs :
             /\ job.pod.ann.ips[n] = job.pod.ann.ips[i]
             /\ mac = job.pod.ann.macs[n]
      BY <2>5 DEF MacsFor
    <3>2. Len(job.pod.ann.macs) = Len(job.pod.ann.ips)
      BY <1>0, <1>3, <2>5 DEF ListPods, JobAnswers, CountsDiffer, Annotation
    <3>3. n \in DOMAIN job.pod.ann.ips
      BY <1>0, <3>1, <3>2 DEF Annotation
    <3> QED BY <2>3, <3>1, <3>3 DEF JobAnswers, PickedIPIsHost, Answers
  <2> QED BY <2>4, <2>5
<1>4. CASE ListMacvlanIPs /\ job' # Idle
  <2>1. PICK used : Allocate(used)
    BY <1>4 DEF ListMacvlanIPs
  <2>2. PICK a \in Usable(used) :
           Continue([job EXCEPT !.pc = "getPod", !.ip = a])
    BY <1>4, <2>1, ReturnResets DEF Allocate
  <2>3. /\ job'.pc = "getPod" /\ job'.pod = job.pod
        /\ job'.mac = job.mac /\ job'.ip = a
    BY <1>0, <2>2 DEF Continue, Job
  <2>4. a \in Hosts[job.pod.ann.subnet]
        /\ (job.pod.ann.mode # "auto" => a = job.ip)
    BY <2>2 DEF Usable
  <2>5. Answers(job.ip, job.mac, job.pod.ann)
    BY <1>4 DEF ListMacvlanIPs, JobAnswers
  <2> QED BY <2>3, <2>4, <2>5 DEF JobAnswers, PickedIPIsHost, Answers
<1>5. ASSUME job.pc \in Late, job'.pc \in Late, job'.pod = job.pod,
             job'.ip = job.ip, job'.mac = job.mac
      PROVE  JobAnswers' /\ PickedIPIsHost'
  BY <1>5 DEF JobAnswers, PickedIPIsHost
<1>6. CASE GetPod /\ job' # Idle
  <2>1. Continue([job EXCEPT !.pc = "updatePod",
                             !.read = PodsOf(job.pod.key)])
    BY <1>6, ReturnResets DEF GetPod
  <2>2. /\ job'.pc = "updatePod" /\ job'.pod = job.pod
        /\ job'.ip = job.ip /\ job'.mac = job.mac
    BY <1>0, <2>1 DEF Continue, Job
  <2> QED BY <1>5, <1>6, <2>2 DEF GetPod
<1>7. CASE UpdatePod /\ job' # Idle
  <2>1. CASE UpdateApplied
    <3>1. /\ job'.pc = "create" /\ job'.pod = job.pod
          /\ job'.ip = job.ip /\ job'.mac = job.mac
      BY <1>0, <2>1 DEF UpdateApplied, Continue, Job
    <3> QED BY <1>5, <1>7, <3>1 DEF UpdatePod
  <2>2. CASE Continue([job EXCEPT !.pc = "getPod", !.tries = @ + 1])
    <3>1. job' = [job EXCEPT !.pc = "getPod", !.tries = job.tries + 1]
      BY <2>2 DEF Continue
    <3>2. /\ job'.pc = "getPod" /\ job'.pod = job.pod
          /\ job'.ip = job.ip /\ job'.mac = job.mac
      BY <1>0, <3>1 DEF Job
    <3> QED BY <1>5, <1>7, <3>2 DEF UpdatePod
  <2> QED BY <1>7, <2>1, <2>2, ReturnResets DEF UpdatePod, Conflict
<1>8. CASE CreateMacvlanIP
  BY <1>1, <1>8, ReturnResets DEF CreateMacvlanIP, SyncAndReturn
<1> QED
  BY <1>1, <1>2, <1>3, <1>4, <1>6, <1>7, <1>8 DEF DoAddMacvlanIP

LEMMA NextAnswers ==
    ASSUME TypeOK, JobAnswers, PickedIPIsHost, [Next]_vars
    PROVE  JobAnswers' /\ PickedIPIsHost'
<1>1. CASE UNCHANGED job
  BY <1>1 DEF JobAnswers, PickedIPIsHost
<1>2. ASSUME NEW k \in Keys, ProcessNextWorkItem(k)
      PROVE  JobAnswers' /\ PickedIPIsHost'
  <2>1. job'.pc \in {"idle", "getSubnet"}
    BY <1>2 DEF ProcessNextWorkItem, ReturnNil, Continue, Idle
  <2> QED BY <2>1 DEF JobAnswers, PickedIPIsHost, Late
<1>3. CASE Restart
  BY <1>3 DEF Restart, Idle, JobAnswers, PickedIPIsHost, Late
<1>4. CASE Users \/ Informers \/ Purge \/ UNCHANGED vars
  BY <1>1, <1>4 DEF vars, Users, CreateSubnet, CreatePod, DeletePod,
     CollectGarbage, Informers, SyncPods, SyncMacvlanIPs, WatchPodAdd,
     WatchPodDelete, RelistPod, WatchMacvlanIP, EnqueuePod, BackoffOver,
     OnMacvlanSubnetAdd, Purge, PurgeList, PurgeCheck, PurgeDelete
<1> QED BY <1>2, <1>3, <1>4, WorkerAnswers DEF Next

LEMMA NextHonours ==
    ASSUME TypeOK, AnnotationInv, [Next]_vars
    PROVE  HonoursAnnotation'
<1> SUFFICES ASSUME NEW m \in macvlanips', NEW p \in pods', m.uid = p.uid
             PROVE  /\ m.key = p.key
                    /\ m.subnet = p.ann.subnet
                    /\ m.ip \in Hosts[m.subnet]
                    /\ p.ann.mode # "auto" =>
                          \E i \in DOMAIN p.ann.ips :
                             /\ m.ip = p.ann.ips[i]
                             /\ p.ann.mode = "multiple" /\ Len(p.ann.macs) >= 2
                                => m.mac = p.ann.macs[i]
  BY DEF HonoursAnnotation
<1>1. PICK q \in pods : Cached(q) = Cached(p)
  <2>1. CASE \E k \in Keys, ann \in Annotations : CreatePod(k, ann)
    <3>1. PICK k \in Keys, ann \in Annotations : CreatePod(k, ann)
      BY <2>1
    <3>2. p \in pods \/ p.uid = nextUid
      BY <3>1 DEF CreatePod
    <3>3. m \in macvlanips
      BY <3>1 DEF CreatePod
    <3>4. m.uid < nextUid /\ m.uid \in Nat /\ nextUid \in Nat
      BY <3>3 DEF AnnotationInv, UidsCoherent, TypeOK, MacvlanIP
    <3>5. p.uid # nextUid
      BY <3>4
    <3> QED BY <3>2, <3>5
  <2>2. CASE ~(\E k \in Keys, ann \in Annotations : CreatePod(k, ann))
    <3>1. {Cached(r) : r \in pods'} \subseteq {Cached(r) : r \in pods}
      BY <2>2, WorkerSightings, OtherSightings
    <3> QED BY <3>1
  <2> QED BY <2>1, <2>2
<1>2. q.key = p.key /\ q.uid = p.uid /\ q.ann = p.ann
  BY <1>1 DEF Cached
<1>3. CASE m \in macvlanips
  BY <1>2, <1>3 DEF AnnotationInv, HonoursAnnotation
<1>4. CASE m = MakeMacvlanIP /\ job.pc = "create" /\ job # Idle
  <2>1. job.pod.uid = q.uid
    BY <1>2, <1>4 DEF MakeMacvlanIP
  <2>2. Cached(q) \in Sightings /\ job.pod \in Sightings
    BY <1>4 DEF Sightings
  <2>3. job.pod = Cached(q)
    BY <2>1, <2>2 DEF AnnotationInv, UidsCoherent, Cached
  <2>4. job.pod.key = p.key /\ job.pod.ann = p.ann
    BY <1>2, <2>3 DEF Cached
  <2>5. Answers(job.ip, job.mac, p.ann)
    BY <1>4, <2>4 DEF AnnotationInv, JobAnswers, Late
  <2>6. job.ip \in Hosts[p.ann.subnet]
    BY <1>4, <2>4 DEF AnnotationInv, PickedIPIsHost, Late
  <2> QED BY <1>4, <2>4, <2>5, <2>6 DEF MakeMacvlanIP, Answers
<1> QED BY <1>3, <1>4, MacvlanIPSteps

(***************************************************************************)
(* The MacvlanIP of every pod that exists answers that pod's annotations,  *)
(* whatever fails, however often names are used again, the informers list  *)
(* again and the controller restarts: the uid that makeMacvlanIP takes     *)
(* from the pod it read the annotations of (macvlanip.go:45-47, 113,       *)
(* 154-167) keeps the two together.                                        *)
(***************************************************************************)
THEOREM AnnotationsHonoured == Spec => []HonoursAnnotation
<1>1. Init => AnnotationInv
  BY InitAnnotation
<1>2. TypeOK /\ AnnotationInv /\ [Next]_vars => AnnotationInv'
  BY NextUids, NextAnswers, NextHonours DEF AnnotationInv
<1>3. AnnotationInv => HonoursAnnotation
  BY DEF AnnotationInv
<1> QED BY <1>1, <1>2, <1>3, TypeCorrect, PTL DEF Spec

-----------------------------------------------------------------------------
(* The worker is not held for good. *)

\* The calls that getting the pod, labelling it and all retries may still take.
Retries == 2 * (RetrySteps - job.tries)

(***************************************************************************)
(* The calls to the API server the job may still make, for any outcome of  *)
(* them: create is the last, and all before it is done at most once.       *)
(***************************************************************************)
CallsLeft ==
    IF job = Idle THEN 0
    ELSE IF job.pc = "getSubnet" THEN Retries + 4
    ELSE IF job.pc = "listPods" THEN Retries + 3
    ELSE IF job.pc = "listIPs" THEN Retries + 2
    ELSE IF job.pc = "getPod" THEN Retries + 1
    ELSE IF job.pc = "updatePod" THEN Retries
    ELSE 1

TriesBounded == job # Idle => job.tries < RetrySteps

JobEnds == job' = Idle

JobAdvances ==
    /\ job' # Idle
    /\ TriesBounded'
    /\ CallsLeft' < CallsLeft

\* As long as the tries are counted, so are the calls.
LEMMA CallsBounded ==
    ASSUME TypeOK, TriesBounded
    PROVE  CallsLeft \in 0..(2 * RetrySteps + 4) /\ (job # Idle => CallsLeft > 0)
<1>1. RetrySteps \in Nat \ {0}
  BY ConstantsAssumption DEF ConstantsAssumption
<1>2. CASE job = Idle
  BY <1>1, <1>2 DEF CallsLeft
<1>3. CASE job # Idle
  <2>1. job.tries \in Nat /\ job.tries < RetrySteps
    BY <1>3 DEF TypeOK, Job, TriesBounded
  <2>2. Retries \in 2..(2 * RetrySteps)
    BY <1>1, <2>1 DEF Retries
  <2> QED BY <1>1, <1>3, <2>2 DEF CallsLeft
<1> QED BY <1>2, <1>3

\* What the calls but the update leave of a job: the tries, and a later place.
LEMMA PlaceAdvances ==
    ASSUME TypeOK, TriesBounded, job # Idle, job' \in Job, job'.tries = job.tries,
           \/ job.pc = "getSubnet" /\ job'.pc \in {"listPods", "listIPs"}
           \/ job.pc = "listPods" /\ job'.pc = "listIPs"
           \/ job.pc = "listIPs" /\ job'.pc = "getPod"
           \/ job.pc = "getPod" /\ job'.pc = "updatePod"
           \/ job.pc = "updatePod" /\ job'.pc = "create"
    PROVE  JobAdvances
<1>1. RetrySteps \in Nat \ {0}
  BY ConstantsAssumption DEF ConstantsAssumption
<1>2. job.tries \in Nat /\ job.tries < RetrySteps
  BY DEF TypeOK, Job, TriesBounded
<1>3. job' # Idle
  BY DEF Job, Idle
<1>4. Retries \in Nat /\ Retries >= 2 /\ Retries' = Retries
  BY <1>1, <1>2 DEF Retries
<1>5. TriesBounded'
  BY <1>2 DEF TriesBounded
<1>6. CallsLeft' < CallsLeft
  BY <1>3, <1>4 DEF CallsLeft
<1> QED BY <1>3, <1>5, <1>6 DEF JobAdvances

\* Each call of doAddMacvlanIP ends the job or takes it on.
LEMMA WorkerAdvances ==
    ASSUME TypeOK, TriesBounded, DoAddMacvlanIP
    PROVE  job # Idle /\ (JobEnds \/ JobAdvances)
<1>1. job # Idle
  BY DEF DoAddMacvlanIP, GetSubnet, ListPods, ListMacvlanIPs, GetPod, UpdatePod,
         CreateMacvlanIP, Idle
<1>2. job \in Job
  BY <1>1 DEF TypeOK
<1>3. job' \in {Idle} \cup Job
  BY DoAddType DEF TypeOK
<1>4. ReturnNil \/ ReturnErr => JobEnds
  BY DEF ReturnNil, ReturnErr, JobEnds
<1>5. CASE GetSubnet
  <2>1. CASE Dispatch(job.pod.ann, gateway[job.pod.ann.subnet])
    <3>1. \/ JobEnds
          \/ job'.pc \in {"listPods", "listIPs"} /\ job'.tries = job.tries
      BY <1>2, <1>4, <2>1 DEF Dispatch, Continue, Job
    <3> QED BY <1>1, <1>3, <1>5, <3>1, PlaceAdvances DEF GetSubnet, JobEnds
  <2> QED BY <1>1, <1>4, <1>5, <2>1 DEF GetSubnet
<1>6. CASE ListPods
  <2>1. ASSUME NEW i, TakePlace(i)
        PROVE  job'.pc = "listIPs" /\ job'.tries = job.tries
    BY <1>2, <2>1 DEF TakePlace, Continue, Job
  <2>2. \/ JobEnds
        \/ job'.pc = "listIPs" /\ job'.tries = job.tries
    BY <1>4, <1>6, <2>1 DEF ListPods
  <2> QED BY <1>1, <1>3, <1>6, <2>2, PlaceAdvances DEF ListPods, JobEnds
<1>7. CASE ListMacvlanIPs
  <2>1. \/ JobEnds
        \/ job'.pc = "getPod" /\ job'.tries = job.tries
    BY <1>2, <1>4, <1>7 DEF ListMacvlanIPs, Allocate, Continue, Job
  <2> QED BY <1>1, <1>3, <1>7, <2>1, PlaceAdvances DEF ListMacvlanIPs, JobEnds
<1>8. CASE GetPod
  <2>1. \/ JobEnds
        \/ job'.pc = "updatePod" /\ job'.tries = job.tries
    BY <1>2, <1>4, <1>8 DEF GetPod, Continue, Job
  <2> QED BY <1>1, <1>3, <1>8, <2>1, PlaceAdvances DEF GetPod, JobEnds
<1>9. CASE UpdatePod
  <2>1. CASE UpdateApplied
    <3>1. job'.pc = "create" /\ job'.tries = job.tries
      BY <1>2, <2>1 DEF UpdateApplied, Continue, Job
    <3> QED BY <1>1, <1>3, <1>9, <3>1, PlaceAdvances DEF UpdatePod, JobEnds
  <2>2. CASE Conflict
    <3>1. CASE ReturnNil
      BY <1>1, <1>4, <3>1
    <3>2. CASE /\ job.tries + 1 < RetrySteps
               /\ Continue([job EXCEPT !.pc = "getPod", !.tries = @ + 1])
      <4>1. job' = [job EXCEPT !.pc = "getPod", !.tries = job.tries + 1]
        BY <3>2 DEF Continue
      <4>2. job'.pc = "getPod" /\ job'.tries = job.tries + 1 /\ job.tries \in Nat
        BY <1>2, <4>1 DEF Job
      <4>3. RetrySteps \in Nat \ {0} /\ job.pc = "updatePod" /\ job' # Idle
        BY <1>9, <4>2, ConstantsAssumption DEF ConstantsAssumption, UpdatePod, Idle
      <4>4. CallsLeft = 2 * (RetrySteps - job.tries)
        BY <1>1, <4>3 DEF CallsLeft, Retries
      <4>5. CallsLeft' = 2 * (RetrySteps - (job.tries + 1)) + 1
        BY <4>2, <4>3 DEF CallsLeft, Retries
      <4>6. CallsLeft' < CallsLeft
        BY <4>2, <4>3, <4>4, <4>5
      <4>7. TriesBounded'
        BY <3>2, <4>2 DEF TriesBounded
      <4> QED BY <1>1, <4>3, <4>6, <4>7 DEF JobAdvances
    <3> QED BY <2>2, <3>1, <3>2 DEF Conflict
  <2> QED BY <1>1, <1>4, <1>9, <2>1, <2>2 DEF UpdatePod
<1>10. CASE CreateMacvlanIP
  BY <1>1, <1>4, <1>10 DEF CreateMacvlanIP, SyncAndReturn
<1> QED BY <1>5, <1>6, <1>7, <1>8, <1>9, <1>10 DEF DoAddMacvlanIP

\* Nobody else touches a job, but for a restart.
LEMMA JobSteps ==
    ASSUME TypeOK, TriesBounded, [Next]_vars
    PROVE  TriesBounded' /\ (job # Idle => job' = job \/ JobEnds \/ JobAdvances)
<1>1. CASE Users \/ Informers \/ Purge \/ UNCHANGED vars
  <2>1. job' = job
    BY <1>1 DEF Users, CreateSubnet, CreatePod, DeletePod, CollectGarbage,
       Informers, SyncPods, SyncMacvlanIPs, WatchPodAdd, WatchPodDelete, RelistPod,
       WatchMacvlanIP, EnqueuePod, BackoffOver, OnMacvlanSubnetAdd,
       Purge, PurgeList, PurgeCheck, PurgeDelete, vars
  <2> QED BY <2>1 DEF TriesBounded
<1>2. ASSUME NEW k \in Keys, ProcessNextWorkItem(k)
      PROVE  job = Idle /\ TriesBounded'
  <2>1. RetrySteps \in Nat \ {0}
    BY ConstantsAssumption DEF ConstantsAssumption
  <2>2. job = Idle /\ (job' = Idle \/ job'.tries = 0)
    BY <1>2 DEF ProcessNextWorkItem, ReturnNil, Continue
  <2> QED BY <2>1, <2>2 DEF TriesBounded
<1>3. CASE DoAddMacvlanIP
  BY <1>3, WorkerAdvances DEF JobEnds, JobAdvances, TriesBounded
<1>4. CASE Restart
  BY <1>4 DEF Restart, JobEnds, TriesBounded
<1> QED BY <1>1, <1>2, <1>3, <1>4 DEF Next

(***************************************************************************)
(* Whatever its calls answer, a pod holds the one worker for no more than  *)
(* twice RetrySteps and four of them: each takes the job on or ends it, a  *)
(* conflict included, and nobody else lengthens it                         *)
(* (macvlanip.go:67-114, ipalloc.go:18-36, 100-131, 160-225).              *)
(***************************************************************************)
THEOREM JobsAreBounded ==
    Spec => /\ [](CallsLeft \in 0..(2 * RetrySteps + 4) /\ (job # Idle => CallsLeft > 0))
            /\ [][job # Idle => JobEnds \/ JobAdvances]_job
<1>1. Init => TriesBounded
  BY DEF Init, ProcessStarted, TriesBounded
<1>2. TypeOK /\ TriesBounded /\ [Next]_vars
        => TriesBounded' /\ [job # Idle => JobEnds \/ JobAdvances]_job
  BY JobSteps
<1>3. TypeOK /\ TriesBounded
        => CallsLeft \in 0..(2 * RetrySteps + 4) /\ (job # Idle => CallsLeft > 0)
  BY CallsBounded
<1> QED BY <1>1, <1>2, <1>3, TypeCorrect, PTL DEF Spec

=============================================================================
