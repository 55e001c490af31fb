------------------------ MODULE MacvlanServingProofs ------------------------
(***************************************************************************)
(* More theorems about MacvlanController: the labels of pods that share a  *)
(* list, and which MacvlanIPs the purge daemon takes; and, while names are *)
(* not used again and the controller does not restart, that labels say     *)
(* which address a pod has, and that no pod is forgotten.                  *)
(***************************************************************************)
EXTENDS MacvlanControllerProofs

-----------------------------------------------------------------------------
(* What a step does to the running item and to the pods.                   *)

LEMMA WorkerJob ==
    ASSUME TypeOK, DoAddMacvlanIP
    PROVE  /\ job # Idle /\ job \in Job
           /\ job' = Idle \/ (job' # Idle /\ job'.pod = job.pod)
<1>1. job # Idle
  BY DEF DoAddMacvlanIP, GetSubnet, ListPods, ListMacvlanIPs, GetPod,
     UpdatePod, CreateMacvlanIP, Idle
<1> QED BY <1>1, JobAnnotation, WorkerSightings

LEMMA OtherJob ==
    ASSUME [Next]_vars, ~DoAddMacvlanIP
    PROVE  \/ UNCHANGED job
           \/ job' = Idle
           \/ \E k \in Keys : \E c \in CachedPodOf(k) :
                 /\ ProcessNextWorkItem(k) /\ IsMacvlanPod(c)
                 /\ job' = [pc |-> "getSubnet", pod |-> c, gw |-> NoIP,
                            ip |-> NoIP, mac |-> NoMac, read |-> {}, tries |-> 0]
BY DEF Next, vars, Users, CreateSubnet, CreatePod, DeletePod, CollectGarbage,
   Informers, SyncPods, SyncMacvlanIPs, WatchPodAdd, WatchPodDelete, RelistPod,
   WatchMacvlanIP, EnqueuePod, BackoffOver, OnMacvlanSubnetAdd,
   ProcessNextWorkItem, ReturnNil, Continue, Purge, PurgeList, PurgeCheck,
   PurgeDelete, Restart

LEMMA PodSteps ==
    ASSUME [Next]_vars
    PROVE  \/ pods' \subseteq pods /\ nextUid' = nextUid /\ names' = names
           \/ UpdatePod /\ UpdateApplied /\ nextUid' = nextUid /\ names' = names
           \/ \E k \in Keys, ann \in Annotations : CreatePod(k, ann)
BY DEF Next, vars, Users, CreateSubnet, DeletePod, CollectGarbage,
   Informers, SyncPods, SyncMacvlanIPs, WatchPodAdd, WatchPodDelete, RelistPod,
   WatchMacvlanIP, EnqueuePod, BackoffOver, OnMacvlanSubnetAdd,
   ProcessNextWorkItem, Purge, PurgeList, PurgeCheck, PurgeDelete, Restart,
   DoAddMacvlanIP, GetSubnet, ListPods, ListMacvlanIPs, GetPod, UpdatePod,
   Conflict, CreateMacvlanIP, cluster

-----------------------------------------------------------------------------
(* Labels of pods that share a list.                                       *)

\* A name belongs to one pod at a time.
PodPerName == \A p, q \in pods : p.key = q.key => p = q

\* The worker has at most one pod in hand, and it has the name of its item.
ReadIsPod ==
    job # Idle => /\ \A r \in job.read : r.key = job.pod.key
                  /\ \A r, s \in job.read : r = s
                  /\ job.pc = "updatePod" => job.read # {}

\* Until the label is written, no pod that shares the list has the address.
PickedIPIsUnlabelled ==
    job.pc \in {"listIPs", "getPod", "updatePod"} /\ job.pod.ann.mode = "multiple"
    => job.ip \notin LabelledIPs(job.pod)

LabelInv ==
    /\ PodPerName
    /\ ReadIsPod
    /\ PickedIPIsUnlabelled
    /\ SharedListLabelsDistinct

LEMMA InitLabel == Init => LabelInv
BY DEF Init, ProcessStarted, Idle, LabelInv, PodPerName, ReadIsPod,
   PickedIPIsUnlabelled, SharedListLabelsDistinct

LEMMA AppliedPods ==
    ASSUME TypeOK, PodPerName, ReadIsPod, UpdatePod, UpdateApplied
    PROVE  \E r \in pods :
              /\ job.read = {r} /\ r.key = job.pod.key
              /\ pods' = (pods \ {r}) \cup {Labelled(r)}
              /\ Labelled(r).key = r.key /\ Labelled(r).uid = r.uid
              /\ Labelled(r).hash = IPText(job.pod.ann)
              /\ Labelled(r).selected = job.ip
              /\ job'.pc = "create" /\ job'.pod = job.pod /\ job'.ip = job.ip
              /\ job'.read = job.read /\ job' # Idle
<1>1. job # Idle /\ job \in Job /\ job.pc = "updatePod"
  BY WorkerJob DEF DoAddMacvlanIP, UpdatePod
<1>2. PICK r : job.read = {r} /\ r \in pods /\ r.key = job.pod.key
  BY <1>1 DEF ReadIsPod, UpdateApplied
<1>3. /\ Labelled(r).key = r.key /\ Labelled(r).uid = r.uid
      /\ Labelled(r).hash = IPText(job.pod.ann) /\ Labelled(r).selected = job.ip
  BY <1>2 DEF TypeOK, Pod, Labelled
<1>4. pods' = (pods \ {r}) \cup {Labelled(r)}
  BY <1>2 DEF UpdateApplied
<1>5. /\ job'.pc = "create" /\ job'.pod = job.pod /\ job'.ip = job.ip
      /\ job'.read = job.read /\ job' # Idle
  BY <1>1 DEF UpdateApplied, Continue, Job, Idle
<1> QED BY <1>2, <1>3, <1>4, <1>5

LEMMA NextPodPerName ==
    ASSUME TypeOK, PodPerName, ReadIsPod, [Next]_vars
    PROVE  PodPerName'
<1>1. CASE pods' \subseteq pods
  BY <1>1 DEF PodPerName
<1>2. CASE UpdatePod /\ UpdateApplied
  BY <1>2, AppliedPods DEF PodPerName
<1>3. ASSUME NEW k \in Keys, NEW ann \in Annotations, CreatePod(k, ann)
      PROVE  PodPerName'
  BY <1>3 DEF CreatePod, PodsOf, PodPerName
<1> QED BY <1>1, <1>2, <1>3, PodSteps

LEMMA NextRead ==
    ASSUME TypeOK, PodPerName, ReadIsPod, [Next]_vars
    PROVE  ReadIsPod'
<1>1. CASE UNCHANGED job \/ job' = Idle
  BY <1>1 DEF ReadIsPod
<1>2. ASSUME job # Idle, job'.pod = job.pod, job'.read = job.read,
             job'.pc # "updatePod"
      PROVE  ReadIsPod'
  BY <1>2 DEF ReadIsPod
<1>3. CASE DoAddMacvlanIP /\ job' # Idle
  <2>0. job # Idle /\ job \in Job
    BY <1>3, WorkerJob
  <2>1. CASE GetSubnet
    BY <1>2, <1>3, <2>0, <2>1, ReturnResets DEF GetSubnet, Dispatch, Continue, Job
  <2>2. CASE ListPods
    <3>1. PICK i : TakePlace(i)
      BY <1>3, <2>2, ReturnResets DEF ListPods
    <3> QED BY <1>2, <2>0, <3>1 DEF TakePlace, Continue, Job
  <2>3. CASE ListMacvlanIPs
    <3>1. PICK used : Allocate(used)
      BY <2>3 DEF ListMacvlanIPs
    <3> QED BY <1>2, <1>3, <2>0, <3>1, ReturnResets DEF Allocate, Continue, Job
  <2>4. CASE GetPod
    <3>1. /\ PodsOf(job.pod.key) # {}
          /\ job' = [job EXCEPT !.pc = "updatePod", !.read = PodsOf(job.pod.key)]
      BY <1>3, <2>4, ReturnResets DEF GetPod, Continue
    <3>2. job'.pod = job.pod /\ job'.read = PodsOf(job.pod.key)
      BY <2>0, <3>1 DEF Job
    <3> QED BY <3>1, <3>2 DEF ReadIsPod, PodsOf, PodPerName
  <2>5. CASE UpdatePod
    <3>1. CASE UpdateApplied
      BY <1>2, <2>0, <2>5, <3>1, AppliedPods
    <3>2. CASE Continue([job EXCEPT !.pc = "getPod", !.tries = @ + 1])
      <4>1. job' = [job EXCEPT !.pc = "getPod", !.tries = job.tries + 1]
        BY <3>2 DEF Continue
      <4>2. job'.pc = "getPod" /\ job'.pod = job.pod /\ job'.read = job.read
        BY <2>0, <4>1 DEF Job
      <4> QED BY <1>2, <2>0, <4>2
    <3> QED BY <1>3, <2>5, <3>1, <3>2, ReturnResets DEF UpdatePod, Conflict
  <2>6. CASE CreateMacvlanIP
    BY <1>3, <2>6, ReturnResets DEF CreateMacvlanIP, SyncAndReturn
  <2> QED BY <1>3, <2>1, <2>2, <2>3, <2>4, <2>5, <2>6 DEF DoAddMacvlanIP
<1>4. ASSUME NEW c, job' = [pc |-> "getSubnet", pod |-> c, gw |-> NoIP, ip |-> NoIP,
                            mac |-> NoMac, read |-> {}, tries |-> 0]
      PROVE  ReadIsPod'
  BY <1>4 DEF ReadIsPod
<1> QED BY <1>1, <1>3, <1>4, OtherJob

\* Labels only come from the worker, one at a time, after the pick.
LEMMA UnlabelledStays ==
    ASSUME TypeOK, [Next]_vars, ~(UpdatePod /\ UpdateApplied), NEW c \in CachedPod,
           c.ann.mode = "multiple", NEW ip, ip \notin LabelledIPs(c)
    PROVE  ip \notin LabelledIPs(c)'
<1>1. IPText(c.ann) # NoText
  <2>1. Len(IPText(c.ann)) = 2 /\ Len(NoText) = 0
    BY DEF IPText, NoText
  <2> QED BY <2>1
<1>2. ASSUME NEW q \in pods', q.hash = IPText(c.ann) PROVE q \in pods
  BY <1>1, <1>2, PodSteps DEF CreatePod
<1> QED BY <1>2 DEF LabelledIPs

LEMMA NextUnlabelled ==
    ASSUME TypeOK, LabelInv, [Next]_vars
    PROVE  PickedIPIsUnlabelled'
<1> SUFFICES ASSUME job'.pc \in {"listIPs", "getPod", "updatePod"},
                    job'.pod.ann.mode = "multiple"
             PROVE  (job.ip \notin LabelledIPs(job.pod))'
  BY DEF PickedIPIsUnlabelled
<1>0. ~(UpdatePod /\ UpdateApplied)
  BY AppliedPods DEF LabelInv
<1>1. DoAddMacvlanIP \/ UNCHANGED job
  <2>1. job'.pc # "idle" /\ job'.pc # "getSubnet"
    OBVIOUS
  <2> QED BY <2>1, OtherJob DEF Idle
<1>2. job' # Idle
  BY DEF Idle
<1>3. job # Idle /\ job \in Job /\ job'.pod = job.pod
  BY <1>1, <1>2, WorkerJob, JobAnnotation
<1>4. job.pod \in CachedPod /\ job.pod.ann.mode = "multiple"
  BY <1>3 DEF Job
<1>5. ASSUME job.pc \in {"listIPs", "getPod", "updatePod"}, job'.ip = job.ip
      PROVE  (job.ip \notin LabelledIPs(job.pod))'
  <2>1. job.ip \notin LabelledIPs(job.pod)
    BY <1>4, <1>5 DEF LabelInv, PickedIPIsUnlabelled
  <2> QED BY <1>0, <1>3, <1>4, <1>5, <2>1, UnlabelledStays DEF LabelledIPs
<1>6. CASE UNCHANGED job
  BY <1>5, <1>6
<1>7. CASE GetSubnet
  BY <1>2, <1>3, <1>4, <1>7, ReturnResets DEF GetSubnet, Dispatch, Continue, Job
<1>8. CASE ListPods
  <2>1. PICK i \in UnusedPlaces(job.pod) : TakePlace(i)
    BY <1>2, <1>8, ReturnResets DEF ListPods
  <2>2. job'.ip = job.pod.ann.ips[i] /\ job'.ip \notin LabelledIPs(job.pod)
    BY <1>3, <2>1 DEF TakePlace, Continue, Job, UnusedPlaces
  <2> QED BY <1>0, <1>3, <1>4, <2>2, UnlabelledStays DEF LabelledIPs
<1>9. CASE ListMacvlanIPs
  <2>1. PICK used : Allocate(used)
    BY <1>9 DEF ListMacvlanIPs
  <2>2. PICK a \in Usable(used) : job' = [job EXCEPT !.pc = "getPod", !.ip = a]
    BY <1>2, <2>1, ReturnResets DEF Allocate, Continue
  <2>3. job'.ip = a /\ a = job.ip
    BY <1>3, <1>4, <2>2 DEF Job, Usable
  <2> QED BY <1>5, <1>9, <2>3 DEF ListMacvlanIPs
<1>10. CASE GetPod
  <2>1. job'.ip = job.ip
    BY <1>2, <1>3, <1>10, ReturnResets DEF GetPod, Continue, Job
  <2> QED BY <1>5, <1>10, <2>1 DEF GetPod
<1>11. CASE UpdatePod
  <2>1. job' = [job EXCEPT !.pc = "getPod", !.tries = job.tries + 1]
    BY <1>0, <1>2, <1>11, ReturnResets DEF UpdatePod, Conflict, Continue
  <2>2. job'.ip = job.ip
    BY <1>3, <2>1 DEF Job
  <2> QED BY <1>5, <1>11, <2>2 DEF UpdatePod
<1>12. CASE CreateMacvlanIP
  BY <1>2, <1>12, ReturnResets DEF CreateMacvlanIP, SyncAndReturn
<1> QED
  BY <1>1, <1>6, <1>7, <1>8, <1>9, <1>10, <1>11, <1>12 DEF DoAddMacvlanIP

LEMMA NextLabels ==
    ASSUME TypeOK, LabelInv, [Next]_vars
    PROVE  SharedListLabelsDistinct'
<1> SUFFICES ASSUME NEW p \in pods', NEW q \in pods', NsOf[p.key] = NsOf[q.key],
                    p.hash = q.hash, p.hash # NoText, p.hash[1] = "multiple",
                    p.selected = q.selected
             PROVE  p = q
  BY DEF SharedListLabelsDistinct
<1>1. CASE p \in pods /\ q \in pods
  BY <1>1 DEF LabelInv, SharedListLabelsDistinct
<1>2. CASE pods' \subseteq pods
  BY <1>1, <1>2
<1>3. ASSUME NEW k \in Keys, NEW ann \in Annotations, CreatePod(k, ann)
      PROVE  p = q
  BY <1>1, <1>3 DEF CreatePod
<1>4. CASE UpdatePod /\ UpdateApplied
  <2>1. PICK r \in pods :
           /\ r.key = job.pod.key
           /\ pods' = (pods \ {r}) \cup {Labelled(r)}
           /\ Labelled(r).key = r.key
           /\ Labelled(r).hash = IPText(job.pod.ann)
           /\ Labelled(r).selected = job.ip
    BY <1>4, AppliedPods DEF LabelInv
  <2>2. IPText(job.pod.ann)[1] = job.pod.ann.mode
    BY DEF IPText
  <2>3. ASSUME NEW s \in pods, NsOf[s.key] = NsOf[r.key],
               s.hash = IPText(job.pod.ann), s.selected = job.ip,
               job.pod.ann.mode = "multiple"
        PROVE  FALSE
    <3>1. job.ip \notin LabelledIPs(job.pod)
      BY <1>4, <2>3 DEF LabelInv, PickedIPIsUnlabelled, UpdatePod
    <3> QED BY <2>1, <2>3, <3>1 DEF LabelledIPs
  <2> QED BY <1>1, <2>1, <2>2, <2>3
<1> QED BY <1>2, <1>3, <1>4, PodSteps

(***************************************************************************)
(* Pods of a namespace that share a list carry different addresses of it   *)
(* as labels, whatever fails, whichever names are used again and however   *)
(* often the informers list again or the controller restarts: the one      *)
(* worker that reads the labels (ipalloc.go:182-197) is the only one to    *)
(* write them (macvlanip.go:100-103).                                      *)
(***************************************************************************)
THEOREM SharedLabelsDistinct == Spec => []SharedListLabelsDistinct
<1>1. Init => LabelInv
  BY InitLabel
<1>2. TypeOK /\ LabelInv /\ [Next]_vars => LabelInv'
  BY NextPodPerName, NextRead, NextUnlabelled, NextLabels DEF LabelInv
<1>3. LabelInv => SharedListLabelsDistinct
  BY DEF LabelInv
<1> QED BY <1>1, <1>2, <1>3, TypeCorrect, PTL DEF Spec

-----------------------------------------------------------------------------
(* What the purge daemon goes by.                                          *)

\* The pod store has the pod of this uid, if there is one.
Stored(uid) == \A p \in pods : p.uid = uid => Cached(p) \in podCache

\* The worker starts with filled stores, and from the pod store.
OwnersStored ==
    /\ job # Idle => podsSynced /\ Stored(job.pod.uid)
    /\ podsSynced => \A m \in macvlanips : Stored(m.uid)

StoreInv == AnnotationInv /\ LabelInv /\ OwnersStored

LEMMA InitStore == Init => StoreInv
BY InitAnnotation, InitLabel
DEF Init, ProcessStarted, Idle, StoreInv, OwnersStored

\* A pod of an earlier uid was there before, the same but for its labels.
LEMMA PodBefore ==
    ASSUME TypeOK, [Next]_vars, NEW p \in pods', p.uid # nextUid
    PROVE  \E q \in pods : Cached(q) = Cached(p) /\ q.uid = p.uid /\ q.key = p.key
<1>1. CASE \E k \in Keys, ann \in Annotations : CreatePod(k, ann)
  BY <1>1 DEF CreatePod
<1>2. CASE ~(\E k \in Keys, ann \in Annotations : CreatePod(k, ann))
  <2>1. {Cached(q) : q \in pods'} \subseteq {Cached(q) : q \in pods}
    BY <1>2, WorkerSightings, OtherSightings
  <2>2. PICK q \in pods : Cached(q) = Cached(p)
    BY <2>1
  <2> QED BY <2>2 DEF Cached
<1> QED BY <1>1, <1>2

LEMMA PodSighted ==
    ASSUME NEW p \in pods
    PROVE  Cached(p) \in Sightings /\ Cached(p).key = p.key /\ Cached(p).uid = p.uid
BY DEF Sightings, Cached

\* How a filled pod store loses a pod: it is gone, or another has its name.
LEMMA StoreSteps ==
    ASSUME [Next]_vars, podsSynced, podsSynced', NEW c \in podCache \ podCache'
    PROVE  \/ ~Live(c.uid)
           \/ \E p \in pods : p.key = c.key /\ p.uid # c.uid
<1>1. \/ \E d \in podCache : WatchPodDelete(d)
      \/ \E p \in pods : RelistPod(p)
  BY DEF Next, vars, Users, CreateSubnet, CreatePod, DeletePod, CollectGarbage,
     Informers, SyncPods, SyncMacvlanIPs, WatchPodAdd, WatchMacvlanIP, EnqueuePod,
     BackoffOver, OnMacvlanSubnetAdd, ProcessNextWorkItem, Purge, PurgeList,
     PurgeCheck, PurgeDelete, Restart, DoAddMacvlanIP, GetSubnet, ListPods,
     ListMacvlanIPs, GetPod, UpdatePod, CreateMacvlanIP, informer
<1> QED BY <1>1 DEF WatchPodDelete, RelistPod, CachedPodOf

LEMMA StoredStays ==
    ASSUME TypeOK, PodPerName, [Next]_vars, podsSynced, podsSynced',
           NEW uid, uid # nextUid, Stored(uid)
    PROVE  Stored(uid)'
<1> SUFFICES ASSUME NEW p \in pods', p.uid = uid PROVE Cached(p) \in podCache'
  BY DEF Stored, Cached
<1>1. PICK q \in pods : Cached(q) = Cached(p) /\ q.uid = p.uid /\ q.key = p.key
  BY PodBefore
<1>2. Cached(q) \in podCache /\ Cached(q).key = q.key /\ Cached(q).uid = q.uid
  BY <1>1 DEF Stored, Cached
<1>3. Live(q.uid) /\ \A r \in pods : r.key = q.key => r.uid = q.uid
  BY DEF Live, PodPerName
<1> QED BY <1>1, <1>2, <1>3, StoreSteps

\* The stores stay filled while the process runs.
LEMMA SyncedStays ==
    ASSUME [Next]_vars, podsSynced
    PROVE  podsSynced' \/ Restart
BY DEF Next, vars, Users, CreateSubnet, CreatePod, DeletePod, CollectGarbage,
   Informers, SyncPods, SyncMacvlanIPs, WatchPodAdd, WatchPodDelete, RelistPod,
   WatchMacvlanIP, EnqueuePod, BackoffOver, OnMacvlanSubnetAdd,
   ProcessNextWorkItem, Purge, PurgeList, PurgeCheck, PurgeDelete,
   DoAddMacvlanIP, GetSubnet, ListPods, ListMacvlanIPs, GetPod, UpdatePod,
   CreateMacvlanIP, informer

LEMMA NextJobStored ==
    ASSUME TypeOK, StoreInv, [Next]_vars, job' # Idle
    PROVE  podsSynced' /\ Stored(job.pod.uid)'
<1> USE DEF StoreInv, AnnotationInv
<1>1. ASSUME job # Idle, job'.pod = job.pod
      PROVE  podsSynced' /\ Stored(job.pod.uid)'
  <2>1. podsSynced /\ Stored(job.pod.uid) /\ job.pod.uid # nextUid
    <3>1. job.pod.uid < nextUid /\ job.pod.uid \in Nat /\ nextUid \in Nat
      BY <1>1, JobAnnotation DEF UidsCoherent, Sightings, TypeOK, Job, CachedPod
    <3> QED BY <1>1, <3>1 DEF OwnersStored
  <2>2. podsSynced'
    BY <2>1, SyncedStays DEF Restart
  <2>3. PICK uid : uid = job.pod.uid
    OBVIOUS
  <2>4. Stored(uid)'
    BY <2>1, <2>2, <2>3, StoredStays DEF LabelInv
  <2> QED BY <1>1, <2>2, <2>3, <2>4 DEF Stored
<1>2. ASSUME NEW k \in Keys, NEW c \in CachedPodOf(k), ProcessNextWorkItem(k),
             job'.pod = c
      PROVE  podsSynced' /\ Stored(job.pod.uid)'
  <2>1. podsSynced /\ podsSynced' /\ UNCHANGED <<pods, podCache>>
    BY <1>2 DEF ProcessNextWorkItem, cluster, informer
  <2>2. ASSUME NEW p \in pods, p.uid = c.uid PROVE Cached(p) \in podCache
    <3>1. c \in podCache /\ c \in Sightings
      BY DEF CachedPodOf, Sightings
    <3>2. Cached(p) = c
      BY <2>2, <3>1, PodSighted DEF UidsCoherent
    <3> QED BY <3>1, <3>2
  <2> QED BY <1>2, <2>1, <2>2 DEF Stored, Cached
<1>3. CASE DoAddMacvlanIP
  BY <1>1, <1>3, WorkerJob
<1>4. CASE ~DoAddMacvlanIP
  BY <1>1, <1>2, <1>4, OtherJob
<1> QED BY <1>3, <1>4

LEMMA NextOwners ==
    ASSUME TypeOK, StoreInv, [Next]_vars
    PROVE  OwnersStored'
<1> USE DEF StoreInv, AnnotationInv
<1>1. ASSUME podsSynced', NEW m \in macvlanips' PROVE Stored(m.uid)'
  <2>1. CASE SyncPods
    BY <2>1 DEF SyncPods, Stored, cluster
  <2>2. podsSynced \/ SyncPods
    BY <1>1 DEF Next, vars, Users, CreateSubnet, CreatePod, DeletePod, CollectGarbage,
       Informers, SyncMacvlanIPs, WatchPodAdd, WatchPodDelete, RelistPod,
       WatchMacvlanIP, EnqueuePod, BackoffOver, OnMacvlanSubnetAdd,
       ProcessNextWorkItem, Purge, PurgeList, PurgeCheck, PurgeDelete, Restart,
       DoAddMacvlanIP, GetSubnet, ListPods, ListMacvlanIPs, GetPod, UpdatePod,
       CreateMacvlanIP, informer
  <2>3. ASSUME podsSynced, Stored(m.uid), m.uid # nextUid PROVE Stored(m.uid)'
    BY <1>1, <2>3, StoredStays DEF LabelInv
  <2>4. CASE podsSynced /\ m \in macvlanips
    <3>1. m.uid < nextUid /\ m.uid \in Nat /\ nextUid \in Nat
      BY <2>4 DEF UidsCoherent, TypeOK, MacvlanIP
    <3> QED BY <2>3, <2>4, <3>1 DEF OwnersStored
  <2>5. CASE podsSynced /\ m = MakeMacvlanIP /\ job # Idle
    <3>1. m.uid = job.pod.uid
      BY <2>5 DEF MakeMacvlanIP
    <3>2. m.uid < nextUid /\ m.uid \in Nat /\ nextUid \in Nat
      BY <2>5, <3>1, JobAnnotation DEF UidsCoherent, Sightings, TypeOK, Job, CachedPod
    <3> QED BY <2>3, <2>5, <3>1, <3>2 DEF OwnersStored
  <2> QED BY <1>1, <2>1, <2>2, <2>4, <2>5, MacvlanIPSteps
<1> QED BY <1>1, NextJobStored DEF OwnersStored, Stored

LEMMA StoreInvStays == TypeOK /\ StoreInv /\ [Next]_vars => StoreInv'
BY NextUids, NextAnswers, NextHonours, NextPodPerName, NextRead, NextUnlabelled,
   NextLabels, NextOwners
DEF StoreInv, AnnotationInv, LabelInv

\* A MacvlanIP goes when its owner is gone, or when the purge daemon takes it.
LEMMA Removals ==
    ASSUME [Next]_vars, NEW m \in macvlanips \ macvlanips'
    PROVE  ~Live(m.uid) \/ m.key \in purgeVictim
BY DEF Next, vars, Users, CreateSubnet, CreatePod, DeletePod, CollectGarbage,
   Informers, SyncPods, SyncMacvlanIPs, WatchPodAdd, WatchPodDelete, RelistPod,
   WatchMacvlanIP, EnqueuePod, BackoffOver, OnMacvlanSubnetAdd, ProcessNextWorkItem,
   Purge, PurgeList, PurgeCheck, PurgeDelete, IPsOf, Restart, DoAddMacvlanIP, GetSubnet,
   ListPods, ListMacvlanIPs, GetPod, UpdatePod, CreateMacvlanIP, cluster

LEMMA Verdicts ==
    ASSUME [Next]_vars, NEW k \in purgeVictim' \ purgeVictim
    PROVE  UNCHANGED pods /\ CachedPodOf(k) = {}
BY DEF Next, vars, Users, CreateSubnet, CreatePod, DeletePod, CollectGarbage,
   Informers, SyncPods, SyncMacvlanIPs, WatchPodAdd, WatchPodDelete, RelistPod,
   WatchMacvlanIP, EnqueuePod, BackoffOver, OnMacvlanSubnetAdd, ProcessNextWorkItem,
   Purge, PurgeList, PurgeCheck, PurgeDelete, Restart, DoAddMacvlanIP, GetSubnet,
   ListPods, ListMacvlanIPs, GetPod, UpdatePod, CreateMacvlanIP, cluster, purger

LEMMA CondemnsTheDead ==
    ASSUME TypeOK, StoreInv, [Next]_vars, podsSynced, NEW m \in macvlanips, Condemned(m)'
    PROVE  Condemned(m)
<1> USE DEF StoreInv, AnnotationInv
<1>1. PICK p \in pods' : p.uid = m.uid
  BY DEF Condemned, Live
<1>2. m.uid # nextUid
  <2>1. m.uid < nextUid /\ m.uid \in Nat /\ nextUid \in Nat
    BY DEF UidsCoherent, TypeOK, MacvlanIP
  <2> QED BY <2>1
<1>3. PICK q \in pods : q.uid = m.uid
  BY <1>1, <1>2, PodBefore
<1>4. Live(m.uid) /\ q.key = m.key /\ Cached(q) \in podCache
  BY <1>3 DEF Live, HonoursAnnotation, OwnersStored, Stored
<1>5. CachedPodOf(m.key) # {}
  BY <1>4, PodSighted DEF CachedPodOf
<1> QED BY <1>4, <1>5, Verdicts DEF Condemned

(***************************************************************************)
(* With its store filled the purge daemon finds no pod missing that exists *)
(* and has a MacvlanIP, however names are used again, lists are repeated   *)
(* and the controller restarts: only pods in the store get MacvlanIPs, and *)
(* the store lets go of a pod only when it is gone (purge.go:48, 62-68,    *)
(* controller.go:137, macvlanip.go:113).  What it may still take from a    *)
(* pod that exists was made after the look, or condemned by a store that   *)
(* was empty.                                                              *)
(***************************************************************************)
THEOREM PurgeTakesTheDead == Spec => PurgeDecidesOnTheDead
<1>1. TypeOK /\ StoreInv /\ [Next]_vars
      => [/\ podsSynced => \A m \in macvlanips : Condemned(m)' => Condemned(m)
          /\ \A m \in macvlanips \ macvlanips' : Live(m.uid) => Condemned(m)]_vars
  BY CondemnsTheDead, Removals DEF Condemned
<1> QED BY <1>1, InitStore, StoreInvStays, TypeCorrect, PTL
        DEF Spec, PurgeDecidesOnTheDead

-----------------------------------------------------------------------------
(***************************************************************************)
(* Names.  From here on no name is used again and the process does not     *)
(* restart: the hypotheses of the theorems that follow.                    *)
(***************************************************************************)
OneLife == "recreatePod" \notin Events /\ "restart" \notin Events

(* A name stands for one pod wherever it is seen, as a uid always does.    *)
NamesCoherent ==
    /\ \A a \in Sightings : a.key \in names
    /\ \A m \in macvlanips : m.key \in names
    /\ \A a, b \in Sightings : a.key = b.key => a.uid = b.uid
    /\ \A m \in macvlanips, a \in Sightings : m.key = a.key <=> m.uid = a.uid

(* The pod store knows the pod of this name, or has known it and it is gone. *)
Seen(k) == k \in names /\ (CachedPodOf(k) # {} \/ PodsOf(k) = {})

(* Whatever the worker or the purge daemon goes by was seen before, and the *)
(* pod of a MacvlanIP about to be purged is gone.                           *)
SeenFirst ==
    /\ job # Idle => Seen(job.pod.key)
    /\ \A m \in macvlanips : Seen(m.key)
    /\ \A k \in ipCache \cup purgeTodo : Seen(k)
    /\ \A k \in purgeVictim : k \in names /\ PodsOf(k) = {}

LifeInv == UidsCoherent /\ NamesCoherent /\ SeenFirst

LEMMA InitLife == Init => LifeInv
BY InitAnnotation DEF Init, ProcessStarted, Idle, LifeInv, AnnotationInv,
   NamesCoherent, Sightings, SeenFirst

LEMMA NewSighting ==
    ASSUME TypeOK, OneLife, NEW k \in Keys, NEW ann \in Annotations, CreatePod(k, ann)
    PROVE  /\ k \notin names /\ names' = names \cup {k}
           /\ UNCHANGED <<podCache, job, macvlanips, ipCache, purger>>
           /\ \E p : /\ p.key = k /\ p.uid = nextUid /\ pods' = pods \cup {p}
                     /\ Sightings' = Sightings \cup {Cached(p)}
                     /\ Cached(p).key = k /\ Cached(p).uid = nextUid
<1>1. /\ k \notin names /\ names' = names \cup {k}
      /\ UNCHANGED <<podCache, job, macvlanips, ipCache, purger>>
  BY DEF CreatePod, OneLife, Occurs, informer
<1>2. PICK p : p.key = k /\ p.uid = nextUid /\ pods' = pods \cup {p}
  BY DEF CreatePod
<1>3. Sightings' = Sightings \cup {Cached(p)}
  BY <1>1, <1>2 DEF Sightings
<1>4. Cached(p).key = k /\ Cached(p).uid = nextUid
  BY <1>2 DEF Cached
<1> QED BY <1>1, <1>2, <1>3, <1>4

LEMMA NextNames ==
    ASSUME TypeOK, OneLife, UidsCoherent, NamesCoherent, [Next]_vars
    PROVE  NamesCoherent'
<1>1. ASSUME NEW k \in Keys, NEW ann \in Annotations, CreatePod(k, ann)
      PROVE  NamesCoherent'
  <2>1. PICK p : /\ Sightings' = Sightings \cup {Cached(p)}
                 /\ Cached(p).key = k /\ Cached(p).uid = nextUid
    BY <1>1, NewSighting
  <2>2. k \notin names /\ names' = names \cup {k} /\ macvlanips' = macvlanips
    BY <1>1, NewSighting
  <2>3. \A a \in Sightings : a.uid # nextUid /\ a.key # k
    <3>1. \A a \in Sightings : a.uid < nextUid /\ a.uid \in Nat
      BY DEF UidsCoherent, Sightings, TypeOK, Pod, CachedPod, Job, Cached
    <3> QED BY <2>2, <3>1 DEF NamesCoherent, TypeOK
  <2>4. \A m \in macvlanips : m.uid # nextUid /\ m.key # k
    <3>1. \A m \in macvlanips : m.uid < nextUid /\ m.uid \in Nat
      BY DEF UidsCoherent, TypeOK, MacvlanIP
    <3> QED BY <2>2, <3>1 DEF NamesCoherent, TypeOK
  <2> QED BY <2>1, <2>2, <2>3, <2>4 DEF NamesCoherent
<1>2. CASE ~(\E k \in Keys, ann \in Annotations : CreatePod(k, ann))
  <2>1. Sightings' \subseteq Sightings
    BY <1>2, WorkerSightings, OtherSightings
  <2>2. names' = names
    BY <1>2, PodSteps
  <2>3. CASE macvlanips' \subseteq macvlanips
    BY <2>1, <2>2, <2>3 DEF NamesCoherent
  <2>4. CASE job # Idle /\ macvlanips' = macvlanips \cup {MakeMacvlanIP}
    <3>1. job.pod \in Sightings
      BY <2>4 DEF Sightings
    <3>2. MakeMacvlanIP.key = job.pod.key /\ MakeMacvlanIP.uid = job.pod.uid
      BY DEF MakeMacvlanIP
    <3>3. \A a \in Sightings : job.pod.key = a.key <=> job.pod.uid = a.uid
      BY <3>1 DEF NamesCoherent, UidsCoherent
    <3>4. job.pod.key \in names
      BY <3>1 DEF NamesCoherent
    <3>5. \A m \in macvlanips' :
             /\ m.key \in names
             /\ \A a \in Sightings : m.key = a.key <=> m.uid = a.uid
      BY <2>4, <3>2, <3>3, <3>4 DEF NamesCoherent
    <3> QED BY <2>1, <2>2, <3>5 DEF NamesCoherent
  <2> QED BY <2>3, <2>4, MacvlanIPSteps
<1> QED BY <1>1, <1>2

\* What was seen stays seen.
LEMMA SeenStays ==
    ASSUME TypeOK, OneLife, UidsCoherent, NamesCoherent, [Next]_vars,
           NEW k \in Keys, Seen(k)
    PROVE  /\ Seen(k)'
           /\ PodsOf(k) = {} => PodsOf(k)' = {}
           /\ k \in names'
<1>1. ASSUME NEW j \in Keys, NEW ann \in Annotations, CreatePod(j, ann)
      PROVE  Seen(k)' /\ PodsOf(k)' = PodsOf(k)
  <2>1. PICK p : p.key = j /\ pods' = pods \cup {p}
    BY <1>1, NewSighting
  <2>2. j # k /\ names' = names \cup {j} /\ podCache' = podCache
    BY <1>1, NewSighting DEF Seen
  <2>3. PodsOf(k)' = PodsOf(k) /\ CachedPodOf(k)' = CachedPodOf(k)
    BY <2>1, <2>2 DEF PodsOf, CachedPodOf
  <2> QED BY <2>2, <2>3 DEF Seen
<1>2. ASSUME ~(\E j \in Keys, ann \in Annotations : CreatePod(j, ann))
      PROVE  Seen(k)' /\ (PodsOf(k) = {} => PodsOf(k)' = {})
  <2>1. names' = names /\ {Cached(p) : p \in pods'} \subseteq {Cached(p) : p \in pods}
    BY <1>2, PodSteps, WorkerSightings, OtherSightings
  <2>2. \A p \in pods' : \E q \in pods : q.key = p.key
    <3> SUFFICES ASSUME NEW p \in pods' PROVE \E q \in pods : q.key = p.key
      OBVIOUS
    <3>1. PICK q \in pods : Cached(q) = Cached(p)
      BY <2>1
    <3> QED BY <3>1 DEF Cached
  <2>3. PodsOf(k) = {} => PodsOf(k)' = {}
    BY <2>2 DEF PodsOf
  <2>4. CASE PodsOf(k) = {}
    BY <2>1, <2>3, <2>4 DEF Seen
  <2>5. ASSUME NEW q \in PodsOf(k), NEW c \in CachedPodOf(k) PROVE Seen(k)'
    <3>1. q \in pods /\ q.key = k /\ c \in podCache /\ c.key = k
      BY DEF PodsOf, CachedPodOf
    <3>2. c.uid = q.uid
      BY <3>1, PodSighted DEF NamesCoherent, Sightings
    <3>3. Live(c.uid)
      BY <3>1, <3>2 DEF Live
    <3>4. CASE c \in podCache'
      BY <2>1, <3>1, <3>4 DEF Seen, CachedPodOf
    <3>5. CASE SyncPods
      <4>1. podCache' = {Cached(p) : p \in pods}
        BY <3>5 DEF SyncPods
      <4> QED BY <2>1, <3>1, <4>1, PodSighted DEF Seen, CachedPodOf
    <3>6. ASSUME NEW p \in pods, RelistPod(p), c \notin podCache' PROVE Seen(k)'
      <4>1. Cached(p) \in podCache' /\ p.key = k
        BY <3>1, <3>6 DEF RelistPod, CachedPodOf
      <4> QED BY <2>1, <4>1, PodSighted DEF Seen, CachedPodOf
    <3>7. ASSUME NEW d \in podCache, WatchPodDelete(d), c \notin podCache' PROVE FALSE
      BY <3>1, <3>3, <3>7 DEF WatchPodDelete
    <3>8. \/ podCache \subseteq podCache'
          \/ SyncPods
          \/ \E p \in pods : RelistPod(p)
          \/ \E d \in podCache : WatchPodDelete(d)
      BY DEF OneLife, Occurs, Next, vars, Users, CreateSubnet, CreatePod, DeletePod,
         CollectGarbage, Informers, SyncMacvlanIPs, WatchPodAdd, WatchMacvlanIP,
         EnqueuePod, BackoffOver, OnMacvlanSubnetAdd, ProcessNextWorkItem, Purge,
         PurgeList, PurgeCheck, PurgeDelete, Restart, DoAddMacvlanIP, GetSubnet,
         ListPods, ListMacvlanIPs, GetPod, UpdatePod, CreateMacvlanIP, informer
    <3> QED BY <3>1, <3>4, <3>5, <3>6, <3>7, <3>8
  <2> QED BY <2>3, <2>4, <2>5 DEF Seen
<1> QED BY <1>1, <1>2 DEF Seen

LEMMA NextSeen ==
    ASSUME TypeOK, OneLife, LifeInv, [Next]_vars
    PROVE  SeenFirst'
<1>0. \A k \in Keys : Seen(k) => Seen(k)'
  BY SeenStays DEF LifeInv
<1>1. job' # Idle => Seen(job.pod.key)'
  <2> SUFFICES ASSUME job' # Idle PROVE Seen(job.pod.key)'
    OBVIOUS
  <2>1. CASE job # Idle /\ job'.pod = job.pod
    <3>1. Seen(job.pod.key) /\ job.pod.key \in Keys
      BY <2>1, JobAnnotation DEF LifeInv, SeenFirst
    <3> QED BY <1>0, <2>1, <3>1 DEF Seen, CachedPodOf, PodsOf
  <2>2. ASSUME NEW k \in Keys, NEW c \in CachedPodOf(k), job'.pod = c
        PROVE  Seen(job.pod.key)'
    <3>1. c \in podCache /\ c.key = k
      BY DEF CachedPodOf
    <3>2. Seen(k)
      BY <3>1 DEF Seen, LifeInv, NamesCoherent, Sightings
    <3> QED BY <1>0, <2>2, <3>1, <3>2 DEF Seen, CachedPodOf, PodsOf
  <2>3. CASE DoAddMacvlanIP
    BY <2>1, <2>3, WorkerJob
  <2>4. CASE ~DoAddMacvlanIP
    BY <2>1, <2>2, <2>4, OtherJob
  <2> QED BY <2>3, <2>4
<1>2. ASSUME NEW m \in macvlanips' PROVE Seen(m.key)'
  <2>1. CASE m \in macvlanips
    BY <1>0, <2>1 DEF LifeInv, SeenFirst, TypeOK, MacvlanIP
  <2>2. CASE m = MakeMacvlanIP /\ job # Idle
    <3>1. m.key = job.pod.key /\ job.pod.key \in Keys
      BY <2>2, JobAnnotation DEF MakeMacvlanIP
    <3> QED BY <1>0, <2>2, <3>1 DEF LifeInv, SeenFirst
  <2> QED BY <2>1, <2>2, MacvlanIPSteps
<1>3. ASSUME NEW k \in ipCache' \cup purgeTodo' PROVE Seen(k)'
  <2>1. k \in ipCache \cup purgeTodo \cup {m.key : m \in macvlanips}
    BY DEF Next, vars, Users, CreateSubnet, CreatePod, DeletePod, CollectGarbage,
       Informers, SyncPods, SyncMacvlanIPs, WatchPodAdd, WatchPodDelete, RelistPod,
       WatchMacvlanIP, IPsOf, EnqueuePod, BackoffOver, OnMacvlanSubnetAdd,
       ProcessNextWorkItem, Purge, PurgeList, PurgeCheck, PurgeDelete, Restart,
       DoAddMacvlanIP, GetSubnet, ListPods, ListMacvlanIPs, GetPod, UpdatePod,
       CreateMacvlanIP, cluster, informer, purger
  <2>2. k \in Keys
    BY <2>1 DEF TypeOK, MacvlanIP
  <2> QED BY <1>0, <2>1, <2>2 DEF LifeInv, SeenFirst
<1>4. ASSUME NEW k \in purgeVictim' PROVE k \in names' /\ PodsOf(k)' = {}
  <2>1. k \in purgeVictim \/ (k \in purgeTodo /\ CachedPodOf(k) = {})
    BY DEF Next, vars, Users, CreateSubnet, CreatePod, DeletePod, CollectGarbage,
       Informers, SyncPods, SyncMacvlanIPs, WatchPodAdd, WatchPodDelete, RelistPod,
       WatchMacvlanIP, EnqueuePod, BackoffOver, OnMacvlanSubnetAdd,
       ProcessNextWorkItem, Purge, PurgeList, PurgeCheck, PurgeDelete, Restart,
       DoAddMacvlanIP, GetSubnet, ListPods, ListMacvlanIPs, GetPod, UpdatePod,
       CreateMacvlanIP, purger
  <2>2. k \in Keys /\ Seen(k) /\ PodsOf(k) = {}
    BY <2>1 DEF LifeInv, SeenFirst, Seen, TypeOK
  <2> QED BY <2>2, SeenStays DEF LifeInv
<1> QED BY <1>1, <1>2, <1>3, <1>4 DEF SeenFirst

\* In one life it takes nothing from a pod that exists.
LEMMA FreedAfterOwner ==
    ASSUME LifeInv, [Next]_vars, NEW m \in macvlanips \ macvlanips'
    PROVE  ~Live(m.uid)
<1> SUFFICES ASSUME m.key \in purgeVictim, NEW p \in pods, p.uid = m.uid PROVE FALSE
  BY Removals DEF Live
<1>1. p.key = m.key
  BY PodSighted DEF LifeInv, NamesCoherent
<1> QED BY <1>1 DEF LifeInv, SeenFirst, PodsOf

-----------------------------------------------------------------------------
(* No pod is forgotten. *)

(***************************************************************************)
(* The calls whose errors doAddMacvlanIP swallows succeed, and conflicts   *)
(* do not use up the attempts of RetryOnConflict (macvlanip.go:86-110).    *)
(***************************************************************************)
RetriesSuffice ==
    "getPod" \notin Events /\ "updatePod" \notin Events /\ MaxEvents < RetrySteps

(* Only a failure counted makes the update start again. *)
TriesCounted ==
    events <= MaxEvents /\ (job # Idle => job.tries <= events)

(* The pod to be updated is the one the API server has, or it is deleted.  *)
ReadIsCurrent ==
    job.pc = "updatePod" => PodsOf(job.pod.key) = {} \/ job.read \subseteq pods

ServingInv ==
    LabelInv /\ LifeInv /\ TriesCounted /\ ReadIsCurrent /\ ServedOrPending

LEMMA InitServing == Init => ServingInv
BY InitLabel, InitLife, ConstantsAssumption
DEF Init, ProcessStarted, Idle, ServingInv, TriesCounted, ReadIsCurrent,
    ServedOrPending, ConstantsAssumption

LEMMA LabelInvStays == TypeOK /\ LabelInv /\ [Next]_vars => LabelInv'
BY NextPodPerName, NextRead, NextUnlabelled, NextLabels DEF LabelInv

LEMMA LifeInvStays == TypeOK /\ OneLife /\ LifeInv /\ [Next]_vars => LifeInv'
BY NextUids, NextNames, NextSeen DEF LifeInv

LEMMA EventSteps ==
    ASSUME [Next]_vars
    PROVE  events' = events \/ (events < MaxEvents /\ events' = events + 1)
BY DEF Next, vars, Users, CreateSubnet, CreatePod, DeletePod, CollectGarbage,
   Informers, SyncPods, SyncMacvlanIPs, WatchPodAdd, WatchPodDelete, RelistPod,
   WatchMacvlanIP, EnqueuePod, BackoffOver, OnMacvlanSubnetAdd,
   ProcessNextWorkItem, Purge, PurgeList, PurgeCheck, PurgeDelete, Restart,
   DoAddMacvlanIP, GetSubnet, ListPods, ListMacvlanIPs, GetPod, UpdatePod,
   CreateMacvlanIP, Quiet, Occurs

LEMMA NextTries ==
    ASSUME TypeOK, OneLife, RetriesSuffice, ServingInv, [Next]_vars
    PROVE  TriesCounted'
<1>0. /\ events \in Nat /\ events' \in Nat /\ MaxEvents \in Nat
      /\ events <= events' /\ events' <= MaxEvents
  BY EventSteps, ConstantsAssumption DEF TypeOK, ServingInv, TriesCounted, ConstantsAssumption
<1>1. CASE job' = Idle
  BY <1>0, <1>1 DEF TriesCounted
<1>2. ASSUME job # Idle, job'.tries = job.tries PROVE TriesCounted'
  <2>1. job.tries \in Nat /\ job.tries <= events
    BY <1>2, JobAnnotation DEF Job, ServingInv, TriesCounted
  <2> QED BY <1>0, <1>2, <2>1 DEF TriesCounted
<1>3. ASSUME NEW c, job' = [pc |-> "getSubnet", pod |-> c, gw |-> NoIP, ip |-> NoIP,
                            mac |-> NoMac, read |-> {}, tries |-> 0]
      PROVE  TriesCounted'
  BY <1>0, <1>3 DEF TriesCounted
<1>4. CASE DoAddMacvlanIP /\ job' # Idle
  <2>0. job # Idle /\ job \in Job
    BY <1>4, WorkerJob
  <2>1. CASE GetSubnet
    BY <1>2, <1>4, <2>0, <2>1, ReturnResets DEF GetSubnet, Dispatch, Continue, Job
  <2>2. CASE ListPods
    <3>1. PICK i : TakePlace(i)
      BY <1>4, <2>2, ReturnResets DEF ListPods
    <3> QED BY <1>2, <2>0, <3>1 DEF TakePlace, Continue, Job
  <2>3. CASE ListMacvlanIPs
    <3>1. PICK used : Allocate(used)
      BY <2>3 DEF ListMacvlanIPs
    <3> QED BY <1>2, <1>4, <2>0, <3>1, ReturnResets DEF Allocate, Continue, Job
  <2>4. CASE GetPod
    BY <1>2, <1>4, <2>0, <2>4, ReturnResets DEF GetPod, Continue, Job
  <2>5. CASE UpdatePod
    <3>1. CASE UpdateApplied
      BY <1>2, <2>0, <3>1 DEF UpdateApplied, Continue, Job
    <3>2. CASE Conflict /\ Occurs("conflict")
      <4>1. job' = [job EXCEPT !.pc = "getPod", !.tries = job.tries + 1]
        BY <1>4, <3>2, ReturnResets DEF Conflict, Continue
      <4>2. job'.tries = job.tries + 1 /\ job.tries \in Nat
        BY <2>0, <4>1 DEF Job
      <4>3. events' = events + 1 /\ job.tries <= events
        BY <2>0, <3>2 DEF Occurs, ServingInv, TriesCounted
      <4> QED BY <1>0, <4>2, <4>3 DEF TriesCounted
    <3>3. CASE ~(job.read \subseteq pods) /\ PodsOf(job.pod.key) # {}
      BY <2>5, <3>3 DEF ServingInv, ReadIsCurrent, UpdatePod
    <3> QED BY <1>4, <2>5, <3>1, <3>2, <3>3, ReturnResets DEF UpdatePod
  <2>6. CASE CreateMacvlanIP
    BY <1>4, <2>6, ReturnResets DEF CreateMacvlanIP, SyncAndReturn
  <2> QED BY <1>4, <2>1, <2>2, <2>3, <2>4, <2>5, <2>6 DEF DoAddMacvlanIP
<1>5. CASE UNCHANGED job
  BY <1>1, <1>2, <1>5
<1> QED BY <1>1, <1>3, <1>4, <1>5, OtherJob

\* An item that waits for its update: read this very moment, or before.
LEMMA ReadSteps ==
    ASSUME TypeOK, [Next]_vars, job'.pc = "updatePod"
    PROVE  /\ job # Idle /\ job'.pod = job.pod
           /\ \/ UNCHANGED job
              \/ UNCHANGED pods /\ job'.read = PodsOf(job.pod.key)
<1>1. job' # Idle
  BY DEF Idle
<1>2. CASE DoAddMacvlanIP
  <2>0. job # Idle /\ job \in Job /\ job'.pod = job.pod
    BY <1>1, <1>2, WorkerJob
  <2>1. CASE GetSubnet
    BY <1>1, <2>0, <2>1, ReturnResets DEF GetSubnet, Dispatch, Continue, Job
  <2>2. CASE ListPods
    <3>1. PICK i : TakePlace(i)
      BY <1>1, <2>2, ReturnResets DEF ListPods
    <3> QED BY <2>0, <3>1 DEF TakePlace, Continue, Job
  <2>3. CASE ListMacvlanIPs
    <3>1. PICK used : Allocate(used)
      BY <2>3 DEF ListMacvlanIPs
    <3> QED BY <1>1, <2>0, <3>1, ReturnResets DEF Allocate, Continue, Job
  <2>4. CASE GetPod
    <3>1. job' = [job EXCEPT !.pc = "updatePod", !.read = PodsOf(job.pod.key)]
      BY <1>1, <2>4, ReturnResets DEF GetPod, Continue
    <3>2. job'.read = PodsOf(job.pod.key)
      BY <2>0, <3>1 DEF Job
    <3> QED BY <2>0, <2>4, <3>2 DEF GetPod, cluster
  <2>5. CASE UpdatePod
    <3>1. ~UpdateApplied
      BY <2>0 DEF UpdateApplied, Continue, Job
    <3>2. job' = [job EXCEPT !.pc = "getPod", !.tries = job.tries + 1]
      BY <1>1, <2>5, <3>1, ReturnResets DEF UpdatePod, Conflict, Continue
    <3> QED BY <2>0, <3>2 DEF Job
  <2>6. CASE CreateMacvlanIP
    BY <1>1, <2>6, ReturnResets DEF CreateMacvlanIP, SyncAndReturn
  <2> QED BY <1>2, <2>1, <2>2, <2>3, <2>4, <2>5, <2>6 DEF DoAddMacvlanIP
<1>3. CASE ~DoAddMacvlanIP
  BY <1>1, <1>3, OtherJob DEF Idle
<1> QED BY <1>2, <1>3

LEMMA NextCurrent ==
    ASSUME TypeOK, OneLife, ServingInv, [Next]_vars
    PROVE  ReadIsCurrent'
<1> SUFFICES ASSUME job'.pc = "updatePod"
             PROVE  PodsOf(job.pod.key)' = {} \/ job'.read \subseteq pods'
  BY DEF ReadIsCurrent
<1>1. job # Idle /\ job'.pod = job.pod /\ job.pod.key \in Keys
  BY ReadSteps, JobAnnotation
<1>2. CASE UNCHANGED pods /\ job'.read = PodsOf(job.pod.key)
  BY <1>2 DEF PodsOf
<1>3. CASE UNCHANGED job
  <2>1. Seen(job.pod.key) /\ PodPerName
    BY <1>1 DEF ServingInv, LifeInv, SeenFirst, LabelInv
  <2>2. CASE PodsOf(job.pod.key) = {}
    <3>1. PICK k \in Keys : Seen(k) /\ PodsOf(k) = {} /\ job'.pod.key = k
      BY <1>1, <2>1, <2>2
    <3>2. PodsOf(k)' = {}
      BY <3>1, SeenStays DEF ServingInv, LifeInv
    <3> QED BY <3>1, <3>2 DEF PodsOf
  <2>3. CASE job.read \subseteq pods
    <3>1. CASE pods \subseteq pods'
      BY <1>3, <2>3, <3>1
    <3>2. CASE pods' \subseteq pods
      <4> SUFFICES ASSUME NEW r \in job.read, r \notin pods', NEW p \in pods',
                          p.key = job'.pod.key
                   PROVE  FALSE
        BY <1>3 DEF PodsOf
      <4>1. r \in pods /\ r.key = job.pod.key
        BY <1>1, <2>3 DEF ServingInv, LabelInv, ReadIsPod
      <4> QED BY <1>1, <2>1, <3>2, <4>1 DEF PodPerName
    <3>3. CASE UpdatePod /\ UpdateApplied
      BY <3>3, AppliedPods DEF ServingInv, LabelInv
    <3>4. (\E k \in Keys, ann \in Annotations : CreatePod(k, ann)) => pods \subseteq pods'
      BY DEF CreatePod
    <3> QED BY <3>1, <3>2, <3>3, <3>4, PodSteps
  <2> QED BY <1>3, <2>2, <2>3 DEF ServingInv, ReadIsCurrent
<1> QED BY <1>2, <1>3, ReadSteps

\* An item whose pod is still there ends with its MacvlanIP, or is put back.
LEMMA ItemEnds ==
    ASSUME TypeOK, OneLife, RetriesSuffice, ServingInv, DoAddMacvlanIP, job' = Idle,
           Live(job.pod.uid), job.pod.ann.mode \in {"auto", "single", "multiple"}
    PROVE  \/ job.pod.key \in waiting'
           \/ \E m \in macvlanips' : m.uid = job.pod.uid
<1>0. job # Idle /\ job \in Job
  BY WorkerJob
<1>1. PodsOf(job.pod.key) # {}
  <2>1. PICK p \in pods : p.uid = job.pod.uid
    BY DEF Live
  <2>2. p.key = job.pod.key
    BY <1>0, <2>1, PodSighted DEF ServingInv, LifeInv, UidsCoherent, Sightings
  <2> QED BY <2>1, <2>2 DEF PodsOf
<1>2. ASSUME ReturnErr PROVE job.pod.key \in waiting'
  BY <1>2 DEF ReturnErr
<1>4. CASE GetSubnet
  <2>1. Dispatch(job.pod.ann, gateway[job.pod.ann.subnet]) => ReturnErr
    BY <1>0 DEF Dispatch, Continue, Idle, Job, ReturnErr, ReturnNil
  <2> QED BY <1>2, <1>4, <2>1 DEF GetSubnet
<1>5. CASE ListPods
  <2>1. \A i : ~TakePlace(i)
    BY <1>0 DEF TakePlace, Continue, Idle, Job
  <2> QED BY <1>2, <1>5, <2>1 DEF ListPods
<1>6. CASE ListMacvlanIPs
  <2>1. \A used : Allocate(used) => ReturnErr
    BY <1>0 DEF Allocate, Continue, Idle, Job
  <2> QED BY <1>2, <1>6, <2>1 DEF ListMacvlanIPs
<1>7. CASE GetPod
  BY <1>0, <1>1, <1>7 DEF GetPod, RetriesSuffice, Occurs, Continue, Idle, Job
<1>8. CASE UpdatePod
  <2>1. ~UpdateApplied
    BY <1>0 DEF UpdateApplied, Continue, Idle, Job
  <2>2. ASSUME Conflict, Occurs("conflict") PROVE FALSE
    <3>1. job.tries + 1 < RetrySteps
      BY <1>0, <2>2, ConstantsAssumption
      DEF Occurs, ServingInv, TriesCounted, RetriesSuffice, ConstantsAssumption, TypeOK, Job
    <3>2. job' = [job EXCEPT !.pc = "getPod", !.tries = job.tries + 1]
      BY <1>0, <2>2, <3>1, ConstantsAssumption
      DEF Conflict, Continue, ConstantsAssumption, Job
    <3> QED BY <1>0, <3>2 DEF Job, Idle
  <2> QED BY <1>1, <1>8, <2>1, <2>2
          DEF UpdatePod, RetriesSuffice, Occurs, ServingInv, ReadIsCurrent
<1>9. CASE CreateMacvlanIP
  <2>1. CASE MakeMacvlanIP \in macvlanips'
    BY <2>1 DEF MakeMacvlanIP
  <2>2. ASSUME NEW m \in IPsOf(job.pod.key), UNCHANGED macvlanips
        PROVE  \E n \in macvlanips' : n.uid = job.pod.uid
    <3>1. m \in macvlanips /\ m.key = job.pod.key /\ job.pod \in Sightings
      BY <1>0 DEF IPsOf, Sightings
    <3> QED BY <2>2, <3>1 DEF ServingInv, LifeInv, NamesCoherent
  <2> QED BY <1>2, <1>9, <2>1, <2>2 DEF CreateMacvlanIP
<1> QED BY <1>4, <1>5, <1>6, <1>7, <1>8, <1>9 DEF DoAddMacvlanIP

\* How a key stops being pending: its item ends.
LEMMA PendingSteps ==
    ASSUME TypeOK, OneLife, [Next]_vars, NEW k \in Keys, Pending(k)
    PROVE  \/ Pending(k)'
           \/ DoAddMacvlanIP /\ job' = Idle /\ job.pod.key = k
           \/ ProcessNextWorkItem(k) /\ job' = Idle
           \/ SyncPods
<1>1. CASE job # Idle /\ job.pod.key = k
  <2>1. CASE DoAddMacvlanIP
    BY <1>1, <2>1, WorkerJob DEF Pending
  <2>2. CASE UNCHANGED job
    BY <1>1, <2>2 DEF Pending
  <2>3. DoAddMacvlanIP \/ UNCHANGED job
    BY <1>1 DEF OneLife, Occurs, Next, vars, Users, CreateSubnet, CreatePod, DeletePod,
       CollectGarbage, Informers, SyncPods, SyncMacvlanIPs, WatchPodAdd,
       WatchPodDelete, RelistPod, WatchMacvlanIP, EnqueuePod, BackoffOver,
       OnMacvlanSubnetAdd, ProcessNextWorkItem, Purge, PurgeList, PurgeCheck,
       PurgeDelete, Restart
  <2> QED BY <2>1, <2>2, <2>3
<1>2. CASE adds[k] > 0
  <2>1. CASE UNCHANGED adds
    BY <1>2, <2>1 DEF Pending
  <2>2. ASSUME NEW p \in pods, WatchPodAdd(p) PROVE Pending(k)'
    <3>1. adds'[k] \in {adds[k], adds[k] + 1} /\ adds[k] \in Nat
      BY <2>2 DEF WatchPodAdd, TypeOK
    <3> QED BY <1>2, <3>1 DEF Pending
  <2>3. ASSUME NEW j \in Keys, EnqueuePod(j) PROVE Pending(k)'
    <3>1. adds'[k] = adds[k] \/ k \in dirty'
      BY <2>3 DEF EnqueuePod, TypeOK
    <3> QED BY <1>2, <3>1 DEF Pending
  <2>4. \/ UNCHANGED adds \/ SyncPods
        \/ \E p \in pods : WatchPodAdd(p)
        \/ \E j \in Keys : EnqueuePod(j)
    BY DEF OneLife, Occurs, Next, vars, Users, CreateSubnet, CreatePod, DeletePod,
       CollectGarbage, Informers, SyncMacvlanIPs, WatchPodDelete, RelistPod,
       WatchMacvlanIP, BackoffOver, OnMacvlanSubnetAdd, ProcessNextWorkItem,
       Purge, PurgeList, PurgeCheck, PurgeDelete, Restart, DoAddMacvlanIP,
       GetSubnet, ListPods, ListMacvlanIPs, GetPod, UpdatePod, CreateMacvlanIP,
       informer
  <2> QED BY <2>1, <2>2, <2>3, <2>4
<1>3. CASE k \in dirty \cup waiting
  <2>1. ASSUME NEW j \in Keys, ProcessNextWorkItem(j), k \notin dirty' \cup waiting'
        PROVE  ProcessNextWorkItem(k) /\ (job' = Idle \/ Pending(k)')
    <3>1. j = k
      BY <1>3, <2>1 DEF ProcessNextWorkItem, ReturnNil, Continue
    <3>2. ASSUME NEW c \in CachedPodOf(k), job'.pc = "getSubnet", job'.pod = c
          PROVE  Pending(k)'
      BY <3>2 DEF Pending, CachedPodOf, Idle
    <3> QED BY <2>1, <3>1, <3>2 DEF ProcessNextWorkItem, ReturnNil, Continue
  <2>2. (\E j \in Keys : ProcessNextWorkItem(j)) \/ k \in dirty' \cup waiting'
    BY <1>3 DEF OneLife, Occurs, Next, vars, Users, CreateSubnet, CreatePod, DeletePod,
       CollectGarbage, Informers, SyncPods, SyncMacvlanIPs, WatchPodAdd,
       WatchPodDelete, RelistPod, WatchMacvlanIP, EnqueuePod, BackoffOver,
       OnMacvlanSubnetAdd, Purge, PurgeList, PurgeCheck, PurgeDelete, Restart,
       DoAddMacvlanIP, GetSubnet, Dispatch, ListPods, TakePlace, ListMacvlanIPs,
       Allocate, GetPod, UpdatePod, UpdateApplied, Conflict, CreateMacvlanIP,
       SyncAndReturn, ReturnNil, ReturnErr, Continue, queue
  <2> QED BY <2>1, <2>2 DEF Pending
<1> QED BY <1>1, <1>2, <1>3 DEF Pending

LEMMA NextServedOrPending ==
    ASSUME TypeOK, OneLife, RetriesSuffice, ServingInv, [Next]_vars
    PROVE  ServedOrPending'
<1> SUFFICES ASSUME NEW c \in podCache', Live(c.uid)',
                    c.ann.mode \in {"auto", "single", "multiple"}
             PROVE  Pending(c.key)' \/ \E m \in macvlanips' : m.uid = c.uid
  BY DEF ServedOrPending, Live
<1> USE DEF ServingInv, LifeInv
<1>0. TypeOK' /\ c.key \in Keys
  BY NextType DEF TypeOK, CachedPod
<1>1. CASE c \notin podCache
  <2>1. CASE SyncPods
    <3>1. PICK p \in pods : c.key = p.key
      BY <2>1 DEF SyncPods, Cached
    <3>2. adds'[c.key] = 1
      BY <1>0, <2>1, <3>1 DEF SyncPods, PodsOf
    <3> QED BY <3>2 DEF Pending
  <2>2. ASSUME NEW p \in pods, WatchPodAdd(p) PROVE Pending(c.key)'
    <3>1. c.key = p.key
      BY <1>1, <2>2 DEF WatchPodAdd, Cached
    <3>2. adds'[c.key] = adds[c.key] + 1 /\ adds[c.key] \in Nat
      BY <1>0, <2>2, <3>1 DEF WatchPodAdd, TypeOK
    <3> QED BY <3>2 DEF Pending
  <2>3. ASSUME NEW p \in pods, RelistPod(p) PROVE FALSE
    <3>1. PICK d \in podCache : d.key = p.key /\ d.uid # p.uid
      BY <2>3 DEF RelistPod, CachedPodOf
    <3> QED BY <3>1, PodSighted DEF NamesCoherent, Sightings
  <2>4. \/ podCache' \subseteq podCache \/ SyncPods
        \/ \E p \in pods : WatchPodAdd(p) \/ RelistPod(p)
    BY DEF Next, vars, Users, CreateSubnet, CreatePod, DeletePod, CollectGarbage,
       Informers, SyncMacvlanIPs, WatchPodDelete, WatchMacvlanIP, EnqueuePod,
       BackoffOver, OnMacvlanSubnetAdd, ProcessNextWorkItem, Purge, PurgeList,
       PurgeCheck, PurgeDelete, Restart, DoAddMacvlanIP, GetSubnet, ListPods,
       ListMacvlanIPs, GetPod, UpdatePod, CreateMacvlanIP, informer
  <2> QED BY <1>1, <2>1, <2>2, <2>3, <2>4
<1>2. CASE c \in podCache
  <2>1. c \in Sightings /\ c.uid # nextUid
    BY <1>2 DEF UidsCoherent, Sightings, TypeOK, CachedPod
  <2>2. PICK p \in pods : p.uid = c.uid /\ p.key = c.key
    <3>1. PICK q \in pods' : q.uid = c.uid
      BY DEF Live
    <3>2. \E p \in pods : p.uid = c.uid
      <4>1. CASE \E k \in Keys, ann \in Annotations : CreatePod(k, ann)
        BY <2>1, <3>1, <4>1 DEF CreatePod
      <4>2. CASE ~(\E k \in Keys, ann \in Annotations : CreatePod(k, ann))
        <5>1. PICK p \in pods : Cached(p) = Cached(q)
          BY <3>1, <4>2, WorkerSightings, OtherSightings
        <5> QED BY <3>1, <5>1 DEF Cached
      <4> QED BY <4>1, <4>2
    <3> QED BY <2>1, <3>2, PodSighted DEF UidsCoherent
  <2>3. Live(c.uid) /\ PodsOf(c.key) # {}
    BY <2>2 DEF Live, PodsOf
  <2>4. ASSUME NEW m \in macvlanips, m.uid = c.uid
        PROVE  \E n \in macvlanips' : n.uid = c.uid
    BY <2>3, <2>4, FreedAfterOwner
  <2>5. CASE Pending(c.key)
    <3>1. CASE DoAddMacvlanIP /\ job' = Idle /\ job.pod.key = c.key
      <4>1. job.pod = c
        BY <2>1, <3>1, WorkerJob DEF NamesCoherent, UidsCoherent, Sightings
      <4>2. c.key \in waiting' \/ \E m \in macvlanips' : m.uid = c.uid
        BY <2>3, <3>1, <4>1, ItemEnds
      <4> QED BY <4>2 DEF Pending
    <3>2. CASE ProcessNextWorkItem(c.key) /\ job' = Idle
      <4>1. \A d \in CachedPodOf(c.key) : ~IsMacvlanPod(d)
        BY <3>2 DEF ProcessNextWorkItem, Continue, Idle
      <4> QED BY <1>2, <4>1 DEF CachedPodOf, IsMacvlanPod
    <3>3. CASE SyncPods
      <4>1. adds'[c.key] = 1
        BY <1>0, <2>3, <3>3 DEF SyncPods
      <4> QED BY <4>1 DEF Pending
    <3> QED BY <1>0, <2>5, <3>1, <3>2, <3>3, PendingSteps
  <2> QED BY <1>2, <2>3, <2>4, <2>5 DEF ServedOrPending
<1> QED BY <1>1, <1>2

(***************************************************************************)
(* No pod is forgotten: however calls fail, conflict and are answered too  *)
(* late, each pod the controller was told of has its MacvlanIP or is still *)
(* to be worked on (controller.go:174-201).  The hypotheses are what the   *)
(* code needs: no name is used again and the process does not restart, the *)
(* calls whose error it swallows succeed, and there are fewer failures     *)
(* than attempts (macvlanip.go:86-110).                                    *)
(***************************************************************************)
THEOREM NobodyForgotten ==
    ASSUME OneLife, RetriesSuffice
    PROVE  Spec => []ServedOrPending
<1>1. TypeOK /\ ServingInv /\ [Next]_vars => ServingInv'
  BY LabelInvStays, LifeInvStays, NextTries, NextCurrent, NextServedOrPending
  DEF ServingInv
<1>2. ServingInv => ServedOrPending
  BY DEF ServingInv
<1> QED BY <1>1, <1>2, InitServing, TypeCorrect, PTL DEF Spec

-----------------------------------------------------------------------------
(* Labels tell the address. *)

(* A key is in one place only, and never again once it has a MacvlanIP.    *)
InHand(k) == job # Idle /\ job.pod.key = k

OnceFor(k) ==
    /\ adds[k] <= 1
    /\ adds[k] > 0 => k \notin dirty \cup waiting /\ ~InHand(k)
    /\ k \in dirty => k \notin waiting /\ ~InHand(k)
    /\ k \in waiting => ~InHand(k)
    /\ Pending(k) => Seen(k) /\ IPsOf(k) = {}

NothingCachedYet == ~podsSynced => podCache = {}

(* The label is written before the MacvlanIP is made. *)
LabelWritten ==
    job.pc = "create" => \A p \in PodsOf(job.pod.key) : p.selected = job.ip

WrittenInv ==
    /\ LabelInv /\ LifeInv
    /\ NothingCachedYet
    /\ \A k \in Keys : OnceFor(k)
    /\ LabelWritten
    /\ LabelMatchesIP

LEMMA InitWritten == Init => WrittenInv
BY InitLabel, InitLife
DEF Init, ProcessStarted, Idle, WrittenInv, NothingCachedYet, OnceFor, Pending,
    InHand, LabelWritten, LabelMatchesIP

LEMMA NextNothingCached == NothingCachedYet /\ [Next]_vars => NothingCachedYet'
BY DEF NothingCachedYet, Next, vars, Users, CreateSubnet, CreatePod, DeletePod,
   CollectGarbage, Informers, SyncPods, SyncMacvlanIPs, WatchPodAdd, WatchPodDelete,
   RelistPod, WatchMacvlanIP, EnqueuePod, BackoffOver, OnMacvlanSubnetAdd,
   ProcessNextWorkItem, Purge, PurgeList, PurgeCheck, PurgeDelete, Restart,
   DoAddMacvlanIP, GetSubnet, ListPods, ListMacvlanIPs, GetPod, UpdatePod,
   CreateMacvlanIP, informer

\* What a call of the worker does to the queue and the MacvlanIPs.
LEMMA DoAddEffect ==
    ASSUME TypeOK, DoAddMacvlanIP, "createLost" \notin Events
    PROVE  /\ UNCHANGED <<adds, dirty>>
           /\ \/ /\ job' = Idle \/ (job' # Idle /\ job'.pod = job.pod)
                 /\ UNCHANGED <<waiting, macvlanips>>
              \/ /\ job' = Idle
                 /\ waiting' = waiting \cup {job.pod.key} /\ UNCHANGED macvlanips
              \/ /\ job' = Idle /\ UNCHANGED waiting
                 /\ job.pc = "create" /\ macvlanips' = macvlanips \cup {MakeMacvlanIP}
<1>1. UNCHANGED <<adds, dirty>>
  BY DEF DoAddMacvlanIP, GetSubnet, ListPods, ListMacvlanIPs, GetPod, UpdatePod,
     CreateMacvlanIP, informer
<1>2. CASE CreateMacvlanIP
  BY <1>1, <1>2 DEF CreateMacvlanIP, SyncAndReturn, ReturnNil, ReturnErr, Occurs
<1>3. CASE ~CreateMacvlanIP
  <2>1. UNCHANGED macvlanips
    BY <1>3 DEF DoAddMacvlanIP, GetSubnet, ListPods, ListMacvlanIPs, GetPod, UpdatePod,
       cluster
  <2>2. UNCHANGED waiting \/ ReturnErr
    BY <1>3 DEF DoAddMacvlanIP, GetSubnet, Dispatch, ListPods, TakePlace,
       ListMacvlanIPs, Allocate, GetPod, UpdatePod, UpdateApplied, Conflict,
       ReturnNil, Continue
  <2> QED BY <1>1, <2>1, <2>2, WorkerJob DEF ReturnErr
<1> QED BY <1>2, <1>3

LEMMA NextOnce ==
    ASSUME TypeOK, OneLife, "createLost" \notin Events, WrittenInv, [Next]_vars,
           NEW k \in Keys
    PROVE  OnceFor(k)'
<1> USE DEF WrittenInv, LifeInv
<1>0. OnceFor(k) /\ adds[k] \in Nat /\ (Seen(k) => Seen(k)')
  BY SeenStays DEF TypeOK
<1>1. ASSUME UNCHANGED <<adds, dirty, waiting, job>>, macvlanips' \subseteq macvlanips
      PROVE  OnceFor(k)'
  BY <1>0, <1>1 DEF OnceFor, InHand, Pending, IPsOf
\* Where a key may become pending, its pod was never seen before.
<1>2. ASSUME NEW p \in pods, p.key = k, CachedPodOf(k) = {}
      PROVE  ~Pending(k) /\ IPsOf(k) = {}
  <2>1. ~Seen(k)
    BY <1>2 DEF Seen, PodsOf
  <2> QED BY <1>0, <2>1 DEF OnceFor, SeenFirst, IPsOf
<1>3. ASSUME ~Pending(k), IPsOf(k) = {}, adds'[k] \in {0, 1}, adds'[k] > 0 => Seen(k)',
             UNCHANGED <<dirty, waiting, job, macvlanips>>
      PROVE  OnceFor(k)'
  BY <1>3 DEF OnceFor, InHand, Pending, IPsOf
<1>4. CASE SyncPods
  <2>1. podCache = {} /\ CachedPodOf(k) = {}
    BY <1>4 DEF SyncPods, NothingCachedYet, CachedPodOf
  <2>2. UNCHANGED <<pods, names, dirty, waiting, job, macvlanips>>
    BY <1>4 DEF SyncPods, cluster, queue
  <2>3. CASE PodsOf(k) = {}
    <3>1. adds'[k] = 0
      BY <1>4, <2>3 DEF SyncPods
    <3> QED BY <1>0, <2>2, <3>1 DEF OnceFor, InHand, Pending, IPsOf
  <2>4. ASSUME NEW p \in PodsOf(k) PROVE OnceFor(k)'
    <3>1. p \in pods /\ p.key = k /\ adds'[k] = 1
      BY <1>4 DEF SyncPods, PodsOf
    <3>2. Cached(p) \in podCache' /\ k \in names
      BY <1>4, <3>1, PodSighted DEF SyncPods, NamesCoherent
    <3>3. Seen(k)'
      BY <2>2, <3>1, <3>2, PodSighted DEF Seen, CachedPodOf
    <3> QED BY <1>2, <1>3, <2>1, <2>2, <3>1, <3>3
  <2> QED BY <2>3, <2>4
<1>5. ASSUME NEW p \in pods, WatchPodAdd(p) PROVE OnceFor(k)'
  <2>1. UNCHANGED <<pods, names, dirty, waiting, job, macvlanips>>
    BY <1>5 DEF WatchPodAdd, cluster, queue
  <2>2. CASE p.key = k
    <3>1. ~Pending(k) /\ IPsOf(k) = {} /\ adds'[k] = adds[k] + 1
      BY <1>2, <1>5, <2>2 DEF WatchPodAdd, TypeOK
    <3>2. adds'[k] = 1
      BY <1>0, <3>1 DEF Pending
    <3>3. Cached(p) \in podCache' /\ k \in names
      BY <1>5, <2>2, PodSighted DEF WatchPodAdd, NamesCoherent
    <3>4. Seen(k)'
      BY <2>1, <2>2, <3>3, PodSighted DEF Seen, CachedPodOf
    <3> QED BY <1>3, <2>1, <3>1, <3>2, <3>4
  <2>3. CASE p.key # k
    <3>1. adds'[k] = adds[k]
      BY <1>5, <2>3 DEF WatchPodAdd, TypeOK
    <3> QED BY <1>0, <2>1, <3>1 DEF OnceFor, InHand, Pending, IPsOf
  <2> QED BY <2>2, <2>3
<1>6. ASSUME NEW j \in Keys, EnqueuePod(j) PROVE OnceFor(k)'
  <2>1. UNCHANGED <<waiting, job, macvlanips>> /\ dirty' = dirty \cup {j}
    BY <1>6 DEF EnqueuePod, cluster
  <2>2. IF j = k THEN adds[k] > 0 /\ adds'[k] = adds[k] - 1 ELSE adds'[k] = adds[k]
    BY <1>6 DEF EnqueuePod, TypeOK
  <2>3. CASE j = k
    <3>1. adds'[k] = 0 /\ Pending(k)
      BY <1>0, <2>2, <2>3 DEF OnceFor, Pending
    <3> QED BY <1>0, <2>1, <2>2, <2>3, <3>1 DEF OnceFor, InHand, Pending, IPsOf
  <2>4. CASE j # k
    BY <1>0, <2>1, <2>2, <2>4 DEF OnceFor, InHand, Pending, IPsOf
  <2> QED BY <2>3, <2>4
<1>7. ASSUME NEW j \in Keys, BackoffOver(j) PROVE OnceFor(k)'
  BY <1>0, <1>7 DEF BackoffOver, informer, cluster, OnceFor, InHand, Pending, IPsOf
<1>8. ASSUME NEW j \in Keys, ProcessNextWorkItem(j) PROVE OnceFor(k)'
  <2>1. /\ UNCHANGED <<adds, waiting, macvlanips>>
        /\ j \in dirty /\ dirty' = dirty \ {j} /\ job = Idle
        /\ job' = Idle \/ job'.pod.key = j
    BY <1>8 DEF ProcessNextWorkItem, ReturnNil, Continue, CachedPodOf, informer, cluster
  <2> QED BY <1>0, <2>1 DEF OnceFor, InHand, Pending, IPsOf
<1>9. CASE DoAddMacvlanIP
  <2>1. job # Idle
    BY <1>9, WorkerJob
  <2>2. CASE /\ job' = Idle \/ (job' # Idle /\ job'.pod = job.pod)
             /\ UNCHANGED <<adds, dirty, waiting, macvlanips>>
    BY <1>0, <2>1, <2>2 DEF OnceFor, InHand, Pending, IPsOf
  <2>3. CASE /\ job' = Idle /\ waiting' = waiting \cup {job.pod.key}
             /\ UNCHANGED <<adds, dirty, macvlanips>>
    BY <1>0, <2>1, <2>3 DEF OnceFor, InHand, Pending, IPsOf
  <2>4. CASE /\ job' = Idle /\ macvlanips' = macvlanips \cup {MakeMacvlanIP}
             /\ UNCHANGED <<adds, dirty, waiting>>
    BY <1>0, <2>1, <2>4 DEF OnceFor, InHand, Pending, IPsOf, MakeMacvlanIP
  <2> QED BY <1>9, <2>2, <2>3, <2>4, DoAddEffect
<1>10. CASE ~DoAddMacvlanIP
  <2>1. \/ SyncPods
        \/ \E p \in pods : WatchPodAdd(p)
        \/ \E j \in Keys : EnqueuePod(j) \/ BackoffOver(j) \/ ProcessNextWorkItem(j)
        \/ UNCHANGED <<adds, dirty, waiting, job>> /\ macvlanips' \subseteq macvlanips
    BY <1>10 DEF OneLife, Occurs, Next, vars, Users, CreateSubnet, CreatePod,
       DeletePod, CollectGarbage, Informers, SyncMacvlanIPs, WatchPodDelete,
       RelistPod, WatchMacvlanIP, OnMacvlanSubnetAdd, Purge, PurgeList, PurgeCheck,
       PurgeDelete, Restart, cluster, informer, queue
  <2> QED BY <1>1, <1>4, <1>5, <1>6, <1>7, <1>8, <2>1
<1> QED BY <1>9, <1>10

\* The label is there when the MacvlanIP is made, and no other pod has the name.
LEMMA NextWritten ==
    ASSUME TypeOK, OneLife, WrittenInv, [Next]_vars
    PROVE  LabelWritten'
<1> SUFFICES ASSUME job'.pc = "create", NEW p \in pods', p.key = job'.pod.key
             PROVE  p.selected = job'.ip
  BY DEF LabelWritten, PodsOf
<1> USE DEF WrittenInv
<1>1. CASE UpdatePod /\ UpdateApplied
  BY <1>1, AppliedPods DEF LabelInv, PodPerName
<1>2. CASE UNCHANGED job /\ ~(UpdatePod /\ UpdateApplied)
  <2>1. job # Idle /\ job.pod.key \in names
    BY <1>2 DEF Idle, LifeInv, SeenFirst, Seen
  <2>2. p \in pods
    <3>1. ASSUME NEW k \in Keys, NEW ann \in Annotations, CreatePod(k, ann)
          PROVE  p \in pods
      <4>1. k # p.key
        BY <1>2, <2>1, <3>1, NewSighting
      <4> QED BY <3>1, <4>1 DEF CreatePod
    <3> QED BY <1>2, <3>1, PodSteps
  <2> QED BY <1>2, <2>2 DEF LabelWritten, PodsOf
<1>3. CASE DoAddMacvlanIP /\ ~(UpdatePod /\ UpdateApplied)
  <2>0. job' # Idle /\ job \in Job
    BY <1>3, WorkerJob DEF Idle
  <2>1. CASE GetSubnet
    BY <2>0, <2>1, ReturnResets DEF GetSubnet, Dispatch, Continue, Job
  <2>2. CASE ListPods
    <3>1. PICK i : TakePlace(i)
      BY <2>0, <2>2, ReturnResets DEF ListPods
    <3> QED BY <2>0, <3>1 DEF TakePlace, Continue, Job
  <2>3. CASE ListMacvlanIPs
    <3>1. PICK used : Allocate(used)
      BY <2>3 DEF ListMacvlanIPs
    <3> QED BY <2>0, <3>1, ReturnResets DEF Allocate, Continue, Job
  <2>4. CASE GetPod
    BY <2>0, <2>4, ReturnResets DEF GetPod, Continue, Job
  <2>5. CASE UpdatePod
    <3>1. job' = [job EXCEPT !.pc = "getPod", !.tries = job.tries + 1]
      BY <1>3, <2>0, <2>5, ReturnResets DEF UpdatePod, Conflict, Continue
    <3> QED BY <2>0, <3>1 DEF Job
  <2>6. CASE CreateMacvlanIP
    BY <2>0, <2>6, ReturnResets DEF CreateMacvlanIP, SyncAndReturn
  <2> QED BY <1>3, <2>1, <2>2, <2>3, <2>4, <2>5, <2>6 DEF DoAddMacvlanIP
<1>4. CASE ~DoAddMacvlanIP
  BY <1>2, <1>4, OtherJob DEF Idle, DoAddMacvlanIP
<1> QED BY <1>1, <1>3, <1>4

LEMMA NextMatches ==
    ASSUME TypeOK, OneLife, WrittenInv, [Next]_vars
    PROVE  LabelMatchesIP'
<1> SUFFICES ASSUME NEW m \in macvlanips', NEW p \in pods', m.uid = p.uid
             PROVE  p.selected = m.ip
  BY DEF LabelMatchesIP
<1> USE DEF WrittenInv, LifeInv
<1>1. CASE m \in macvlanips
  <2>1. CASE p \in pods
    BY <1>1, <2>1 DEF LabelMatchesIP
  <2>2. CASE UpdatePod /\ UpdateApplied /\ p \notin pods
    <3>1. job # Idle /\ job.pod.key \in Keys
      BY <2>2, WorkerJob, JobAnnotation DEF DoAddMacvlanIP
    <3>2. PICK r \in pods : r.key = job.pod.key /\ p.uid = r.uid
      BY <2>2, AppliedPods DEF LabelInv
    <3>3. m.key = job.pod.key
      BY <1>1, <3>2, PodSighted DEF NamesCoherent
    <3>4. IPsOf(job.pod.key) = {}
      BY <3>1 DEF OnceFor, Pending
    <3> QED BY <1>1, <3>3, <3>4 DEF IPsOf
  <2>3. ASSUME NEW k \in Keys, NEW ann \in Annotations, CreatePod(k, ann), p \notin pods
        PROVE  FALSE
    <3>1. p.uid = nextUid
      BY <2>3 DEF CreatePod
    <3>2. m.uid < nextUid /\ m.uid \in Nat /\ nextUid \in Nat
      BY <1>1 DEF UidsCoherent, TypeOK, MacvlanIP
    <3> QED BY <3>1, <3>2
  <2> QED BY <2>1, <2>2, <2>3, PodSteps
<1>2. CASE m = MakeMacvlanIP /\ job.pc = "create" /\ job # Idle /\ m \notin macvlanips
  <2>1. UNCHANGED pods
    <3>1. CreateMacvlanIP
      BY <1>2 DEF Next, vars, Users, CreateSubnet, CreatePod, DeletePod, CollectGarbage,
         Informers, SyncPods, SyncMacvlanIPs, WatchPodAdd, WatchPodDelete, RelistPod,
         WatchMacvlanIP, EnqueuePod, BackoffOver, OnMacvlanSubnetAdd,
         ProcessNextWorkItem, Purge, PurgeList, PurgeCheck, PurgeDelete, Restart,
         DoAddMacvlanIP, GetSubnet, ListPods, ListMacvlanIPs, GetPod, UpdatePod, cluster
    <3> QED BY <3>1 DEF CreateMacvlanIP
  <2>2. m.uid = job.pod.uid /\ m.ip = job.ip /\ job.pod \in Sightings
    BY <1>2 DEF MakeMacvlanIP, Sightings
  <2>3. p \in pods /\ p.key = job.pod.key
    <3>1. p \in pods /\ UidsCoherent
      BY <2>1
    <3>2. Cached(p) \in Sightings /\ Cached(p).uid = p.uid /\ Cached(p).key = p.key
      BY <3>1, PodSighted
    <3>3. job.pod = Cached(p)
      BY <2>2, <3>1, <3>2 DEF UidsCoherent
    <3> QED BY <3>1, <3>2, <3>3
  <2> QED BY <1>2, <2>1, <2>2, <2>3 DEF LabelWritten, PodsOf
<1> QED BY <1>1, <1>2, MacvlanIPSteps

(***************************************************************************)
(* The label of a pod and its MacvlanIP name one address, although each is *)
(* written by a call of its own that may fail and be retried, with other   *)
(* addresses free by then (macvlanip.go:86-114).  Needed are: no name is   *)
(* used again, no restart, and no create that takes effect but is answered *)
(* with an error.                                                          *)
(***************************************************************************)
THEOREM LabelsTell ==
    ASSUME OneLife, "createLost" \notin Events
    PROVE  Spec => []LabelMatchesIP
<1>1. TypeOK /\ WrittenInv /\ [Next]_vars => WrittenInv'
  BY LabelInvStays, LifeInvStays, NextNothingCached, NextOnce, NextWritten, NextMatches
  DEF WrittenInv
<1>2. WrittenInv => LabelMatchesIP
  BY DEF WrittenInv
<1> QED BY <1>1, <1>2, InitWritten, TypeCorrect, PTL DEF Spec

=============================================================================
