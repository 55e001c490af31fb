--------------------------- MODULE ProcessProofs ---------------------------
(***************************************************************************)
(* Theorems about Process, for any keys, workers, namespaces and numbers   *)
(* of failures: workers run over filled stores only, and no namespace is   *)
(* without its definition unnoticed.                                       *)
(***************************************************************************)
EXTENDS Process, FiniteSetTheorems, SequencesExt, TLAPS

-----------------------------------------------------------------------------
(* Process drives the namespace handlers by their own actions only.        *)

NSStep ==
  \/ NS!Users
  \/ NS!List
  \/ NS!WatchBreaks
  \/ NS!Handlers
  \/ NS!Forgotten
  \/ UNCHANGED nsHandlers

\* The actions that leave the handlers alone.
LEMMA Elsewhere ==
  ASSUME \/ SetupSignalHandler \/ FirstSignal
         \/ NewController \/ StartKube \/ StartMacvlan \/ WaitForCacheSync
         \/ LaunchWorkers \/ Stopping \/ DeferredShutDown
         \/ Restart
         \/ ListKube \/ ListMacvlanIPs \/ ListMacvlanSubnets
         \/ EnqueuePod
         \/ \E w \in Workers : Work(w)
  PROVE  UNCHANGED nsHandlers
BY DEF SetupSignalHandler, FirstSignal, NewController, StartKube, StartMacvlan,
       WaitForCacheSync, LaunchWorkers, Stopping, DeferredShutDown, Restart,
       ListKube, ListMacvlanIPs, ListMacvlanSubnets, EnqueuePod, Work, WorkerStarts,
       WorkerTakes, WorkerReleases, WorkerEnds, components

LEMMA NSSteps ==
  ASSUME [Next]_vars
  PROVE  NSStep
<1>1. CASE Main
  <2>1. CASE BuildConfig \/ BuildClients \/ NewForConfig \/ MainEnds
    BY <2>1 DEF BuildConfig, BuildClients, NewForConfig, MainEnds, Fatal, Exit,
                components, NSStep
  <2> QED BY <1>1, <2>1, Elsewhere DEF Main, NSStep
<1>2. CASE Signalled \/ SecondSignal \/ Killed
  BY <1>2 DEF Signalled, SecondSignal, Killed, Exit, components, NSStep
<1>3. CASE FirstSignal \/ Restart \/ EnqueuePod \/ \E w \in Workers : Work(w)
  BY <1>3, Elsewhere DEF NSStep
<1>4. CASE Lists
  BY <1>4, Elsewhere DEF Lists, ListNamespaces, NSStep
<1>5. CASE BreakWatch \/ RelistNamespaces \/ HandleNamespace \/ UsersAct
  BY <1>5 DEF BreakWatch, RelistNamespaces, HandleNamespace, UsersAct, NSStep
<1>6. CASE UNCHANGED vars
  BY <1>6 DEF vars, NSStep
<1> QED BY <1>1, <1>2, <1>3, <1>4, <1>5, <1>6 DEF Next

-----------------------------------------------------------------------------
(* The process itself.                                                      *)

LifecycleTypes ==
  /\ main \in Steps \cup Ends
  /\ informer \in [Types -> {"none", "requested", "started", "synced"}]
  /\ stop \in BOOLEAN
  /\ sigs \in 0 .. 2
  /\ handler \in {"none", "first", "second", "ended"}
  /\ launched \in BOOLEAN
  /\ worker \in [Workers -> {"off", "running", "ended"}]

\* From the end of the wait on the stores stay filled, and workers run only
\* once they have been launched, which is after the wait.
LifeInv ==
  /\ launched => AllSynced /\ main \in {"serving", "shutdown", "return"}
  /\ main = "launch" => AllSynced
  /\ \A w \in Workers : worker[w] = "running" => launched

QueueTypes ==
  /\ pending \subseteq Keys
  /\ held \in [Workers -> Keys \cup {NoKey}]
  /\ closed \in BOOLEAN

LEMMA ExitLife ==
  ASSUME NEW e \in Ends, Exit(e)
  PROVE  LifecycleTypes' /\ LifeInv' /\ QueueTypes'
<1>1. e \notin {"serving", "shutdown", "return", "launch"}
  BY DEF Ends
<1>2. LifecycleTypes'
  <2>1. informer' \in [Types -> {"none", "requested", "started", "synced"}]
    BY DEF Exit
  <2>2. worker' \in [Workers -> {"off", "running", "ended"}]
    BY DEF Exit
  <2>3. /\ main' \in Steps \cup Ends
        /\ sigs' \in 0 .. 2
        /\ handler' \in {"none", "first", "second", "ended"}
    BY DEF Exit
  <2>4. stop' \in BOOLEAN /\ launched' \in BOOLEAN
    BY DEF Exit
  <2> QED BY <2>1, <2>2, <2>3, <2>4 DEF LifecycleTypes
<1>3. LifeInv'
  BY <1>1 DEF Exit, LifeInv
<1>4. QueueTypes'
  BY DEF Exit, QueueTypes
<1> QED BY <1>2, <1>3, <1>4

LEMMA FatalLife ==
  ASSUME NEW step, Fatal(step)
  PROVE  LifecycleTypes' /\ LifeInv' /\ QueueTypes'
BY ExitLife DEF Fatal, Ends

LEMMA QueueSteps ==
  ASSUME QueueTypes,
         \/ \E k \in Keys : Q!Accept(k)
         \/ \E w \in Workers, k \in Keys : Q!Take(w, k)
         \/ \E w \in Workers : Q!Release(w)
         \/ Q!Close
         \/ UNCHANGED workQueue
  PROVE  QueueTypes'
BY DEF QueueTypes, Q!Accept, Q!Take, Q!Release, Q!Close, workQueue

\* A step of main that touches no informer and launches nothing.
LEMMA GotoLife ==
  ASSUME LifecycleTypes, LifeInv, NEW from, NEW to \in Steps, Goto(from, to),
         from \in Steps,
         to = "launch" => AllSynced,
         from = "serving" => to = "shutdown",
         from = "shutdown" => to = "return",
         from # "return",
         UNCHANGED <<informer, stop, sigs, launched, worker>>,
         UNCHANGED handler \/ handler' = "first"
  PROVE  LifecycleTypes' /\ LifeInv'
<1>1. LifecycleTypes'
  BY DEF LifecycleTypes, Goto
<1>2. launched' => AllSynced' /\ main' \in {"serving", "shutdown", "return"}
  BY DEF LifeInv, Goto, AllSynced
<1> QED BY <1>1, <1>2 DEF LifeInv, Goto, AllSynced

\* Requesting, starting and filling keep a filled store filled.
LEMMA InformersAdvance ==
  ASSUME LifecycleTypes,
         \/ \E types : informer' = InformerFor(informer, types)
         \/ \E types : informer' = Started(informer, types)
         \/ \E t \in Types : informer[t] = "started"
                             /\ informer' = [informer EXCEPT ![t] = "synced"]
  PROVE  /\ informer' \in [Types -> {"none", "requested", "started", "synced"}]
         /\ AllSynced => AllSynced'
<1>1. Awaited \subseteq Types
  BY DEF Awaited, Types, KubeTypes, MacvlanTypes
<1>2. CASE \E types : informer' = InformerFor(informer, types)
  BY <1>1, <1>2 DEF InformerFor, LifecycleTypes, AllSynced
<1>3. CASE \E types : informer' = Started(informer, types)
  BY <1>1, <1>3 DEF Started, LifecycleTypes, AllSynced
<1>4. CASE \E t \in Types : informer[t] = "started"
                            /\ informer' = [informer EXCEPT ![t] = "synced"]
  BY <1>1, <1>4 DEF LifecycleTypes, AllSynced
<1> QED BY <1>2, <1>3, <1>4

LEMMA MainLife ==
  ASSUME LifecycleTypes, LifeInv, Main
  PROVE  LifecycleTypes' /\ LifeInv'
<1>1. CASE BuildConfig
  BY <1>1, GotoLife, FatalLife DEF BuildConfig, Steps
<1>2. CASE SetupSignalHandler
  BY <1>2, GotoLife DEF SetupSignalHandler, Steps
<1>3. CASE BuildClients
  BY <1>3, GotoLife, FatalLife DEF BuildClients, Steps
<1>4. CASE NewForConfig
  BY <1>4, GotoLife, FatalLife DEF NewForConfig, Steps
<1>5. CASE NewController \/ StartKube \/ StartMacvlan
  <2>1. /\ main \in {"controller", "startKube", "startMacvlan"}
        /\ main' \in {"startKube", "startMacvlan", "wait"}
        /\ UNCHANGED <<stop, sigs, handler, launched, worker>>
    BY <1>5 DEF NewController, StartKube, StartMacvlan, Goto
  <2>2. informer' \in [Types -> {"none", "requested", "started", "synced"}]
    BY <1>5, InformersAdvance DEF NewController, StartKube, StartMacvlan
  <2>3. LifecycleTypes'
    BY <2>1, <2>2 DEF LifecycleTypes, Steps
  <2>4. LifeInv'
    BY <2>1 DEF LifeInv
  <2> QED BY <2>3, <2>4
<1>6. CASE WaitForCacheSync
  BY <1>6, GotoLife DEF WaitForCacheSync, Steps
<1>7. CASE LaunchWorkers
  <2>1. /\ main = "launch" /\ main' = "serving" /\ launched'
        /\ UNCHANGED <<informer, stop, sigs, handler, worker>>
    BY <1>7 DEF LaunchWorkers, Goto
  <2>2. LifecycleTypes'
    BY <1>7, <2>1 DEF LifecycleTypes, LaunchWorkers, Steps
  <2>3. LifeInv'
    BY <2>1 DEF LifeInv, AllSynced
  <2> QED BY <2>2, <2>3
<1>8. CASE Stopping
  BY <1>8, GotoLife DEF Stopping, Steps
<1>9. CASE DeferredShutDown
  BY <1>9, GotoLife DEF DeferredShutDown, Steps
<1>10. CASE MainEnds
  BY <1>10, ExitLife DEF MainEnds, Ends
<1> QED BY <1>1, <1>2, <1>3, <1>4, <1>5, <1>6, <1>7, <1>8, <1>9, <1>10 DEF Main

LEMMA SignalLife ==
  ASSUME LifecycleTypes, LifeInv,
         Signalled \/ FirstSignal \/ SecondSignal \/ Killed \/ Restart
  PROVE  LifecycleTypes' /\ LifeInv'
<1>1. CASE Exit("killed") \/ Exit("exit1")
  BY <1>1, ExitLife DEF Ends
<1>2. CASE FirstSignal \/ (Signalled /\ ~Exit("killed"))
  <2>1. CASE FirstSignal
    <3>1. sigs' = sigs - 1 /\ sigs > 0
      BY <2>1 DEF FirstSignal
    <3>2. sigs' \in 0 .. 2
      BY <3>1 DEF LifecycleTypes
    <3>3. stop' \in BOOLEAN /\ handler' = "second"
      BY <2>1 DEF FirstSignal
    <3>4. UNCHANGED <<main, informer, launched, worker>>
      BY <2>1 DEF FirstSignal
    <3>5. LifecycleTypes'
      BY <3>2, <3>3, <3>4 DEF LifecycleTypes
    <3> QED BY <3>4, <3>5 DEF LifeInv, AllSynced
  <2>2. CASE Signalled /\ ~Exit("killed")
    <3>1. sigs' = sigs + 1 /\ sigs < 2
      BY <2>2 DEF Signalled
    <3>2. sigs' \in 0 .. 2
      BY <3>1 DEF LifecycleTypes
    <3>3. UNCHANGED <<main, informer, stop, handler, launched, worker>>
      BY <2>2 DEF Signalled
    <3>4. LifecycleTypes'
      BY <3>2, <3>3 DEF LifecycleTypes
    <3> QED BY <3>3, <3>4 DEF LifeInv, AllSynced
  <2> QED BY <1>2, <2>1, <2>2
<1>3. CASE Restart
  <2>1. /\ main \notin Steps /\ main' = "config"
        /\ UNCHANGED <<informer, stop, sigs, handler, launched, worker>>
    BY <1>3 DEF Restart, Alive
  <2>2. LifecycleTypes'
    BY <2>1 DEF LifecycleTypes, Steps
  <2>3. LifeInv'
    BY <2>1 DEF LifeInv, Steps
  <2> QED BY <2>2, <2>3
<1> QED BY <1>1, <1>2, <1>3 DEF SecondSignal, Killed

LEMMA ListsLife ==
  ASSUME LifecycleTypes, LifeInv, Lists
  PROVE  LifecycleTypes' /\ LifeInv'
<1>1. PICK t \in Types : Synced(t)
  BY DEF Lists, ListKube, ListNamespaces, ListMacvlanIPs, ListMacvlanSubnets,
         Types, KubeTypes, MacvlanTypes
<1>2. /\ informer[t] = "started"
      /\ informer' = [informer EXCEPT ![t] = "synced"]
      /\ UNCHANGED <<main, stop, sigs, handler, launched, worker>>
  BY <1>1 DEF Synced
<1>3. /\ informer' \in [Types -> {"none", "requested", "started", "synced"}]
      /\ AllSynced => AllSynced'
  BY <1>2, InformersAdvance
<1>4. LifecycleTypes'
  BY <1>2, <1>3 DEF LifecycleTypes
<1>5. LifeInv'
  BY <1>2, <1>3 DEF LifeInv
<1> QED BY <1>4, <1>5

LEMMA WorkLife ==
  ASSUME LifecycleTypes, LifeInv, NEW w \in Workers, Work(w)
  PROVE  LifecycleTypes' /\ LifeInv'
<1>1. /\ UNCHANGED <<main, informer, stop, sigs, handler, launched>>
      /\ \/ UNCHANGED worker
         \/ worker' = [worker EXCEPT ![w] = "ended"]
         \/ launched /\ worker' = [worker EXCEPT ![w] = "running"]
  BY DEF Work, WorkerStarts, WorkerTakes, WorkerReleases, WorkerEnds, lifecycle
<1>2. LifecycleTypes'
  BY <1>1 DEF LifecycleTypes
<1>3. LifeInv'
  BY <1>1 DEF LifeInv, LifecycleTypes, AllSynced
<1> QED BY <1>2, <1>3

\* What is left of a step when the process is not concerned.
LEMMA LifeStep ==
  ASSUME LifecycleTypes, LifeInv, [Next]_vars
  PROVE  LifecycleTypes' /\ LifeInv'
<1>1. CASE UNCHANGED lifecycle
  BY <1>1 DEF lifecycle, LifecycleTypes, LifeInv, AllSynced
<1>2. CASE EnqueuePod \/ BreakWatch \/ RelistNamespaces \/ HandleNamespace \/ UsersAct
  BY <1>1, <1>2 DEF EnqueuePod, BreakWatch, RelistNamespaces, HandleNamespace, UsersAct
<1>3. CASE UNCHANGED vars
  BY <1>1, <1>3 DEF vars
<1> QED BY <1>2, <1>3, MainLife, SignalLife, ListsLife, WorkLife DEF Next

LEMMA QueueStep ==
  ASSUME QueueTypes, [Next]_vars
  PROVE  QueueTypes'
<1>1. CASE UNCHANGED workQueue
  BY <1>1, QueueSteps
<1>2. CASE Main
  <2>1. CASE BuildConfig \/ BuildClients \/ NewForConfig
    BY <2>1, <1>1, FatalLife
       DEF BuildConfig, BuildClients, NewForConfig, components
  <2>2. CASE \/ SetupSignalHandler \/ NewController \/ StartKube \/ StartMacvlan
             \/ WaitForCacheSync \/ LaunchWorkers \/ Stopping
    BY <2>2, <1>1
       DEF SetupSignalHandler, NewController, StartKube, StartMacvlan,
           WaitForCacheSync, LaunchWorkers, Stopping, components
  <2>3. CASE DeferredShutDown
    BY <2>3, QueueSteps DEF DeferredShutDown
  <2>4. CASE MainEnds
    BY <2>4, ExitLife DEF MainEnds, Ends
  <2> QED BY <1>2, <2>1, <2>2, <2>3, <2>4 DEF Main
<1>3. CASE Signalled \/ FirstSignal \/ SecondSignal \/ Killed \/ Restart
  <2>1. CASE Exit("killed") \/ Exit("exit1")
    BY <2>1, ExitLife DEF Ends
  <2> QED BY <1>1, <1>3, <2>1
          DEF Signalled, FirstSignal, SecondSignal, Killed, Restart, components
<1>4. CASE Lists \/ BreakWatch \/ RelistNamespaces \/ HandleNamespace \/ UsersAct
  BY <1>4, <1>1
     DEF Lists, ListKube, ListNamespaces, ListMacvlanIPs, ListMacvlanSubnets, Synced,
         BreakWatch, RelistNamespaces, HandleNamespace, UsersAct
<1>5. CASE EnqueuePod
  BY <1>5, QueueSteps DEF EnqueuePod
<1>6. ASSUME NEW w \in Workers, Work(w) PROVE QueueTypes'
  BY <1>1, <1>6, QueueSteps
     DEF Work, WorkerStarts, WorkerTakes, WorkerReleases, WorkerEnds, components
<1>7. CASE UNCHANGED vars
  BY <1>7, <1>1 DEF vars
<1> QED BY <1>2, <1>3, <1>4, <1>5, <1>6, <1>7 DEF Next

LEMMA InitLife ==
  ASSUME Init
  PROVE  LifecycleTypes /\ LifeInv
<1>1. informer \in [Types -> {"none", "requested", "started", "synced"}]
  BY DEF Init
<1>2. worker \in [Workers -> {"off", "running", "ended"}]
  BY DEF Init
<1>3. main \in Steps \cup Ends /\ sigs \in 0 .. 2
  BY DEF Init, Steps
<1>4. stop = FALSE /\ launched = FALSE /\ handler = "none"
  BY DEF Init
<1>5. LifecycleTypes
  BY <1>1, <1>2, <1>3, <1>4 DEF LifecycleTypes
<1>6. LifeInv
  BY DEF Init, LifeInv
<1> QED BY <1>5, <1>6

\* A worker runs only over filled stores: whatever order informers, main,
\* signals and restarts take, no pod is looked up in a store that was never
\* listed (controller.go:135-147).
THEOREM WorkersWait == Spec => []WorkersSeeSyncedStores
<1>1. Init => LifecycleTypes /\ LifeInv
  BY InitLife
<1>2. LifecycleTypes /\ LifeInv /\ [Next]_vars => (LifecycleTypes /\ LifeInv)'
  BY LifeStep
<1>3. LifeInv => WorkersSeeSyncedStores
  BY DEF LifeInv, WorkersSeeSyncedStores
<1> QED BY <1>1, <1>2, <1>3, PTL DEF Spec

-----------------------------------------------------------------------------
(* The namespaces.                                                          *)

\* No note about a namespace that is there and known takes its definition
\* without one after it that gives it back.
DeletesAnswered ==
  \A n \in namespaces \cap store : \A i \in DOMAIN notes :
    notes[i] = NS!note("Deleted", n) =>
      \E j \in DOMAIN notes : i < j /\ notes[j] = NS!note("Added", n)

\* MissingIsPending, for a watch that is down as well.
KnownIsPending ==
  \A n \in namespaces \cap store : n \in defs \/ NS!Announced(n) \/ n \in failed

NSInv ==
  /\ listed => store = namespaces
  /\ DeletesAnswered
  /\ KnownIsPending

LEMMA NoteFacts ==
  ASSUME NEW n \in Namespace, NEW m \in Namespace,
         NEW s \in {"Added", "Deleted", "Tombstone"},
         NEW t \in {"Added", "Deleted", "Tombstone"}
  PROVE  /\ NS!note(t, n) \in NS!Note
         /\ NS!note(t, n) = NS!note(s, m) <=> t = s /\ n = m
BY DEF NS!note, NS!Note

\* The sequence of a finite set has its elements and no others.
LEMMA SetToSeqFacts ==
  ASSUME NEW S, IsFiniteSet(S)
  PROVE  /\ NS!SetToSeq(S) \in Seq(S)
         /\ \A x \in S : \E i \in DOMAIN NS!SetToSeq(S) : NS!SetToSeq(S)[i] = x
<1> DEFINE c == Cardinality(S)
           s == NS!SetToSeq(S)
<1>1. c \in Nat /\ ExistsBijection(1 .. c, S)
  BY FS_CardinalityType
<1>2. PICK f \in Bijection(1 .. c, S) : TRUE
  BY <1>1 DEF ExistsBijection
<1>3. f \in [1 .. c -> S] /\ NS!IsInjective(f)
  BY <1>2 DEF Bijection, Injection, IsInjective, NS!IsInjective
<1> HIDE DEF c
<1>4. NS!Cardinality(S) = c
  BY DEF c, Cardinality, NS!Cardinality
<1>5. s \in [1 .. c -> S] /\ NS!IsInjective(s)
  BY <1>3, <1>4 DEF NS!SetToSeq
<1> HIDE DEF s
<1>6. s \in Injection(1 .. c, S)
  BY <1>5 DEF Injection, IsInjective, NS!IsInjective
<1>7. IsFiniteSet(1 .. c) /\ Cardinality(1 .. c) = c
  BY <1>1, FS_Interval
<1>8. s \in Surjection(1 .. c, S)
  BY <1>6, <1>7, FS_Injection DEF c
<1>9. \A x \in S : \E i \in 1 .. c : s[i] = x
  BY <1>8 DEF Surjection
<1>10. s \in Seq(S) /\ DOMAIN s = 1 .. c
  BY <1>1, <1>5
<1> QED BY <1>9, <1>10 DEF s

\* What a list announces.
LEMMA ListFacts ==
  ASSUME namespaces \subseteq Namespace, store \subseteq Namespace,
         notes \in Seq(NS!Note), NS!List
  PROVE  \E s \in Seq(NS!Note) :
           /\ notes' = notes \o s
           /\ \A n \in namespaces \ store :
                \E i \in DOMAIN s : s[i] = NS!note("Added", n)
           /\ \A n \in Namespace : \A i \in DOMAIN s : s[i] # NS!note("Deleted", n)
<1> DEFINE A == namespaces \ store
           B == store \ namespaces
           S == {NS!note("Added", n) : n \in A} \cup {NS!note("Tombstone", n) : n \in B}
           f == [n \in A \cup B |-> IF n \in A THEN NS!note("Added", n)
                                                ELSE NS!note("Tombstone", n)]
<1>1. IsFiniteSet(A \cup B)
  BY ProcessAssumption, FS_Subset, A \cup B \in SUBSET Namespace
<1>2. f \in Surjection(A \cup B, S)
  BY DEF Surjection
<1>3. IsFiniteSet(S)
  BY <1>1, <1>2, FS_Surjection
<1>4. S \subseteq NS!Note
  BY A \subseteq Namespace, B \subseteq Namespace DEF NS!note, NS!Note
<1>5. \A n \in Namespace : NS!note("Deleted", n) \notin S
  BY NoteFacts
<1>6. notes' = notes \o NS!SetToSeq(S)
  BY DEF NS!List
<1> HIDE DEF S
<1>7. /\ NS!SetToSeq(S) \in Seq(S)
      /\ \A x \in S : \E i \in DOMAIN NS!SetToSeq(S) : NS!SetToSeq(S)[i] = x
  BY <1>3, SetToSeqFacts
<1>8. NS!SetToSeq(S) \in Seq(NS!Note)
  BY <1>4, <1>7
<1>9. \A i \in DOMAIN NS!SetToSeq(S) : NS!SetToSeq(S)[i] \in S
  BY <1>7
<1>10. \A n \in A : NS!note("Added", n) \in S
  BY DEF S
<1> QED BY <1>5, <1>6, <1>7, <1>8, <1>9, <1>10

LEMMA NSTypes ==
  ASSUME NS!TypeOK, NSStep
  PROVE  NS!TypeOK'
<1>1. CASE NS!Users
  <2>1. PICK n \in Namespace :
          NS!CreateNamespace(n) \/ NS!DeleteNamespace(n) \/ NS!CreateDefinition(n)
    BY <1>1 DEF NS!Users
  <2>2. /\ userSteps' \in 0 .. MaxUserSteps
        /\ UNCHANGED <<listed, failed, failures, breaks>>
    BY <1>1, ProcessAssumption DEF NS!Users, NS!TypeOK
  <2>3. NS!note("Added", n) \in NS!Note /\ NS!note("Deleted", n) \in NS!Note
    BY NoteFacts
  <2>4. notes' \in Seq(NS!Note) /\ store' \subseteq Namespace
    BY <2>1, <2>3
       DEF NS!CreateNamespace, NS!DeleteNamespace, NS!CreateDefinition, NS!Watched, NS!TypeOK
  <2>5. namespaces' \subseteq Namespace /\ defs' \subseteq Namespace
    BY <2>1 DEF NS!CreateNamespace, NS!DeleteNamespace, NS!CreateDefinition, NS!TypeOK
  <2> QED BY <2>2, <2>4, <2>5 DEF NS!TypeOK
<1>2. CASE NS!List
  <2>1. namespaces \subseteq Namespace /\ store \subseteq Namespace /\ notes \in Seq(NS!Note)
    BY DEF NS!TypeOK
  <2>2. PICK s \in Seq(NS!Note) : notes' = notes \o s
    BY <1>2, <2>1, ListFacts
  <2>3. notes' \in Seq(NS!Note)
    BY <2>1, <2>2
  <2> QED BY <1>2, <2>3 DEF NS!List, NS!TypeOK, NS!cluster, NS!counters
<1>3. CASE NS!WatchBreaks
  <2>1. breaks' \in 0 .. MaxBreaks
    BY <1>3, ProcessAssumption DEF NS!WatchBreaks, NS!TypeOK
  <2> QED BY <1>3, <2>1 DEF NS!WatchBreaks, NS!TypeOK, NS!cluster
<1>4. CASE NS!Handlers
  <2>1. PICK n \in Namespace :
          NS!OnNamespaceAdd(n) \/ NS!OnNamespaceDelete(n) \/ NS!IgnoreTombstone(n)
    BY <1>4 DEF NS!Handlers
  <2>2. notes' \in Seq(NS!Note) /\ UNCHANGED <<namespaces, store, listed, userSteps, breaks>>
    BY <2>1 DEF NS!OnNamespaceAdd, NS!OnNamespaceDelete, NS!IgnoreTombstone,
                NS!Handling, NS!TypeOK
  <2>3. defs' \subseteq Namespace /\ failed' \subseteq Namespace
    BY <2>1 DEF NS!OnNamespaceAdd, NS!OnNamespaceDelete, NS!IgnoreTombstone, NS!TypeOK
  <2>4. UNCHANGED failures \/ NS!Fails
    BY <2>1 DEF NS!OnNamespaceAdd, NS!OnNamespaceDelete, NS!IgnoreTombstone
  <2>5. failures' \in 0 .. MaxFailures
    BY <2>4, ProcessAssumption DEF NS!Fails, NS!TypeOK
  <2> QED BY <2>2, <2>3, <2>5 DEF NS!TypeOK
<1>5. CASE NS!Forgotten
  <2>1. notes' \in Seq(NS!Note)
    BY <1>5 DEF NS!Forgotten
  <2>2. listed' \in BOOLEAN
    BY <1>5 DEF NS!Forgotten
  <2> QED BY <1>5, <2>1, <2>2 DEF NS!Forgotten, NS!TypeOK, NS!cluster, NS!counters
<1>6. CASE UNCHANGED nsHandlers
  BY <1>6 DEF nsHandlers, NS!TypeOK
<1> QED BY <1>1, <1>2, <1>3, <1>4, <1>5, <1>6 DEF NSStep

\* New notes after the old ones, none of them a Deleted of a namespace that is
\* there: what was pending or answered stays so.
LEMMA NotesGrow ==
  ASSUME NS!TypeOK, NEW s \in Seq(NS!Note), notes' = notes \o s,
         NEW n \in Namespace,
         \A i \in DOMAIN s : s[i] # NS!note("Deleted", n)
  PROVE  /\ NS!Announced(n) => NS!Announced(n)'
         /\ (\E i \in DOMAIN s : s[i] = NS!note("Added", n)) =>
              /\ NS!Announced(n)'
              /\ \A i \in DOMAIN notes' : notes'[i] = NS!note("Deleted", n) =>
                   \E j \in DOMAIN notes' : i < j /\ notes'[j] = NS!note("Added", n)
         /\ (\A i \in DOMAIN notes : notes[i] = NS!note("Deleted", n) =>
               \E j \in DOMAIN notes : i < j /\ notes[j] = NS!note("Added", n)) =>
            (\A i \in DOMAIN notes' : notes'[i] = NS!note("Deleted", n) =>
               \E j \in DOMAIN notes' : i < j /\ notes'[j] = NS!note("Added", n))
<1> DEFINE l == Len(notes)
           k == Len(s)
<1>1. /\ l \in Nat /\ k \in Nat
      /\ DOMAIN notes = 1 .. l
      /\ DOMAIN s = 1 .. k
      /\ DOMAIN notes' = 1 .. l + k
      /\ \A i \in 1 .. l : notes'[i] = notes[i]
      /\ \A i \in 1 .. k : notes'[l + i] = s[i]
  BY DEF NS!TypeOK
<1> HIDE DEF l, k
<1>2. \A i \in DOMAIN notes' : notes'[i] = NS!note("Deleted", n) => i \in DOMAIN notes
  <2> SUFFICES ASSUME NEW i \in l + 1 .. l + k, notes'[i] = NS!note("Deleted", n)
               PROVE  FALSE
    BY <1>1
  <2>1. i - l \in DOMAIN s /\ notes'[i] = s[i - l]
    BY <1>1
  <2> QED BY <2>1
<1>3. NS!Announced(n) => NS!Announced(n)'
  BY <1>1 DEF NS!Announced, NS!note
<1>4. ASSUME NEW m \in DOMAIN s, s[m] = NS!note("Added", n)
      PROVE  /\ NS!Announced(n)'
             /\ \A i \in DOMAIN notes' : notes'[i] = NS!note("Deleted", n) =>
                  \E j \in DOMAIN notes' : i < j /\ notes'[j] = NS!note("Added", n)
  <2>1. l + m \in DOMAIN notes' /\ notes'[l + m] = NS!note("Added", n)
    BY <1>1, <1>4
  <2>2. \A i \in DOMAIN notes : i < l + m
    BY <1>1
  <2>3. NS!Announced(n)'
    BY <2>1 DEF NS!Announced, NS!note
  <2> QED BY <1>2, <2>1, <2>2, <2>3
<1>5. (\A i \in DOMAIN notes : notes[i] = NS!note("Deleted", n) =>
         \E j \in DOMAIN notes : i < j /\ notes[j] = NS!note("Added", n)) =>
      (\A i \in DOMAIN notes' : notes'[i] = NS!note("Deleted", n) =>
         \E j \in DOMAIN notes' : i < j /\ notes'[j] = NS!note("Added", n))
  BY <1>1, <1>2
<1> QED BY <1>3, <1>4, <1>5

\* The first note is handled: what comes after another note stays.
LEMMA NotesShrink ==
  ASSUME NS!TypeOK, notes # <<>>, notes' = Tail(notes), NEW n \in Namespace
  PROVE  /\ NS!Announced(n) /\ Head(notes) # NS!note("Added", n) => NS!Announced(n)'
         /\ (\A i \in DOMAIN notes : notes[i] = NS!note("Deleted", n) =>
               \E j \in DOMAIN notes : i < j /\ notes[j] = NS!note("Added", n)) =>
            /\ Head(notes) = NS!note("Deleted", n) => NS!Announced(n)'
            /\ \A i \in DOMAIN notes' : notes'[i] = NS!note("Deleted", n) =>
                 \E j \in DOMAIN notes' : i < j /\ notes'[j] = NS!note("Added", n)
<1> DEFINE l == Len(notes)
<1>1. /\ l \in Nat \ {0}
      /\ DOMAIN notes = 1 .. l
      /\ DOMAIN notes' = 1 .. l - 1
      /\ \A i \in 1 .. l - 1 : notes'[i] = notes[i + 1]
      /\ Head(notes) = notes[1]
  BY DEF NS!TypeOK
<1> HIDE DEF l
<1>2. \A j \in 2 .. l : j - 1 \in DOMAIN notes' /\ notes'[j - 1] = notes[j]
  BY <1>1
<1>3. ASSUME NEW j \in 2 .. l, notes[j] = NS!note("Added", n)
      PROVE  NS!Announced(n)'
  BY <1>2, <1>3 DEF NS!Announced, NS!note
<1>4. NS!Announced(n) /\ Head(notes) # NS!note("Added", n) => NS!Announced(n)'
  BY <1>1, <1>3 DEF NS!Announced
<1>5. ASSUME \A i \in DOMAIN notes : notes[i] = NS!note("Deleted", n) =>
               \E j \in DOMAIN notes : i < j /\ notes[j] = NS!note("Added", n)
      PROVE  /\ Head(notes) = NS!note("Deleted", n) => NS!Announced(n)'
             /\ \A i \in DOMAIN notes' : notes'[i] = NS!note("Deleted", n) =>
                  \E j \in DOMAIN notes' : i < j /\ notes'[j] = NS!note("Added", n)
  <2>1. Head(notes) = NS!note("Deleted", n) => NS!Announced(n)'
    BY <1>1, <1>3, <1>5
  <2>2. ASSUME NEW i \in DOMAIN notes', notes'[i] = NS!note("Deleted", n)
        PROVE  \E j \in DOMAIN notes' : i < j /\ notes'[j] = NS!note("Added", n)
    <3>1. i + 1 \in DOMAIN notes /\ notes[i + 1] = NS!note("Deleted", n)
      BY <1>1, <2>2
    <3>2. PICK j \in DOMAIN notes : i + 1 < j /\ notes[j] = NS!note("Added", n)
      BY <1>5, <3>1
    <3>3. j \in 2 .. l /\ i \in Nat /\ i < j - 1
      BY <1>1, <3>2
    <3> QED BY <1>2, <3>2, <3>3
  <2> QED BY <2>1, <2>2
<1> QED BY <1>4, <1>5

LEMMA UsersPending ==
  ASSUME HiddenChanges = FALSE, NS!TypeOK, NSInv, NS!Users
  PROVE  NSInv'
<1>1. PICK x \in Namespace :
        NS!CreateNamespace(x) \/ NS!DeleteNamespace(x) \/ NS!CreateDefinition(x)
  BY DEF NS!Users
<1>2. UNCHANGED <<listed, failed>>
  BY DEF NS!Users
<1>3. namespaces \subseteq Namespace /\ notes \in Seq(NS!Note)
  BY DEF NS!TypeOK
<1>4. CASE NS!CreateDefinition(x)
  BY <1>2, <1>4 DEF NS!CreateDefinition, NSInv, DeletesAnswered, KnownIsPending,
                    NS!Announced, NS!note
<1>5. CASE ~listed /\ (NS!CreateNamespace(x) \/ NS!DeleteNamespace(x))
  <2>1. UNCHANGED <<notes, store>>
    BY <1>5 DEF NS!CreateNamespace, NS!DeleteNamespace, NS!Watched
  <2>2. /\ namespaces' \cap store' \subseteq namespaces \cap store
        /\ \A n \in namespaces' \cap store' : n \in defs => n \in defs'
    BY <1>5, <2>1 DEF NS!CreateNamespace, NS!DeleteNamespace
  <2> QED BY <1>2, <1>5, <2>1, <2>2
          DEF NSInv, DeletesAnswered, KnownIsPending, NS!Announced, NS!note
<1>6. CASE listed /\ NS!CreateNamespace(x)
  <2> DEFINE s == <<NS!note("Added", x)>>
  <2>1. /\ s \in Seq(NS!Note)
        /\ notes' = notes \o s
        /\ DOMAIN s = {1}
        /\ s[1] = NS!note("Added", x)
    BY <1>3, <1>6, NoteFacts DEF NS!CreateNamespace, NS!Watched
  <2>2. /\ store' = store \cup {x}
        /\ namespaces' = namespaces \cup {x}
        /\ UNCHANGED defs
    BY <1>6 DEF NS!CreateNamespace, NS!Watched
  <2> HIDE DEF s
  <2>3. \A n \in Namespace : \A i \in DOMAIN s : s[i] # NS!note("Deleted", n)
    BY <2>1, NoteFacts
  <2>4. store' = namespaces'
    BY <1>6, <2>2 DEF NSInv
  <2>5. ASSUME NEW n \in namespaces' \cap store'
        PROVE  /\ n \in defs' \/ NS!Announced(n)' \/ n \in failed'
               /\ \A i \in DOMAIN notes' : notes'[i] = NS!note("Deleted", n) =>
                    \E j \in DOMAIN notes' : i < j /\ notes'[j] = NS!note("Added", n)
    <3>1. n \in Namespace
      BY <1>3, <2>2
    <3>2. CASE n = x
      BY <2>1, <2>3, <3>1, <3>2, NotesGrow
    <3>3. CASE n # x
      <4>1. n \in namespaces \cap store
        BY <1>6, <2>2, <3>3 DEF NSInv
      <4> QED BY <1>2, <2>1, <2>2, <2>3, <3>1, <4>1, NotesGrow
              DEF NSInv, DeletesAnswered, KnownIsPending
    <3> QED BY <3>2, <3>3
  <2> QED BY <2>4, <2>5 DEF NSInv, DeletesAnswered, KnownIsPending, NS!Announced, NS!note
<1>7. CASE listed /\ NS!DeleteNamespace(x)
  <2> DEFINE s == <<NS!note("Deleted", x)>>
  <2>1. /\ s \in Seq(NS!Note)
        /\ notes' = notes \o s
        /\ DOMAIN s = {1}
        /\ s[1] = NS!note("Deleted", x)
    BY <1>3, <1>7, NoteFacts DEF NS!DeleteNamespace, NS!Watched
  <2>2. /\ store' = store \ {x}
        /\ namespaces' = namespaces \ {x}
        /\ defs' = defs \ {x}
    BY <1>7 DEF NS!DeleteNamespace, NS!Watched
  <2> HIDE DEF s
  <2>3. store' = namespaces'
    BY <1>7, <2>2 DEF NSInv
  <2>4. ASSUME NEW n \in namespaces' \cap store'
        PROVE  /\ n \in defs' \/ NS!Announced(n)' \/ n \in failed'
               /\ \A i \in DOMAIN notes' : notes'[i] = NS!note("Deleted", n) =>
                    \E j \in DOMAIN notes' : i < j /\ notes'[j] = NS!note("Added", n)
    <3>1. n \in Namespace /\ n # x /\ n \in namespaces \cap store
      BY <1>3, <2>2
    <3>2. \A i \in DOMAIN s : s[i] # NS!note("Deleted", n)
      BY <2>1, <3>1, NoteFacts
    <3> QED BY <1>2, <2>1, <2>2, <3>1, <3>2, NotesGrow
            DEF NSInv, DeletesAnswered, KnownIsPending
  <2> QED BY <2>3, <2>4 DEF NSInv, DeletesAnswered, KnownIsPending, NS!Announced, NS!note
<1> QED BY <1>1, <1>4, <1>5, <1>6, <1>7

LEMMA ListPending ==
  ASSUME NS!TypeOK, NSInv, NS!List
  PROVE  NSInv'
<1>1. namespaces \subseteq Namespace /\ store \subseteq Namespace /\ notes \in Seq(NS!Note)
  BY DEF NS!TypeOK
<1>2. store' = namespaces /\ UNCHANGED <<namespaces, defs, failed>>
  BY DEF NS!List, NS!cluster
<1>3. PICK s \in Seq(NS!Note) :
        /\ notes' = notes \o s
        /\ \A n \in namespaces \ store : \E i \in DOMAIN s : s[i] = NS!note("Added", n)
        /\ \A n \in Namespace : \A i \in DOMAIN s : s[i] # NS!note("Deleted", n)
  BY <1>1, ListFacts
<1>4. ASSUME NEW n \in namespaces' \cap store'
      PROVE  /\ n \in defs' \/ NS!Announced(n)' \/ n \in failed'
             /\ \A i \in DOMAIN notes' : notes'[i] = NS!note("Deleted", n) =>
                  \E j \in DOMAIN notes' : i < j /\ notes'[j] = NS!note("Added", n)
  <2>1. n \in namespaces /\ n \in Namespace
    BY <1>1, <1>2
  <2>2. CASE n \in store
    BY <1>2, <1>3, <2>1, <2>2, NotesGrow DEF NSInv, DeletesAnswered, KnownIsPending
  <2>3. CASE n \notin store
    BY <1>3, <2>1, <2>3, NotesGrow
  <2> QED BY <2>2, <2>3
<1> QED BY <1>2, <1>4 DEF NSInv, DeletesAnswered, KnownIsPending, NS!Announced, NS!note

LEMMA HandlersPending ==
  ASSUME NS!TypeOK, NSInv, NS!Handlers
  PROVE  NSInv'
<1>1. PICK x \in Namespace :
        NS!OnNamespaceAdd(x) \/ NS!OnNamespaceDelete(x) \/ NS!IgnoreTombstone(x)
  BY DEF NS!Handlers
<1>2. PICK type \in {"Added", "Deleted", "Tombstone"} : NS!Handling(type, x)
  BY <1>1 DEF NS!OnNamespaceAdd, NS!OnNamespaceDelete, NS!IgnoreTombstone
<1>3. /\ notes # <<>> /\ Head(notes) = NS!note(type, x) /\ notes' = Tail(notes)
      /\ UNCHANGED <<namespaces, store, listed>>
  BY <1>2 DEF NS!Handling
<1>4. ASSUME NEW n \in namespaces' \cap store'
      PROVE  /\ n \in defs' \/ NS!Announced(n)' \/ n \in failed'
             /\ \A i \in DOMAIN notes' : notes'[i] = NS!note("Deleted", n) =>
                  \E j \in DOMAIN notes' : i < j /\ notes'[j] = NS!note("Added", n)
  <2>1. n \in namespaces /\ n \in store /\ n \in Namespace
    BY <1>3 DEF NS!TypeOK
  <2>2. \A i \in DOMAIN notes : notes[i] = NS!note("Deleted", n) =>
          \E j \in DOMAIN notes : i < j /\ notes[j] = NS!note("Added", n)
    BY <2>1 DEF NSInv, DeletesAnswered
  <2>3. n \in defs \/ NS!Announced(n) \/ n \in failed
    BY <2>1 DEF NSInv, KnownIsPending
  <2>4. CASE Head(notes) = NS!note("Added", n)
    <3>1. type = "Added" /\ n = x
      BY <1>3, <2>1, <2>4, NoteFacts
    <3>2. NS!OnNamespaceAdd(x)
      BY <1>1, <1>3, <3>1, NoteFacts
         DEF NS!OnNamespaceDelete, NS!IgnoreTombstone, NS!Handling
    <3>3. n \in defs' \/ n \in failed'
      BY <2>1, <3>1, <3>2 DEF NS!OnNamespaceAdd
    <3> QED BY <1>3, <2>1, <2>2, <3>3, NotesShrink
  <2>5. CASE Head(notes) = NS!note("Deleted", n)
    BY <1>3, <2>1, <2>2, <2>5, NotesShrink
  <2>6. CASE Head(notes) # NS!note("Added", n) /\ Head(notes) # NS!note("Deleted", n)
    <3>1. (n \in defs => n \in defs') /\ (n \in failed => n \in failed')
      <4>1. CASE n = x
        <5>1. type = "Tombstone"
          BY <1>3, <2>6, <4>1
        <5>2. NS!IgnoreTombstone(x)
          BY <1>1, <1>3, <5>1, NoteFacts
             DEF NS!OnNamespaceAdd, NS!OnNamespaceDelete, NS!Handling
        <5> QED BY <5>2 DEF NS!IgnoreTombstone
      <4>2. CASE n # x
        BY <1>1, <4>2 DEF NS!OnNamespaceAdd, NS!OnNamespaceDelete, NS!IgnoreTombstone
      <4> QED BY <4>1, <4>2
    <3>2. NS!Announced(n) => NS!Announced(n)'
      BY <1>3, <2>1, <2>6, NotesShrink
    <3>3. \A i \in DOMAIN notes' : notes'[i] = NS!note("Deleted", n) =>
            \E j \in DOMAIN notes' : i < j /\ notes'[j] = NS!note("Added", n)
      BY <1>3, <2>1, <2>2, NotesShrink
    <3> QED BY <2>3, <3>1, <3>2, <3>3
  <2> QED BY <2>4, <2>5, <2>6
<1> QED BY <1>3, <1>4 DEF NSInv, DeletesAnswered, KnownIsPending, NS!Announced, NS!note

LEMMA NSInvStep ==
  ASSUME HiddenChanges = FALSE, NS!TypeOK, NSInv, NSStep
  PROVE  NSInv'
<1>1. CASE NS!WatchBreaks
  BY <1>1 DEF NS!WatchBreaks, NS!cluster, NSInv, DeletesAnswered, KnownIsPending,
              NS!Announced, NS!note
<1>2. CASE NS!Forgotten
  BY <1>2 DEF NS!Forgotten, NSInv, DeletesAnswered, KnownIsPending
<1>3. CASE UNCHANGED nsHandlers
  BY <1>3 DEF nsHandlers, NSInv, DeletesAnswered, KnownIsPending, NS!Announced, NS!note
<1> QED BY <1>1, <1>2, <1>3, UsersPending, ListPending, HandlersPending DEF NSStep

-----------------------------------------------------------------------------
LEMMA InitTypes ==
  ASSUME Init
  PROVE  NS!TypeOK /\ QueueTypes
<1>1. notes \in Seq(NS!Note)
  BY DEF Init, NS!Init, NS!Fresh
<1>2. listed \in BOOLEAN
  BY DEF Init, NS!Init, NS!Fresh
<1>3. userSteps \in 0 .. MaxUserSteps /\ failures \in 0 .. MaxFailures
      /\ breaks \in 0 .. MaxBreaks
  BY ProcessAssumption DEF Init, NS!Init
<1>4. NS!TypeOK
  BY <1>1, <1>2, <1>3 DEF Init, NS!Init, NS!Fresh, NS!TypeOK
<1>5. QueueTypes
  BY DEF Init, Q!Init, QueueTypes
<1> QED BY <1>4, <1>5

\* The variables of main, of the queue and of the namespace handlers keep their
\* types over any number of restarts (main.go, queue.go, netattachdef.go).
THEOREM ProcessTypeCorrect == Spec => []TypeOK
<1> DEFINE AllTypes == LifecycleTypes /\ LifeInv /\ QueueTypes /\ NS!TypeOK
<1>1. Init => AllTypes
  BY InitLife, InitTypes
<1>2. AllTypes /\ [Next]_vars => AllTypes'
  BY LifeStep, QueueStep, NSSteps, NSTypes
<1>3. AllTypes => TypeOK
  BY DEF LifecycleTypes, QueueTypes, TypeOK
<1> QED BY <1>1, <1>2, <1>3, PTL DEF Spec

\* No namespace is replaced while nobody watches.
NoHiddenChanges == HiddenChanges = FALSE

\* A namespace that a watching process knows has its definition, is about to be
\* announced to onNamespaceAdd, or is in the log: no order of creations,
\* deletions, lists, failures and restarts loses one (netattachdef.go:50-82).
THEOREM MissingNoticed ==
  ASSUME NoHiddenChanges
  PROVE  Spec => []MissingIsPending
<1> DEFINE I == NS!TypeOK /\ NSInv
<1>1. Init => I
  BY InitTypes DEF Init, NS!Init, NS!Fresh, NSInv, DeletesAnswered, KnownIsPending
<1>2. I /\ [Next]_vars => I'
  BY NSSteps, NSTypes, NSInvStep DEF NoHiddenChanges
<1>3. I => MissingIsPending
  BY DEF NSInv, KnownIsPending, MissingIsPending, NS!MissingIsPending
<1> QED BY <1>1, <1>2, <1>3, PTL DEF Spec
=============================================================================
