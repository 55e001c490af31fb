------------------------------ MODULE Process ------------------------------
(***************************************************************************)
(* The process: main, the signal handler, the informer factories and       *)
(* Controller.Run around the work queue and the namespace handlers, from   *)
(* the first line of main to its end and, the Deployment starting a new    *)
(* one on the same cluster, over and over.  What the process has in memory *)
(* goes with it; a signal may come at any moment.                          *)
(*                                                                         *)
(* The queue is PendingWork, which WorkQueue implements.  The calls of an  *)
(* item are in MacvlanController: here it takes a while, and one that      *)
(* failed comes back like one that is new.                                 *)
(***************************************************************************)
EXTENDS Naturals, FiniteSets

CONSTANTS Keys, Workers, NoKey,
          Namespace, MaxUserSteps, MaxFailures, MaxBreaks, HiddenChanges

ASSUME ProcessAssumption ==
  /\ NoKey \notin Keys
  /\ IsFiniteSet(Namespace)
  /\ {MaxUserSteps, MaxFailures, MaxBreaks} \subseteq Nat
  /\ HiddenChanges \in BOOLEAN

VARIABLES pending, held, closed
VARIABLES namespaces, defs, store, listed, notes, failed,
          userSteps, failures, breaks

VARIABLES main,     \* what main does next
          informer, \* how far the informer of each resource is
          stop,     \* stopCh is closed
          sigs,     \* signals in the channel of the handler
          handler,  \* the goroutine of SetupSignalHandler
          launched, \* the go statements of Run have been executed
          worker    \* what each worker goroutine is up to

Q  == INSTANCE PendingWork
NS == INSTANCE Namespaces

workQueue  == <<pending, held, closed>>
nsHandlers == <<namespaces, defs, store, listed, notes, failed,
                userSteps, failures, breaks>>
lifecycle == <<main, informer, stop, sigs, handler, launched, worker>>
vars == <<workQueue, nsHandlers, lifecycle>>

KubeTypes    == {"deployments", "namespaces", "pods"}
MacvlanTypes == {"macvlanips", "macvlansubnets"}
Types        == KubeTypes \cup MacvlanTypes

Steps == {"config", "signals", "clients", "macvlanClient", "controller",
          "startKube", "startMacvlan", "wait", "launch", "serving", "shutdown", "return"}
Ends  == {"exit0", "exit1", "killed"}

TypeOK ==
  /\ pending \subseteq Keys
  /\ held \in [Workers -> Keys \cup {NoKey}]
  /\ closed \in BOOLEAN
  /\ NS!TypeOK
  /\ main \in Steps \cup Ends
  /\ informer \in [Types -> {"none", "requested", "started", "synced"}]
  /\ stop \in BOOLEAN
  /\ sigs \in 0 .. 2
  /\ handler \in {"none", "first", "second", "ended"}
  /\ launched \in BOOLEAN
  /\ worker \in [Workers -> {"off", "running", "ended"}]

Init ==
  /\ Q!Init
  /\ NS!Init
  /\ main = "config"
  /\ informer = [t \in Types |-> "none"]
  /\ stop = FALSE
  /\ sigs = 0
  /\ handler = "none"
  /\ launched = FALSE
  /\ worker = [w \in Workers |-> "off"]


components == <<workQueue, nsHandlers>>

Alive == main \in Steps

\* main moves on; what else changes is up to the action.
Goto(from, to) ==
  /\ main = from
  /\ main' = to

\* Nothing in memory outlives the process.
Exit(end) ==
  /\ main' = end
  /\ informer' = [t \in Types |-> "none"]
  /\ stop' = FALSE
  /\ sigs' = 0
  /\ handler' = "none"
  /\ launched' = FALSE
  /\ worker' = [w \in Workers |-> "off"]
  /\ pending' = {}
  /\ held' = [w \in Workers |-> NoKey]
  /\ closed' = FALSE
  /\ NS!Forgotten

\* A step that may end in log.Fatalf.
Fatal(step) ==
  /\ main = step
  /\ Exit("exit1")

\* The container is killed, the node is lost, a handler panics.
Killed ==
  /\ Alive
  /\ Exit("killed")

\* The Deployment starts the container again.
Restart ==
  /\ ~Alive
  /\ main' = "config"
  /\ UNCHANGED <<components, informer, stop, sigs, handler, launched, worker>>

-----------------------------------------------------------------------------
(* Signals.                                                                 *)

\* close(stop) follows the receive at once; nobody can tell them apart.
SetupSignalHandler ==
  /\ Goto("signals", "clients")
  /\ handler' = "first"
  /\ UNCHANGED <<components, informer, stop, sigs, launched, worker>>

\* A variant whose channel is unbounded.
SignalledUnbounded ==
  /\ Alive
  /\ \/ handler = "none" /\ Exit("killed")
     \/ /\ handler # "none"
        /\ sigs < 4
        /\ sigs' = sigs + 1
        /\ UNCHANGED <<components, main, informer, stop, handler, launched, worker>>

\* Without signal.Notify a signal ends the process; with it, it goes into the
\* channel of two, or is dropped.
Signalled ==
  /\ Alive
  /\ \/ handler = "none" /\ Exit("killed")
     \/ /\ handler # "none"
        /\ sigs < 2
        /\ sigs' = sigs + 1
        /\ UNCHANGED <<components, main, informer, stop, handler, launched, worker>>

FirstSignal ==
  /\ handler = "first"
  /\ sigs > 0
  /\ sigs' = sigs - 1
  /\ stop' = TRUE
  /\ handler' = "second"
  /\ UNCHANGED <<components, main, informer, launched, worker>>

SecondSignal ==
  /\ handler = "second"
  /\ sigs > 0
  /\ Exit("exit1")

-----------------------------------------------------------------------------
(* main, before Run.                                                        *)

BuildConfig ==
  \/ /\ Goto("config", "signals")
     /\ UNCHANGED <<components, informer, stop, sigs, handler, launched, worker>>
  \/ Fatal("config")

BuildClients ==
  \/ /\ Goto("clients", "macvlanClient")
     /\ UNCHANGED <<components, informer, stop, sigs, handler, launched, worker>>
  \/ Fatal("clients")

\* Without the client of the group, or the one for discovery, there is none.
NewForConfig ==
  \/ /\ Goto("macvlanClient", "controller")
     /\ UNCHANGED <<components, informer, stop, sigs, handler, launched, worker>>
  \/ Fatal("macvlanClient")

\* InformerFor: the first caller has the informer made, the others get it.
InformerFor(known, types) ==
  [t \in Types |-> IF t \in types /\ known[t] = "none" THEN "requested" ELSE known[t]]

\* Start of a factory: the informers it has been asked for run, once each.
Started(known, types) ==
  [t \in Types |-> IF t \in types /\ known[t] = "requested" THEN "started" ELSE known[t]]

\* A variant in which no handler and no lister asks for the namespaces.
NewControllerForgets ==
  /\ Goto("controller", "startKube")
  /\ informer' = InformerFor(informer, Types \ {"namespaces"})
  /\ UNCHANGED <<components, stop, sigs, handler, launched, worker>>

\* Every lister, HasSynced and handler asks its factory for the informer.
NewController ==
  /\ Goto("controller", "startKube")
  /\ informer' = InformerFor(informer, Types)
  /\ UNCHANGED <<components, stop, sigs, handler, launched, worker>>

StartKube ==
  /\ Goto("startKube", "startMacvlan")
  /\ informer' = Started(informer, KubeTypes)
  /\ UNCHANGED <<components, stop, sigs, handler, launched, worker>>

\* A variant that starts the first factory twice.
StartKubeAgain ==
  /\ Goto("startMacvlan", "wait")
  /\ informer' = Started(informer, KubeTypes)
  /\ UNCHANGED <<components, stop, sigs, handler, launched, worker>>

StartMacvlan ==
  /\ Goto("startMacvlan", "wait")
  /\ informer' = Started(informer, MacvlanTypes)
  /\ UNCHANGED <<components, stop, sigs, handler, launched, worker>>

-----------------------------------------------------------------------------
(* The informers.  They list until they have; then their store is filled   *)
(* and HasSynced.  Notifications may come before that is seen.              *)

Synced(t) ==
  /\ ~stop
  /\ informer[t] = "started"
  /\ informer' = [informer EXCEPT ![t] = "synced"]
  /\ UNCHANGED <<workQueue, main, stop, sigs, handler, launched, worker>>

ListKube == \E t \in {"deployments", "pods"} : Synced(t) /\ UNCHANGED nsHandlers
ListNamespaces == Synced("namespaces") /\ NS!List
ListMacvlanIPs == Synced("macvlanips") /\ UNCHANGED nsHandlers
ListMacvlanSubnets == Synced("macvlansubnets") /\ UNCHANGED nsHandlers

\* The pod informer's handler, or a retry.
EnqueuePod ==
  /\ informer["pods"] \in {"started", "synced"}
  /\ \E k \in Keys : Q!Accept(k)
  /\ UNCHANGED <<nsHandlers, lifecycle>>

\* The watch of the namespaces ends, and is followed by another list.
BreakWatch ==
  /\ informer["namespaces"] = "synced"
  /\ NS!WatchBreaks
  /\ UNCHANGED <<workQueue, lifecycle>>

RelistNamespaces ==
  /\ informer["namespaces"] = "synced"
  /\ ~stop
  /\ NS!List
  /\ UNCHANGED <<workQueue, lifecycle>>

HandleNamespace ==
  /\ Alive
  /\ NS!Handlers
  /\ UNCHANGED <<workQueue, lifecycle>>

-----------------------------------------------------------------------------
(* Controller.Run.                                                          *)

Awaited == {"namespaces", "pods", "macvlanips"}

AllSynced == \A t \in Awaited : informer[t] = "synced"

\* A variant that is content with one of the stores.
WaitForCacheSyncAny ==
  /\ \/ /\ \E t \in Awaited : informer[t] = "synced"
        /\ Goto("wait", "launch")
     \/ /\ stop
        /\ Goto("wait", "shutdown")
  /\ UNCHANGED <<components, informer, stop, sigs, handler, launched, worker>>

\* A variant that polls without looking at stopCh.
WaitForCacheSyncDeaf ==
  /\ AllSynced
  /\ Goto("wait", "launch")
  /\ UNCHANGED <<components, informer, stop, sigs, handler, launched, worker>>

\* PollUntil: when the stores are full and stopCh is closed, either is seen.
WaitForCacheSync ==
  /\ \/ /\ AllSynced
        /\ Goto("wait", "launch")
     \/ /\ stop
        /\ Goto("wait", "shutdown")
  /\ UNCHANGED <<components, informer, stop, sigs, handler, launched, worker>>

\* go wait.Until(c.runWorker, time.Second, stopCh), threadiness times.
LaunchWorkers ==
  /\ Goto("launch", "serving")
  /\ launched' = TRUE
  /\ UNCHANGED <<components, informer, stop, sigs, handler, worker>>

\* A new goroutine looks at stopCh before it calls runWorker.
WorkerStarts(w) ==
  /\ launched
  /\ worker[w] = "off"
  /\ worker' = [worker EXCEPT ![w] = IF stop THEN "ended" ELSE "running"]
  /\ UNCHANGED <<components, main, informer, stop, sigs, handler, launched>>

\* runWorker: take an item, finish it, end when the queue has drained.
WorkerTakes(w) ==
  /\ worker[w] = "running"
  /\ \E k \in Keys : Q!Take(w, k)
  /\ UNCHANGED <<nsHandlers, lifecycle>>

WorkerReleases(w) ==
  /\ Q!Release(w)
  /\ UNCHANGED <<nsHandlers, lifecycle>>

WorkerEnds(w) ==
  /\ worker[w] = "running"
  /\ closed
  /\ held[w] = NoKey
  /\ pending \subseteq {held[v] : v \in Workers}
  /\ worker' = [worker EXCEPT ![w] = "ended"]
  /\ UNCHANGED <<components, main, informer, stop, sigs, handler, launched>>

\* <-stopCh.
Stopping ==
  /\ stop
  /\ Goto("serving", "shutdown")
  /\ UNCHANGED <<components, informer, stop, sigs, handler, launched, worker>>

\* The deferred ShutDown of the queue.
DeferredShutDown ==
  /\ Goto("shutdown", "return")
  /\ Q!Close
  /\ UNCHANGED <<nsHandlers, informer, stop, sigs, handler, launched, worker>>

\* Run has returned nil when the workers had been launched, and the error of
\* WaitForCacheSync otherwise.  main waits for no worker.
MainEnds ==
  /\ main = "return"
  /\ Exit(IF launched THEN "exit0" ELSE "exit1")

-----------------------------------------------------------------------------
UsersAct == NS!Users /\ UNCHANGED <<workQueue, lifecycle>>

Main ==
  \/ BuildConfig \/ SetupSignalHandler \/ BuildClients \/ NewForConfig
  \/ NewController
  \/ StartKube \/ StartMacvlan \/ WaitForCacheSync \/ LaunchWorkers
  \/ Stopping \/ DeferredShutDown \/ MainEnds

Lists == ListKube \/ ListNamespaces \/ ListMacvlanIPs \/ ListMacvlanSubnets

Work(w) == WorkerStarts(w) \/ WorkerTakes(w) \/ WorkerReleases(w) \/ WorkerEnds(w)

Next ==
  \/ Main
  \/ Signalled \/ FirstSignal \/ SecondSignal \/ Killed \/ Restart
  \/ Lists
  \/ EnqueuePod
  \/ BreakWatch \/ RelistNamespaces
  \/ HandleNamespace
  \/ \E w \in Workers : Work(w)
  \/ UsersAct

Spec == Init /\ [][Next]_vars

\* Main, the goroutines and the handlers run when they can; a list succeeds in
\* the end; the container is started again.  Nothing is assumed of signals, of
\* what kills the process, of users, and of pods.
Fairness ==
  /\ WF_vars(Main)
  /\ WF_vars(FirstSignal) /\ WF_vars(SecondSignal)
  /\ WF_vars(Restart)
  /\ WF_vars(ListKube) /\ WF_vars(ListNamespaces)
  /\ WF_vars(ListMacvlanIPs) /\ WF_vars(ListMacvlanSubnets)
  /\ WF_vars(RelistNamespaces)
  /\ WF_vars(HandleNamespace)
  /\ \A w \in Workers : WF_vars(Work(w))

FairSpec == Spec /\ Fairness

-----------------------------------------------------------------------------
(* Properties.                                                              *)

\* controller.go:135-147: a worker runs only over filled stores, whatever the
\* order in which informers, main, and signals come.
WorkersSeeSyncedStores ==
  (\E w \in Workers : worker[w] = "running") => AllSynced

\* signals.go:11-13: a signal ends the process, in whichever phase it meets it,
\* also while the stores are being filled or the API server does not answer.
SignalEnds == (sigs > 0 \/ stop) ~> ~Alive

\* A pod announced at any time, before the workers run too, is taken.
AnnouncedIsTaken ==
  \A k \in Keys : k \in pending ~> k \notin pending

\* netattachdef.go:50-82: nobody but the log forgets a namespace without a
\* definition, whatever notifications, lists, watches and restarts do.
MissingIsPending == NS!MissingIsPending

\* A namespace of a running process gets its definition, unless its create
\* fails, it goes, or the process ends.
NamespaceGetsDefinition ==
  \A n \in Namespace :
    n \in namespaces /\ Alive ~>
      (n \in defs \/ n \notin namespaces \/ n \in failed \/ ~Alive)
=============================================================================
