----------------------------- MODULE WorkQueue -----------------------------
(***************************************************************************)
(* The work queue between the pod handler and the workers: the queue with  *)
(* its dirty and processing sets and its condition variable, the delaying  *)
(* queue on top of it with its channel and its waiting loop, and the       *)
(* workers that run processNextWorkItem.  One action per critical section  *)
(* or channel operation, so that any number of workers, the handler and    *)
(* the waiting loop interleave as the locks let them.                      *)
(*                                                                         *)
(* Time is left out: an entry of the delaying queue becomes ready at some  *)
(* moment.  The rate limiter only chooses how long that takes (never zero).*)
(***************************************************************************)
EXTENDS Naturals, Sequences, Functions

CONSTANTS Keys,         \* namespace/name of pods
          Workers,      \* the goroutines Run launches, threadiness of them
          NoKey,        \* the item of a worker that has none
          ChannelSize   \* capacity of waitingForAddCh, 1000 in the code

ASSUME QueueAssumption ==
  /\ NoKey \notin Keys
  /\ ChannelSize \in Nat \ {0}
  /\ Workers # {}

VARIABLES queue,            \* keys in the order they will be taken
          dirty,            \* keys that need processing
          processing,       \* keys a worker has taken and not finished
          waiters,          \* workers blocked in cond.Wait
          shuttingDown,
          stopped,          \* stopCh of the delaying queue is closed
          waitingForAddCh,  \* delayed keys the waiting loop has not seen yet
          waitingForQueue,  \* delayed keys in the heap of the waiting loop
          loop,             \* the goroutine of the waiting loop
          pc,               \* where each worker is
          item              \* the key each worker holds

core == <<queue, dirty, processing, waiters>>
delaying == <<waitingForAddCh, waitingForQueue, loop>>
down == <<shuttingDown, stopped>>
workers == <<pc, item>>
vars == <<core, delaying, down, workers>>

\* "off"    not launched yet          "get"   in, or about to call, Get
\* "sync"   in syncHandler            "retry" syncHandler returned an error
\* "send"   in the select of AddAfter "done"  the deferred Done comes next
\* "exited" runWorker has returned     "skipped" it was never called
Places == {"off", "get", "sync", "retry", "send", "done", "exited", "skipped"}

Ended == {"exited", "skipped"}

Holding == {"sync", "retry", "send", "done"}

TypeOK ==
  /\ queue \in Seq(Keys)
  /\ dirty \subseteq Keys
  /\ processing \subseteq Keys
  /\ waiters \subseteq Workers
  /\ shuttingDown \in BOOLEAN
  /\ stopped \in BOOLEAN
  /\ waitingForAddCh \in Seq(Keys)
  /\ waitingForQueue \subseteq Keys
  /\ loop \in {"running", "ended"}
  /\ pc \in [Workers -> Places]
  /\ item \in [Workers -> Keys \cup {NoKey}]

Init ==
  /\ queue = <<>>
  /\ dirty = {}
  /\ processing = {}
  /\ waiters = {}
  /\ shuttingDown = FALSE
  /\ stopped = FALSE
  /\ waitingForAddCh = <<>>
  /\ waitingForQueue = {}
  /\ loop = "running"
  /\ pc = [w \in Workers |-> "off"]
  /\ item = [w \in Workers |-> NoKey]

-----------------------------------------------------------------------------
(* The queue.                                                              *)

\* A variant that wakes nobody.
SignalNobody == UNCHANGED waiters

\* cond.Signal wakes one waiter, if there is one.
Signal ==
  \/ waiters = {} /\ UNCHANGED waiters
  \/ \E v \in waiters : waiters' = waiters \ {v}

Push(k) ==
  /\ queue' = Append(queue, k)
  /\ Signal

\* A variant that queues a key somebody works on.
AddIgnoresProcessing(k) ==
  \/ /\ shuttingDown \/ k \in dirty
     /\ UNCHANGED core
  \/ /\ ~shuttingDown
     /\ k \notin dirty
     /\ dirty' = dirty \cup {k}
     /\ Push(k)
     /\ UNCHANGED processing

\* Add of the queue, as a part of the actions that call it.
Add(k) ==
  \/ /\ shuttingDown \/ k \in dirty
     /\ UNCHANGED core
  \/ /\ ~shuttingDown
     /\ k \notin dirty
     /\ dirty' = dirty \cup {k}
     /\ IF k \in processing THEN UNCHANGED <<queue, waiters>> ELSE Push(k)
     /\ UNCHANGED processing

\* A handler of an informer adds a key.
Enqueue(k) ==
  /\ Add(k)
  /\ UNCHANGED <<delaying, down, workers>>

\* Get: a worker that finds nothing waits to be woken, or is told to end.
GetWaits(w) ==
  /\ pc[w] = "get"
  /\ w \notin waiters
  /\ queue = <<>>
  /\ ~shuttingDown
  /\ waiters' = waiters \cup {w}
  /\ UNCHANGED <<queue, dirty, processing, delaying, down, workers>>

\* A variant that leaves the key dirty while it is worked on.
GetKeepsDirty(w) ==
  /\ pc[w] = "get"
  /\ w \notin waiters
  /\ queue # <<>>
  /\ queue' = Tail(queue)
  /\ processing' = processing \cup {Head(queue)}
  /\ item' = [item EXCEPT ![w] = Head(queue)]
  /\ pc' = [pc EXCEPT ![w] = "sync"]
  /\ UNCHANGED <<dirty, waiters, delaying, down>>

GetTakes(w) ==
  /\ pc[w] = "get"
  /\ w \notin waiters
  /\ queue # <<>>
  /\ queue' = Tail(queue)
  /\ processing' = processing \cup {Head(queue)}
  /\ dirty' = dirty \ {Head(queue)}
  /\ item' = [item EXCEPT ![w] = Head(queue)]
  /\ pc' = [pc EXCEPT ![w] = "sync"]
  /\ UNCHANGED <<waiters, delaying, down>>

\* A variant that ends a worker as soon as the queue shuts down.
GetEndsAtOnce(w) ==
  /\ pc[w] = "get"
  /\ w \notin waiters
  /\ shuttingDown
  /\ pc' = [pc EXCEPT ![w] = "exited"]
  /\ UNCHANGED <<core, delaying, down, item>>

GetEnds(w) ==
  /\ pc[w] = "get"
  /\ w \notin waiters
  /\ queue = <<>>
  /\ shuttingDown
  /\ pc' = [pc EXCEPT ![w] = "exited"]
  /\ UNCHANGED <<core, delaying, down, item>>

\* A variant that puts back what is left after the item was cleared.
DoneAfterClear(w) ==
  /\ pc[w] = "done"
  /\ processing' = processing \ {item[w]}
  /\ item' = [item EXCEPT ![w] = NoKey]
  /\ IF item[w] \in dirty THEN Push(item'[w]) ELSE UNCHANGED <<queue, waiters>>
  /\ pc' = [pc EXCEPT ![w] = "get"]
  /\ UNCHANGED <<dirty, delaying, down>>

\* Done: a key that became dirty meanwhile goes back into the queue.
Done(w) ==
  /\ pc[w] = "done"
  /\ processing' = processing \ {item[w]}
  /\ IF item[w] \in dirty THEN Push(item[w]) ELSE UNCHANGED <<queue, waiters>>
  /\ pc' = [pc EXCEPT ![w] = "get"]
  /\ item' = [item EXCEPT ![w] = NoKey]
  /\ UNCHANGED <<dirty, delaying, down>>

\* A variant that wakes one worker only.
ShutDownSignals ==
  /\ ~shuttingDown
  /\ shuttingDown' = TRUE
  /\ Signal
  /\ UNCHANGED <<queue, dirty, processing, stopped, delaying, workers>>

\* ShutDown of the delaying queue: first the queue below it, which wakes
\* everybody, then the channel that stops the waiting loop.
ShutDown ==
  /\ ~shuttingDown
  /\ shuttingDown' = TRUE
  /\ waiters' = {}
  /\ UNCHANGED <<queue, dirty, processing, stopped, delaying, workers>>

CloseStopCh ==
  /\ shuttingDown
  /\ ~stopped
  /\ stopped' = TRUE
  /\ UNCHANGED <<core, shuttingDown, delaying, workers>>

-----------------------------------------------------------------------------
(* The workers.                                                            *)

\* wait.Until looks at the stop channel of Run before the first call.  Run shuts
\* the queue down as soon as that is closed; that a worker sees it a moment
\* earlier makes no difference to anybody.
Launch(w) ==
  /\ pc[w] = "off"
  /\ pc' = [pc EXCEPT ![w] = IF shuttingDown THEN "skipped" ELSE "get"]
  /\ UNCHANGED <<core, delaying, down, item>>

\* syncHandler returns nil (Forget) or an error.
Sync(w) ==
  /\ pc[w] = "sync"
  /\ \E next \in {"done", "retry"} : pc' = [pc EXCEPT ![w] = next]
  /\ UNCHANGED <<core, delaying, down, item>>

\* AddRateLimited, up to the look at ShuttingDown in AddAfter.
AddRateLimited(w) ==
  /\ pc[w] = "retry"
  /\ pc' = [pc EXCEPT ![w] = IF shuttingDown THEN "done" ELSE "send"]
  /\ UNCHANGED <<core, delaying, down, item>>

\* The select of AddAfter: the send, which blocks while the channel is full,
\* or the closed stop channel.
AddAfterSends(w) ==
  /\ pc[w] = "send"
  /\ Len(waitingForAddCh) < ChannelSize
  /\ waitingForAddCh' = Append(waitingForAddCh, item[w])
  /\ pc' = [pc EXCEPT ![w] = "done"]
  /\ UNCHANGED <<core, waitingForQueue, loop, down, item>>

AddAfterStops(w) ==
  /\ pc[w] = "send"
  /\ stopped
  /\ pc' = [pc EXCEPT ![w] = "done"]
  /\ UNCHANGED <<core, delaying, down, item>>

-----------------------------------------------------------------------------
(* The waiting loop of the delaying queue.                                 *)

\* A variant that takes the entry out and does not add it.
LoopForgets(k) ==
  /\ loop = "running"
  /\ k \in waitingForQueue
  /\ waitingForQueue' = waitingForQueue \ {k}
  /\ UNCHANGED <<core, waitingForAddCh, loop, down, workers>>

\* The first entry of the heap that is ready is added.
LoopAdds(k) ==
  /\ loop = "running"
  /\ k \in waitingForQueue
  /\ waitingForQueue' = waitingForQueue \ {k}
  /\ Add(k)
  /\ UNCHANGED <<waitingForAddCh, loop, down, workers>>

\* An entry from the channel: into the heap, or added when its time has come.
\* insert keeps one entry per key.
LoopReceives ==
  /\ loop = "running"
  /\ waitingForAddCh # <<>>
  /\ waitingForAddCh' = Tail(waitingForAddCh)
  /\ \/ /\ waitingForQueue' = waitingForQueue \cup {Head(waitingForAddCh)}
        /\ UNCHANGED core
     \/ /\ Add(Head(waitingForAddCh))
        /\ UNCHANGED waitingForQueue
  /\ UNCHANGED <<loop, down, workers>>

\* ShuttingDown at the top of the loop, or stopCh in its select.
LoopEnds ==
  /\ loop = "running"
  /\ shuttingDown
  /\ loop' = "ended"
  /\ UNCHANGED <<core, waitingForAddCh, waitingForQueue, down, workers>>

-----------------------------------------------------------------------------
Get(w) == GetWaits(w) \/ GetTakes(w) \/ GetEnds(w)
AddAfter(w) == AddAfterSends(w) \/ AddAfterStops(w)
Work(w) == Launch(w) \/ Get(w) \/ Sync(w) \/ AddRateLimited(w) \/ AddAfter(w) \/ Done(w)

Next ==
  \/ \E k \in Keys : Enqueue(k)
  \/ \E w \in Workers : Work(w)
  \/ \E k \in Keys : LoopAdds(k)
  \/ LoopReceives
  \/ LoopEnds
  \/ ShutDown
  \/ CloseStopCh

Spec == Init /\ [][Next]_vars

\* Every goroutine that can run does run, syncHandler returns, delays end, and
\* ShutDown runs to its end.  Senders blocked on a channel are served in turn.
\* Nothing is assumed of Enqueue and of ShutDown.
Fairness ==
  /\ \A w \in Workers : WF_vars(Work(w)) /\ SF_vars(AddAfterSends(w))
  /\ \A k \in Keys : WF_vars(LoopAdds(k))
  /\ WF_vars(LoopReceives)
  /\ WF_vars(LoopEnds)
  /\ WF_vars(CloseStopCh)

FairSpec == Spec /\ Fairness

-----------------------------------------------------------------------------
(* Properties.                                                             *)

\* queue.go:66-82: the queue holds each dirty key nobody works on, once, and
\* no key somebody works on; processing is what the workers hold.
QueueHoldsTheDirty ==
  /\ Range(queue) = dirty \ processing
  /\ IsInjective(queue)
  /\ processing = {item[w] : w \in {v \in Workers : pc[v] \in Holding}}

\* A process that is stopped as it launches its workers may have none at all.
NobodyWorked == \A w \in Workers : pc[w] = "skipped"

\* Shutdown drains (queue.go:178-180): a worker ends only when every key left
\* is held by a worker that will put it back and take it again.
NothingLeftBehind ==
  (\A w \in Workers : pc[w] \in Ended) => dirty = {} \/ NobodyWorked

\* The queue is the set of pending keys that PendingWork promises: keys are
\* neither lost nor doubled, and one worker at a time has a key, however
\* handler, workers and waiting loop interleave.
Pending == INSTANCE PendingWork WITH
  pending <- dirty, held <- item, closed <- shuttingDown
ImplementsPendingWork == Pending!Spec

\* No wake-up is lost and no key starves: what is dirty is taken, if any worker
\* ever runs.
AddedIsTaken == \A k \in Keys : k \in dirty ~> (k \notin dirty \/ NobodyWorked)

\* A key whose item failed is worked on again, unless the queue shuts down,
\* also when the channel is full and several workers fail at once.
FailedIsRetried ==
  \A w \in Workers, k \in Keys :
    (pc[w] = "retry" /\ item[w] = k) ~> (k \in dirty \/ shuttingDown)

\* Once the queue shuts down every worker ends, wherever it was: asleep, with
\* an item, or blocked on the channel nobody reads any more.
WorkersEnd ==
  shuttingDown ~> \A w \in Workers : pc[w] \in Ended

=============================================================================
