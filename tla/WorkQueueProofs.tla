-------------------------- MODULE WorkQueueProofs --------------------------
(***************************************************************************)
(* Theorems about WorkQueue, for any keys, workers and channel size.       *)
(***************************************************************************)
EXTENDS WorkQueue, TLAPS

-----------------------------------------------------------------------------
(* What appending to a queue and taking from it do to its elements.        *)

LEMMA AppendFacts ==
  ASSUME NEW s \in Seq(Keys), NEW k \in Keys, IsInjective(s), k \notin Range(s)
  PROVE  /\ Append(s, k) \in Seq(Keys)
         /\ Range(Append(s, k)) = Range(s) \cup {k}
         /\ IsInjective(Append(s, k))
<1> DEFINE t == Append(s, k)
<1>1. /\ t \in Seq(Keys)
      /\ DOMAIN s = 1 .. Len(s)
      /\ DOMAIN t = 1 .. Len(s) + 1
      /\ t[Len(s) + 1] = k
      /\ \A i \in 1 .. Len(s) : t[i] = s[i]
  OBVIOUS
<1>2. Len(s) \in Nat
  OBVIOUS
<1> HIDE DEF t
<1>3. Range(t) = Range(s) \cup {k}
  BY <1>1, <1>2 DEF Range
<1>4. IsInjective(t)
  BY <1>1, <1>2 DEF IsInjective, Range
<1> QED BY <1>1, <1>3, <1>4 DEF t

LEMMA TailFacts ==
  ASSUME NEW s \in Seq(Keys), s # <<>>, IsInjective(s)
  PROVE  /\ Head(s) \in Keys
         /\ Head(s) \in Range(s)
         /\ Tail(s) \in Seq(Keys)
         /\ Range(Tail(s)) = Range(s) \ {Head(s)}
         /\ IsInjective(Tail(s))
<1> DEFINE t == Tail(s)
<1>1. /\ t \in Seq(Keys)
      /\ Len(s) \in Nat \ {0}
      /\ DOMAIN s = 1 .. Len(s)
      /\ DOMAIN t = 1 .. Len(s) - 1
      /\ \A i \in 1 .. Len(s) - 1 : t[i] = s[i + 1]
      /\ Head(s) = s[1]
      /\ Head(s) \in Keys
  OBVIOUS
<1> HIDE DEF t
<1>2. Head(s) \in Range(s)
  BY <1>1 DEF Range
<1>3. Range(t) \subseteq Range(s) \ {Head(s)}
  BY <1>1 DEF Range, IsInjective
<1>4. Range(s) \ {Head(s)} \subseteq Range(t)
  <2> SUFFICES ASSUME NEW i \in 2 .. Len(s) PROVE s[i] \in Range(t)
    BY <1>1 DEF Range
  <2>1. i - 1 \in DOMAIN t /\ t[i - 1] = s[i]
    BY <1>1
  <2> QED BY <2>1 DEF Range
<1>5. IsInjective(t)
  <2> SUFFICES ASSUME NEW i \in DOMAIN t, NEW j \in DOMAIN t, t[i] = t[j]
               PROVE  i = j
    BY DEF IsInjective
  <2>1. i + 1 \in DOMAIN s /\ j + 1 \in DOMAIN s /\ s[i + 1] = s[j + 1]
    BY <1>1
  <2>2. i + 1 = j + 1
    BY <2>1 DEF IsInjective
  <2> QED BY <1>1, <2>2
<1> QED BY <1>1, <1>2, <1>3, <1>4, <1>5 DEF t
-----------------------------------------------------------------------------
(* The inductive invariant.  QueueHoldsTheDirty alone does not say that two *)
(* workers hold different keys, nor that what they hold is real.            *)

\* A worker holds a key exactly while it is between Get and Done.
HeldWhileWorking ==
  \A w \in Workers : IF pc[w] \in Holding THEN item[w] \in Keys ELSE item[w] = NoKey

\* No two workers hold one key.
OneHolder ==
  \A v, w \in Workers : item[v] = item[w] /\ item[v] # NoKey => v = w

\* Workers that are not about: after the shutdown they do not come back.
Away == {"off"} \cup Ended

\* When the last of the workers that ran has ended, it found nothing to do, and
\* since then nobody could add anything.
EmptyAtTheEnd ==
  /\ \A w \in Workers : pc[w] \in Away
  /\ \E w \in Workers : pc[w] = "exited"
  => queue = <<>> /\ shuttingDown

IInv ==
  /\ TypeOK
  /\ HeldWhileWorking
  /\ OneHolder
  /\ QueueHoldsTheDirty
  /\ EmptyAtTheEnd

LEMMA InitIInv == Init => IInv
<1> SUFFICES ASSUME Init PROVE IInv
  OBVIOUS
<1> USE QueueAssumption DEF Init
<1>1. TypeOK
  <2>1. queue \in Seq(Keys) /\ waitingForAddCh \in Seq(Keys)
    OBVIOUS
  <2>2. pc \in [Workers -> Places] /\ item \in [Workers -> Keys \cup {NoKey}]
    BY DEF Places
  <2> QED BY <2>1, <2>2 DEF TypeOK
<1>2. HeldWhileWorking /\ OneHolder /\ EmptyAtTheEnd
  BY DEF HeldWhileWorking, OneHolder, EmptyAtTheEnd, Holding
<1>3. DOMAIN queue = {}
  <2>1. queue \in Seq(Keys) /\ Len(queue) = 0
    OBVIOUS
  <2> QED BY <2>1
<1>4. Range(queue) = {} /\ IsInjective(queue)
  BY <1>3 DEF Range, IsInjective
<1>5. QueueHoldsTheDirty
  BY <1>4 DEF QueueHoldsTheDirty, Holding
<1> QED BY <1>1, <1>2, <1>5 DEF IInv

\* Appending a key that is dirty and that nobody will process any more.
LEMMA PushFacts ==
  ASSUME NEW k \in Keys, TypeOK, IsInjective(queue), k \notin Range(queue), Push(k)
  PROVE  /\ queue' \in Seq(Keys)
         /\ Range(queue') = Range(queue) \cup {k}
         /\ IsInjective(queue')
         /\ waiters' \subseteq Workers
<1>1. queue \in Seq(Keys) /\ queue' = Append(queue, k)
  BY DEF TypeOK, Push
<1>2. waiters' \subseteq Workers
  BY DEF TypeOK, Push, Signal
<1> QED BY <1>1, <1>2, AppendFacts

\* Add keeps the queue in order when the workers do not move.
LEMMA AddFacts ==
  ASSUME NEW k \in Keys, IInv, Add(k), UNCHANGED workers, UNCHANGED shuttingDown
  PROVE  /\ queue' \in Seq(Keys) /\ dirty' \subseteq Keys
         /\ processing' = processing /\ waiters' \subseteq Workers
         /\ QueueHoldsTheDirty' /\ EmptyAtTheEnd'
<1> USE DEF IInv
<1>1. CASE UNCHANGED core
  BY <1>1 DEF core, workers, TypeOK, QueueHoldsTheDirty, EmptyAtTheEnd
<1>2. CASE /\ ~shuttingDown /\ k \notin dirty /\ dirty' = dirty \cup {k}
           /\ IF k \in processing THEN UNCHANGED <<queue, waiters>> ELSE Push(k)
           /\ UNCHANGED processing
  <2>1. EmptyAtTheEnd'
    BY <1>2 DEF EmptyAtTheEnd, workers
  <2>2. CASE k \in processing
    BY <1>2, <2>1, <2>2 DEF workers, TypeOK, QueueHoldsTheDirty
  <2>3. CASE k \notin processing
    <3>1. k \notin Range(queue) /\ IsInjective(queue) /\ Push(k)
      BY <1>2, <2>3 DEF QueueHoldsTheDirty
    <3>2. /\ queue' \in Seq(Keys) /\ Range(queue') = Range(queue) \cup {k}
          /\ IsInjective(queue') /\ waiters' \subseteq Workers
      BY <3>1, PushFacts
    <3>3. QueueHoldsTheDirty'
      BY <1>2, <2>3, <3>2 DEF QueueHoldsTheDirty, workers
    <3> QED BY <1>2, <2>1, <3>2, <3>3 DEF TypeOK
  <2> QED BY <2>2, <2>3
<1> QED BY <1>1, <1>2 DEF Add

\* The parts of the invariant that only speak of the workers.
LEMMA WorkersFacts ==
  ASSUME TypeOK, HeldWhileWorking, OneHolder, NEW w \in Workers,
         NEW p \in Places, pc' = [pc EXCEPT ![w] = p], UNCHANGED item,
         pc[w] \in Holding <=> p \in Holding
  PROVE  /\ pc' \in [Workers -> Places]
         /\ HeldWhileWorking' /\ OneHolder'
         /\ \A v \in Workers : pc'[v] \in Holding <=> pc[v] \in Holding
BY DEF TypeOK, HeldWhileWorking, OneHolder

\* A worker moves on with the key it has, and nothing else happens to the queue.
LEMMA MoveFacts ==
  ASSUME IInv, NEW w \in Workers, NEW p \in Places \ Away,
         pc' = [pc EXCEPT ![w] = p], UNCHANGED <<core, down, item>>,
         pc[w] \in Holding <=> p \in Holding
  PROVE  /\ pc' \in [Workers -> Places]
         /\ HeldWhileWorking' /\ OneHolder' /\ QueueHoldsTheDirty' /\ EmptyAtTheEnd'
<1> USE DEF IInv
<1>1. /\ pc' \in [Workers -> Places]
      /\ HeldWhileWorking' /\ OneHolder'
      /\ \A v \in Workers : pc'[v] \in Holding <=> pc[v] \in Holding
  BY WorkersFacts
<1>2. QueueHoldsTheDirty'
  <2>1. {v \in Workers : pc'[v] \in Holding} = {v \in Workers : pc[v] \in Holding}
    BY <1>1
  <2> QED BY <2>1 DEF QueueHoldsTheDirty, core
<1>3. pc'[w] \notin Away
  BY DEF TypeOK
<1> QED BY <1>1, <1>2, <1>3 DEF EmptyAtTheEnd

LEMMA QueueSteps ==
  ASSUME IInv, NEW w \in Workers, GetTakes(w) \/ Done(w)
  PROVE  IInv'
<1> USE QueueAssumption DEF IInv
<1>1. CASE GetTakes(w)
  <2> DEFINE k == Head(queue)
  <2>1. /\ k \in Keys /\ k \in Range(queue)
        /\ queue' \in Seq(Keys)
        /\ Range(queue') = Range(queue) \ {k}
        /\ IsInjective(queue')
    BY <1>1, TailFacts DEF GetTakes, TypeOK, QueueHoldsTheDirty
  <2>2. k \notin processing /\ \A v \in Workers : item[v] # k
    BY <2>1 DEF QueueHoldsTheDirty, HeldWhileWorking
  <2> HIDE DEF k
  <2>3. /\ pc' = [pc EXCEPT ![w] = "sync"] /\ item' = [item EXCEPT ![w] = k]
        /\ processing' = processing \cup {k} /\ dirty' = dirty \ {k}
        /\ item[w] = NoKey /\ pc[w] = "get"
    BY <1>1 DEF GetTakes, HeldWhileWorking, Holding, k
  <2>4. TypeOK'
    BY <1>1, <2>1, <2>3 DEF GetTakes, TypeOK, Places, delaying, down
  <2>5. HeldWhileWorking' /\ OneHolder'
    BY <2>1, <2>2, <2>3 DEF HeldWhileWorking, OneHolder, TypeOK, Holding
  <2>6. processing' = {item'[v] : v \in {u \in Workers : pc'[u] \in Holding}}
    BY <2>2, <2>3 DEF QueueHoldsTheDirty, TypeOK, Holding
  <2>7. QueueHoldsTheDirty'
    BY <2>1, <2>3, <2>6 DEF QueueHoldsTheDirty
  <2>8. EmptyAtTheEnd'
    BY <2>3 DEF EmptyAtTheEnd, TypeOK, Away, Ended
  <2> QED BY <2>4, <2>5, <2>7, <2>8
<1>2. CASE Done(w)
  <2> DEFINE k == item[w]
  <2>1. k \in Keys /\ k # NoKey /\ k \in processing /\ k \notin Range(queue)
    BY <1>2 DEF Done, HeldWhileWorking, Holding, QueueHoldsTheDirty
  <2> HIDE DEF k
  <2>2. /\ pc' = [pc EXCEPT ![w] = "get"] /\ item' = [item EXCEPT ![w] = NoKey]
        /\ processing' = processing \ {k} /\ dirty' = dirty
        /\ item[w] = k /\ pc[w] = "done"
    BY <1>2 DEF Done, k
  <2>3. /\ queue' \in Seq(Keys) /\ waiters' \subseteq Workers /\ IsInjective(queue')
        /\ Range(queue') = Range(queue) \cup (dirty \cap {k})
    <3>1. CASE k \in dirty
      BY <1>2, <2>1, <3>1, PushFacts DEF Done, QueueHoldsTheDirty, k
    <3>2. CASE k \notin dirty
      BY <1>2, <3>2 DEF Done, QueueHoldsTheDirty, TypeOK, k
    <3> QED BY <3>1, <3>2
  <2>4. TypeOK'
    BY <1>2, <2>2, <2>3 DEF Done, TypeOK, Places, delaying, down
  <2>5. HeldWhileWorking' /\ OneHolder'
    BY <2>2 DEF HeldWhileWorking, OneHolder, TypeOK, Holding
  <2>6. processing' = {item'[v] : v \in {u \in Workers : pc'[u] \in Holding}}
    <3>1. \A v \in Workers : v # w => item[v] # k
      BY <2>1, <2>2 DEF OneHolder
    <3>2. \A v \in Workers : pc'[v] \in Holding <=> pc[v] \in Holding /\ v # w
      BY <2>2 DEF TypeOK, Holding
    <3> QED BY <2>2, <3>1, <3>2 DEF QueueHoldsTheDirty, TypeOK
  <2>7. QueueHoldsTheDirty'
    BY <2>1, <2>2, <2>3, <2>6 DEF QueueHoldsTheDirty
  <2>8. EmptyAtTheEnd'
    BY <2>2 DEF EmptyAtTheEnd, TypeOK, Away, Ended
  <2> QED BY <2>4, <2>5, <2>7, <2>8
<1> QED BY <1>1, <1>2

LEMMA NextIInv == IInv /\ [Next]_vars => IInv'
<1> SUFFICES ASSUME IInv, [Next]_vars PROVE IInv'
  OBVIOUS
<1> USE QueueAssumption
<1>1. ASSUME NEW k \in Keys, Enqueue(k) PROVE IInv'
  <2>1. /\ Add(k) /\ UNCHANGED workers /\ UNCHANGED shuttingDown
    BY <1>1 DEF Enqueue, down
  <2>2. TypeOK'
    BY <1>1, <2>1, AddFacts DEF IInv, TypeOK, Enqueue, delaying, down, workers
  <2>3. HeldWhileWorking' /\ OneHolder'
    BY <2>1 DEF IInv, workers, HeldWhileWorking, OneHolder
  <2> QED BY <2>1, <2>2, <2>3, AddFacts DEF IInv
<1>2. ASSUME NEW w \in Workers, Work(w) PROVE IInv'
  <2>1. CASE Launch(w)
    <3>1. CASE ~shuttingDown
      <4>1. /\ pc[w] = "off" /\ pc' = [pc EXCEPT ![w] = "get"]
            /\ UNCHANGED <<core, down, item>>
        BY <2>1, <3>1 DEF Launch
      <4>2. TypeOK'
        BY <2>1, <4>1, MoveFacts
        DEF IInv, TypeOK, Launch, core, delaying, down, Places, Holding, Away, Ended
      <4> QED BY <4>1, <4>2, MoveFacts DEF IInv, Places, Holding, Away, Ended
    <3>2. CASE shuttingDown
      <4>1. /\ pc[w] = "off" /\ pc' = [pc EXCEPT ![w] = "skipped"]
            /\ UNCHANGED <<core, down, item>>
        BY <2>1, <3>2 DEF Launch
      <4>2. /\ pc' \in [Workers -> Places] /\ HeldWhileWorking' /\ OneHolder'
            /\ \A v \in Workers : pc'[v] \in Holding <=> pc[v] \in Holding
        BY <4>1, WorkersFacts DEF IInv, Places, Holding
      <4>3. TypeOK'
        BY <2>1, <4>2 DEF IInv, TypeOK, Launch, core, delaying, down
      <4>4. \A v \in Workers : (pc'[v] \in Away <=> pc[v] \in Away)
                             /\ (pc'[v] = "exited" <=> pc[v] = "exited")
        BY <4>1 DEF IInv, TypeOK, Away, Ended
      <4>5. EmptyAtTheEnd'
        BY <4>1, <4>4 DEF IInv, EmptyAtTheEnd, core, down
      <4>6. {v \in Workers : pc'[v] \in Holding} = {v \in Workers : pc[v] \in Holding}
        BY <4>2
      <4>7. QueueHoldsTheDirty'
        BY <4>1, <4>6 DEF IInv, QueueHoldsTheDirty, core
      <4> QED BY <4>2, <4>3, <4>5, <4>7 DEF IInv
    <3> QED BY <3>1, <3>2
  <2>2. CASE GetWaits(w)
    <3>1. TypeOK'
      BY <2>2 DEF IInv, TypeOK, GetWaits, delaying, down, workers
    <3>2. QueueHoldsTheDirty' /\ EmptyAtTheEnd' /\ HeldWhileWorking' /\ OneHolder'
      BY <2>2 DEF IInv, GetWaits, workers, down, QueueHoldsTheDirty, EmptyAtTheEnd,
                  HeldWhileWorking, OneHolder
    <3> QED BY <3>1, <3>2 DEF IInv
  <2>3. CASE GetTakes(w)
    BY <2>3, QueueSteps
  <2>4. CASE GetEnds(w)
    <3>1. /\ pc[w] = "get" /\ pc' = [pc EXCEPT ![w] = "exited"]
          /\ UNCHANGED <<core, item>>
      BY <2>4 DEF GetEnds
    <3>2. /\ pc' \in [Workers -> Places] /\ HeldWhileWorking' /\ OneHolder'
          /\ \A v \in Workers : pc'[v] \in Holding <=> pc[v] \in Holding
      BY <3>1, WorkersFacts DEF IInv, Places, Holding
    <3>3. TypeOK'
      BY <2>4, <3>2 DEF IInv, TypeOK, GetEnds, core, delaying, down
    <3>4. EmptyAtTheEnd'
      BY <2>4 DEF EmptyAtTheEnd, GetEnds, core, down
    <3>5. {v \in Workers : pc'[v] \in Holding} = {v \in Workers : pc[v] \in Holding}
      BY <3>2
    <3>6. QueueHoldsTheDirty'
      BY <3>1, <3>5 DEF IInv, QueueHoldsTheDirty, core
    <3> QED BY <3>2, <3>3, <3>4, <3>6 DEF IInv
  <2>5. CASE Sync(w)
    <3>1. PICK p \in {"done", "retry"} :
            /\ pc[w] = "sync" /\ pc' = [pc EXCEPT ![w] = p]
            /\ UNCHANGED <<core, down, item>>
      BY <2>5 DEF Sync
    <3>2. TypeOK'
      BY <2>5, <3>1, MoveFacts DEF IInv, TypeOK, Sync, core, delaying, down, Places, Holding, Away, Ended
    <3> QED BY <3>1, <3>2, MoveFacts DEF IInv, Places, Holding, Away, Ended
  <2>6. CASE AddRateLimited(w)
    <3>1. PICK p \in {"done", "send"} :
            /\ pc[w] = "retry" /\ pc' = [pc EXCEPT ![w] = p]
            /\ UNCHANGED <<core, down, item>>
      BY <2>6 DEF AddRateLimited
    <3>2. TypeOK'
      BY <2>6, <3>1, MoveFacts
      DEF IInv, TypeOK, AddRateLimited, core, delaying, down, Places, Holding, Away, Ended
    <3> QED BY <3>1, <3>2, MoveFacts DEF IInv, Places, Holding, Away, Ended
  <2>7. CASE AddAfterSends(w)
    <3>1. /\ pc[w] = "send" /\ pc' = [pc EXCEPT ![w] = "done"]
          /\ UNCHANGED <<core, down, item>>
      BY <2>7 DEF AddAfterSends
    <3>2. item[w] \in Keys
      BY <3>1 DEF IInv, HeldWhileWorking, Holding
    <3>3. waitingForAddCh' \in Seq(Keys)
      BY <2>7, <3>2 DEF IInv, TypeOK, AddAfterSends
    <3>4. TypeOK'
      BY <2>7, <3>1, <3>3, MoveFacts
      DEF IInv, TypeOK, AddAfterSends, core, down, Places, Holding, Away, Ended
    <3> QED BY <3>1, <3>4, MoveFacts DEF IInv, Places, Holding, Away, Ended
  <2>8. CASE AddAfterStops(w)
    <3>1. /\ pc[w] = "send" /\ pc' = [pc EXCEPT ![w] = "done"]
          /\ UNCHANGED <<core, down, item>>
      BY <2>8 DEF AddAfterStops
    <3>2. TypeOK'
      BY <2>8, <3>1, MoveFacts
      DEF IInv, TypeOK, AddAfterStops, core, delaying, down, Places, Holding, Away, Ended
    <3> QED BY <3>1, <3>2, MoveFacts DEF IInv, Places, Holding, Away, Ended
  <2>9. CASE Done(w)
    BY <2>9, QueueSteps
  <2> QED BY <1>2, <2>1, <2>2, <2>3, <2>4, <2>5, <2>6, <2>7, <2>8, <2>9
          DEF Work, Get, AddAfter
<1>3. ASSUME NEW k \in Keys, LoopAdds(k) PROVE IInv'
  <2>1. /\ Add(k) /\ UNCHANGED workers /\ UNCHANGED shuttingDown
    BY <1>3 DEF LoopAdds, down
  <2>2. TypeOK'
    BY <1>3, <2>1, AddFacts DEF IInv, TypeOK, LoopAdds, down, workers
  <2>3. HeldWhileWorking' /\ OneHolder'
    BY <2>1 DEF IInv, workers, HeldWhileWorking, OneHolder
  <2> QED BY <2>1, <2>2, <2>3, AddFacts DEF IInv
<1>4. CASE LoopReceives
  <2> DEFINE k == Head(waitingForAddCh)
  <2>1. k \in Keys /\ waitingForAddCh' \in Seq(Keys)
    BY <1>4 DEF LoopReceives, IInv, TypeOK
  <2>2. /\ waitingForQueue' \subseteq Keys
        /\ UNCHANGED core \/ Add(k)
        /\ UNCHANGED workers /\ UNCHANGED shuttingDown /\ UNCHANGED <<loop, down>>
    BY <1>4, <2>1 DEF LoopReceives, IInv, TypeOK, down
  <2> HIDE DEF k
  <2>3. HeldWhileWorking' /\ OneHolder'
    BY <2>2 DEF IInv, workers, HeldWhileWorking, OneHolder
  <2>4. CASE UNCHANGED core
    <3>1. TypeOK'
      BY <2>1, <2>2, <2>4 DEF IInv, TypeOK, core, down, workers
    <3>2. QueueHoldsTheDirty' /\ EmptyAtTheEnd'
      BY <2>2, <2>4 DEF IInv, core, workers, QueueHoldsTheDirty, EmptyAtTheEnd
    <3> QED BY <2>3, <3>1, <3>2 DEF IInv
  <2>5. CASE Add(k)
    <3>1. TypeOK'
      BY <2>1, <2>2, <2>5, AddFacts DEF IInv, TypeOK, down, workers
    <3> QED BY <2>1, <2>2, <2>3, <2>5, <3>1, AddFacts DEF IInv
  <2> QED BY <2>2, <2>4, <2>5
<1>5. CASE LoopEnds \/ ShutDown \/ CloseStopCh \/ UNCHANGED vars
  <2>1. /\ UNCHANGED <<queue, dirty, processing, pc, item>>
        /\ shuttingDown => shuttingDown'
    BY <1>5 DEF LoopEnds, ShutDown, CloseStopCh, vars, core, down, workers, IInv, TypeOK
  <2>2. TypeOK'
    BY <1>5 DEF IInv, TypeOK, LoopEnds, ShutDown, CloseStopCh, vars, core, delaying, down, workers
  <2>3. QueueHoldsTheDirty' /\ EmptyAtTheEnd' /\ HeldWhileWorking' /\ OneHolder'
    BY <2>1 DEF IInv, QueueHoldsTheDirty, EmptyAtTheEnd, HeldWhileWorking, OneHolder
  <2> QED BY <2>2, <2>3 DEF IInv
<1> QED BY <1>1, <1>2, <1>3, <1>4, <1>5 DEF Next

-----------------------------------------------------------------------------
(* The theorems.                                                           *)

\* The variables keep their types.
THEOREM QueueTypeCorrect == Spec => []TypeOK
<1>1. IInv => TypeOK
  BY DEF IInv
<1> QED BY InitIInv, NextIInv, <1>1, PTL DEF Spec

\* For any number of workers: the queue holds the dirty keys nobody works on,
\* each once, and processing is what the workers hold.
THEOREM QueueInOrder == Spec => []QueueHoldsTheDirty
<1>1. IInv => QueueHoldsTheDirty
  BY DEF IInv
<1> QED BY InitIInv, NextIInv, <1>1, PTL DEF Spec

\* When the workers have ended after a shutdown, no accepted key is left, unless
\* none of them ever ran.
THEOREM ShutdownDrains == Spec => []NothingLeftBehind
<1>1. IInv => NothingLeftBehind
  <2> SUFFICES ASSUME IInv, \A w \in Workers : pc[w] \in Ended, ~NobodyWorked
               PROVE  dirty = {}
    BY DEF NothingLeftBehind
  <2>1. queue = <<>>
    BY DEF IInv, EmptyAtTheEnd, NobodyWorked, Away, Ended
  <2>2. processing = {}
    BY DEF IInv, QueueHoldsTheDirty, Holding, Ended
  <2>3. Range(queue) = {}
    <3>1. queue \in Seq(Keys) /\ Len(queue) = 0
      BY <2>1
    <3> QED BY <3>1 DEF Range
  <2> QED BY <2>2, <2>3 DEF IInv, QueueHoldsTheDirty
<1> QED BY InitIInv, NextIInv, <1>1, PTL DEF Spec

\* The queue implements PendingWork: whatever handler, workers and waiting loop
\* do, a step is an abstract Accept, Take, Release or Close, or none.
THEOREM QueueImplementsPendingWork == Spec => ImplementsPendingWork
<1> USE QueueAssumption
<1>1. Init => Pending!Init
  BY DEF Init, Pending!Init
<1>2. ASSUME NEW k \in Keys, Add(k), UNCHANGED <<item, shuttingDown>>
      PROVE  Pending!Next \/ UNCHANGED <<dirty, item, shuttingDown>>
  <2>1. CASE UNCHANGED core
    BY <1>2, <2>1 DEF core
  <2>2. CASE ~shuttingDown /\ dirty' = dirty \cup {k}
    BY <1>2, <2>2 DEF Pending!Next, Pending!Accept
  <2> QED BY <1>2, <2>1, <2>2 DEF Add
<1>3. IInv /\ [Next]_vars => [Pending!Next]_(Pending!vars)
  <2> SUFFICES ASSUME IInv, [Next]_vars
               PROVE  Pending!Next \/ UNCHANGED <<dirty, item, shuttingDown>>
    BY DEF Pending!vars
  <2>1. ASSUME NEW k \in Keys, Enqueue(k) \/ LoopAdds(k)
        PROVE  Pending!Next \/ UNCHANGED <<dirty, item, shuttingDown>>
    <3>1. Add(k) /\ UNCHANGED <<item, shuttingDown>>
      BY <2>1 DEF Enqueue, LoopAdds, down, workers
    <3> QED BY <3>1, <1>2
  <2>2. CASE LoopReceives
    <3>1. Head(waitingForAddCh) \in Keys
      BY <2>2 DEF LoopReceives, IInv, TypeOK
    <3>2. /\ UNCHANGED core \/ Add(Head(waitingForAddCh))
          /\ UNCHANGED <<item, shuttingDown>>
      BY <2>2 DEF LoopReceives, down, workers
    <3> QED BY <3>1, <3>2, <1>2 DEF core
  <2>3. ASSUME NEW w \in Workers, GetTakes(w)
        PROVE  Pending!Next
    <3> DEFINE k == Head(queue)
    <3>1. k \in Keys /\ k \in Range(queue)
      BY <2>3, TailFacts DEF GetTakes, IInv, TypeOK, QueueHoldsTheDirty
    <3>2. item[w] = NoKey
      BY <2>3 DEF GetTakes, IInv, HeldWhileWorking, Holding
    <3>3. k \in dirty /\ \A v \in Workers : item[v] # k
      BY <3>1 DEF IInv, QueueHoldsTheDirty, HeldWhileWorking
    <3>4. Pending!Take(w, k)
      BY <2>3, <3>2, <3>3 DEF GetTakes, Pending!Take, down
    <3> QED BY <3>1, <3>4 DEF Pending!Next
  <2>4. ASSUME NEW w \in Workers, Done(w)
        PROVE  Pending!Next
    <3>1. item[w] # NoKey
      BY <2>4 DEF Done, IInv, HeldWhileWorking, Holding
    <3>2. Pending!Release(w)
      BY <2>4, <3>1 DEF Done, Pending!Release, down
    <3> QED BY <3>2 DEF Pending!Next
  <2>5. ASSUME NEW w \in Workers,
               \/ Launch(w) \/ GetWaits(w) \/ GetEnds(w) \/ Sync(w)
               \/ AddRateLimited(w) \/ AddAfter(w)
        PROVE  UNCHANGED <<dirty, item, shuttingDown>>
    BY <2>5 DEF Launch, GetWaits, GetEnds, Sync, AddRateLimited, AddAfter,
                AddAfterSends, AddAfterStops, core, down, workers
  <2>6. CASE ShutDown
    BY <2>6 DEF ShutDown, Pending!Next, Pending!Close, workers
  <2>7. CASE LoopEnds \/ CloseStopCh \/ UNCHANGED vars
    BY <2>7 DEF LoopEnds, CloseStopCh, vars, core, down, workers
  <2> QED BY <2>1, <2>2, <2>3, <2>4, <2>5, <2>6, <2>7 DEF Next, Work, Get
<1> QED BY InitIInv, NextIInv, <1>1, <1>3, PTL DEF Spec, ImplementsPendingWork, Pending!Spec

-----------------------------------------------------------------------------
(* What PendingWork itself guarantees, and so the queue.                    *)

\* A key leaves the dirty set only into the hands of a worker that had none.
TakenNotLost ==
  \A k \in dirty \ dirty' : \E w \in Workers : item[w] = NoKey /\ item'[w] = k

\* The types the promise of PendingWork needs.
PendingInv == item \in [Workers -> Keys \cup {NoKey}] /\ OneHolder

\* Whoever keeps to PendingWork never gives a key to two workers and loses none.
LEMMA PendingWorkPromises ==
  Pending!Spec => []OneHolder /\ [][TakenNotLost]_(Pending!vars)
<1> USE QueueAssumption
<1>1. Pending!Init => PendingInv
  BY DEF Pending!Init, PendingInv, OneHolder
<1>2. PendingInv /\ [Pending!Next]_(Pending!vars) => PendingInv' /\ [TakenNotLost]_(Pending!vars)
  <2> SUFFICES ASSUME PendingInv, [Pending!Next]_(Pending!vars)
               PROVE  PendingInv' /\ (TakenNotLost \/ UNCHANGED Pending!vars)
    OBVIOUS
  <2>1. ASSUME NEW w \in Workers, NEW k \in Keys, Pending!Take(w, k)
        PROVE  PendingInv' /\ TakenNotLost
    <3>1. item' = [item EXCEPT ![w] = k] /\ dirty' = dirty \ {k} /\ item[w] = NoKey
      BY <2>1 DEF Pending!Take
    <3>2. \A v \in Workers : item[v] # k
      BY <2>1 DEF Pending!Take
    <3>3. PendingInv'
      BY <3>1, <3>2 DEF PendingInv, OneHolder
    <3>4. item'[w] = k
      BY <3>1 DEF PendingInv
    <3> QED BY <3>1, <3>3, <3>4 DEF TakenNotLost
  <2>2. ASSUME NEW w \in Workers, Pending!Release(w)
        PROVE  PendingInv' /\ TakenNotLost
    BY <2>2 DEF Pending!Release, PendingInv, OneHolder, TakenNotLost
  <2>3. ASSUME NEW k \in Keys, Pending!Accept(k)
        PROVE  PendingInv' /\ TakenNotLost
    BY <2>3 DEF Pending!Accept, PendingInv, OneHolder, TakenNotLost
  <2>4. CASE Pending!Close
    BY <2>4 DEF Pending!Close, PendingInv, OneHolder, TakenNotLost
  <2>5. CASE UNCHANGED Pending!vars
    BY <2>5 DEF Pending!vars, PendingInv, OneHolder
  <2> QED BY <2>1, <2>2, <2>3, <2>4, <2>5 DEF Pending!Next
<1>3. PendingInv => OneHolder
  BY DEF PendingInv
<1> QED BY <1>1, <1>2, <1>3, PTL DEF Pending!Spec

\* No two workers have the same key in process, however many Run launches and
\* however often a key is added or retried meanwhile (queue.go:108-179).
THEOREM OneWorkerPerKey == Spec => []OneHolder
BY QueueImplementsPendingWork, PendingWorkPromises, PTL DEF ImplementsPendingWork

\* A key that has been accepted stays dirty until a free worker takes it, after
\* the shutdown as before it (queue.go:108-184).
THEOREM NoKeyIsLost == Spec => [][TakenNotLost]_(Pending!vars)
BY QueueImplementsPendingWork, PendingWorkPromises, PTL DEF ImplementsPendingWork

=============================================================================
