---------------------------- MODULE PendingWork ----------------------------
(***************************************************************************)
(* What the work queue promises to the controller: a key that was added is *)
(* pending until a worker takes it, a key added while a worker holds it is *)
(* pending again, and no two workers hold one key.  In which order keys    *)
(* are taken is left open.                                                 *)
(***************************************************************************)
CONSTANTS Keys,      \* namespace/name of pods
          Workers,
          NoKey      \* what an idle worker holds

VARIABLES pending,   \* the keys somebody still has to work on
          held,      \* the key each worker works on
          closed     \* nothing is accepted any more

vars == <<pending, held, closed>>

Init ==
  /\ pending = {}
  /\ held = [w \in Workers |-> NoKey]
  /\ closed = FALSE

Accept(k) ==
  /\ ~closed
  /\ pending' = pending \cup {k}
  /\ UNCHANGED <<held, closed>>

Take(w, k) ==
  /\ held[w] = NoKey
  /\ k \in pending
  /\ \A v \in Workers : held[v] # k
  /\ pending' = pending \ {k}
  /\ held' = [held EXCEPT ![w] = k]
  /\ UNCHANGED closed

Release(w) ==
  /\ held[w] # NoKey
  /\ held' = [held EXCEPT ![w] = NoKey]
  /\ UNCHANGED <<pending, closed>>

Close ==
  /\ closed' = TRUE
  /\ UNCHANGED <<pending, held>>

Next ==
  \/ \E k \in Keys : Accept(k)
  \/ \E w \in Workers, k \in Keys : Take(w, k)
  \/ \E w \in Workers : Release(w)
  \/ Close

Spec == Init /\ [][Next]_vars
=============================================================================
