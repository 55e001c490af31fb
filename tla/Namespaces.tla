----------------------------- MODULE Namespaces -----------------------------
(***************************************************************************)
(* The namespace handlers: every namespace gets the NetworkAttachmentDefi- *)
(* nition that the CNI plugin looks up in it.  The informer lists, then    *)
(* watches; its notifications reach onNamespaceAdd and onNamespaceDelete   *)
(* one after the other.  A create or delete that fails is logged and no    *)
(* more.  Process says when the informer runs.                             *)
(***************************************************************************)
EXTENDS Naturals, SequencesExt

CONSTANTS Namespace,    \* names of namespaces
          MaxUserSteps, \* namespaces users create and delete, definitions they create
          MaxFailures,  \* creates and deletes of the handlers that fail
          MaxBreaks,    \* watches that end and are followed by a new list
          HiddenChanges \* may a namespace be replaced while nobody watches?

VARIABLES namespaces,  \* namespaces the API server has
          defs,        \* namespaces with a definition in them
          store,       \* namespaces the informer knows
          listed,      \* the informer has listed and watches
          notes,       \* notifications on their way to the handlers
          failed,      \* namespaces whose create the log says has failed
          userSteps, failures, breaks

cluster == <<namespaces, defs>>
memory == <<store, listed, notes, failed>>
counters == <<userSteps, failures, breaks>>
vars == <<cluster, memory, counters>>

Note == [type : {"Added", "Deleted", "Tombstone"}, name : Namespace]

TypeOK ==
  /\ namespaces \subseteq Namespace
  /\ defs \subseteq Namespace
  /\ store \subseteq Namespace
  /\ listed \in BOOLEAN
  /\ notes \in Seq(Note)
  /\ failed \subseteq Namespace
  /\ userSteps \in 0 .. MaxUserSteps
  /\ failures \in 0 .. MaxFailures
  /\ breaks \in 0 .. MaxBreaks

\* What a new process knows.
Fresh ==
  /\ store = {}
  /\ listed = FALSE
  /\ notes = <<>>
  /\ failed = {}

Init ==
  /\ namespaces \in SUBSET Namespace
  /\ defs = {}
  /\ Fresh
  /\ userSteps = 0
  /\ failures = 0
  /\ breaks = 0

note(type, n) == [type |-> type, name |-> n]

-----------------------------------------------------------------------------
(* Users and the namespace controller.  What is in a namespace goes with it.*)

\* A watching informer sees every change, in order.
Watched(type, n) ==
  IF listed
  THEN /\ notes' = Append(notes, note(type, n))
       /\ store' = IF type = "Added" THEN store \cup {n} ELSE store \ {n}
  ELSE UNCHANGED <<notes, store>>

CreateNamespace(n) ==
  /\ n \notin namespaces
  /\ n \in store /\ ~listed => HiddenChanges
  /\ namespaces' = namespaces \cup {n}
  /\ Watched("Added", n)
  /\ UNCHANGED defs

DeleteNamespace(n) ==
  /\ n \in namespaces
  /\ namespaces' = namespaces \ {n}
  /\ defs' = defs \ {n}
  /\ Watched("Deleted", n)

\* Somebody else writes the definition first.
CreateDefinition(n) ==
  /\ n \in namespaces \ defs
  /\ defs' = defs \cup {n}
  /\ UNCHANGED <<namespaces, notes, store>>

Users ==
  /\ userSteps < MaxUserSteps
  /\ userSteps' = userSteps + 1
  /\ \E n \in Namespace : CreateNamespace(n) \/ DeleteNamespace(n) \/ CreateDefinition(n)
  /\ UNCHANGED <<listed, failed, failures, breaks>>

-----------------------------------------------------------------------------
(* The informer.  An object it knew and finds again in a list is an update, *)
(* for which there is no handler, whether it is the same object or not; one *)
(* it does not find is announced with a tombstone.                          *)

List ==
  /\ ~listed
  /\ listed' = TRUE
  /\ notes' = notes \o SetToSeq({note("Added", n) : n \in namespaces \ store}
                               \cup {note("Tombstone", n) : n \in store \ namespaces})
  /\ store' = namespaces
  /\ UNCHANGED <<cluster, failed, counters>>

WatchBreaks ==
  /\ listed
  /\ breaks < MaxBreaks
  /\ breaks' = breaks + 1
  /\ listed' = FALSE
  /\ UNCHANGED <<cluster, store, notes, failed, userSteps, failures>>

-----------------------------------------------------------------------------
(* The handlers.                                                            *)

\* A variant that handles the latest notification first.
HandlingLatest(type, n) ==
  /\ notes # <<>>
  /\ Last(notes) = note(type, n)
  /\ notes' = Front(notes)
  /\ UNCHANGED <<namespaces, store, listed, userSteps, breaks>>

Handling(type, n) ==
  /\ notes # <<>>
  /\ Head(notes) = note(type, n)
  /\ notes' = Tail(notes)
  /\ UNCHANGED <<namespaces, store, listed, userSteps, breaks>>

Fails ==
  /\ failures < MaxFailures
  /\ failures' = failures + 1

\* The create succeeds, finds the definition, finds no namespace, or fails.
OnNamespaceAdd(n) ==
  /\ Handling("Added", n)
  /\ \/ /\ n \in namespaces
        /\ defs' = defs \cup {n}
        /\ failed' = failed \ {n}
        /\ UNCHANGED failures
     \/ /\ n \notin namespaces
        /\ failed' = failed \cup {n}
        /\ UNCHANGED <<defs, failures>>
     \/ /\ Fails
        /\ failed' = failed \cup {n}
        /\ UNCHANGED defs

\* The delete, which can only meet the definition of a later namespace; its
\* error is logged, not kept.
OnNamespaceDelete(n) ==
  /\ Handling("Deleted", n)
  /\ \/ defs' = defs \ {n} /\ UNCHANGED failures
     \/ Fails /\ UNCHANGED defs
  /\ UNCHANGED failed

\* A tombstone is not a Namespace: onNamespaceDelete returns.
IgnoreTombstone(n) ==
  /\ Handling("Tombstone", n)
  /\ UNCHANGED <<defs, failed, failures>>

Handlers ==
  \E n \in Namespace : OnNamespaceAdd(n) \/ OnNamespaceDelete(n) \/ IgnoreTombstone(n)

-----------------------------------------------------------------------------
(* The process ends, and a new one starts on the same cluster with nothing. *)
Forgotten ==
  /\ store' = {}
  /\ listed' = FALSE
  /\ notes' = <<>>
  /\ failed' = {}
  /\ UNCHANGED <<cluster, counters>>

Next == Users \/ List \/ WatchBreaks \/ Handlers \/ Forgotten

Spec == Init /\ [][Next]_vars

-----------------------------------------------------------------------------
(* Properties.                                                              *)

Announced(n) == \E i \in DOMAIN notes : notes[i] = note("Added", n)

\* A namespace without its definition is still to be listed, is announced to
\* onNamespaceAdd, or its create has failed and only the log knows: the delete
\* of an earlier namespace of that name never takes the definition for good.
MissingIsPending ==
  listed => \A n \in namespaces \ defs : Announced(n) \/ n \in failed
=============================================================================
