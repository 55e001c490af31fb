--------------------------- MODULE MCServiceSync ---------------------------
(***************************************************************************)
(* Two workloads, a bare ReplicaSet and a pod nobody owns, for ServiceSync. *)
(***************************************************************************)
EXTENDS ServiceSync

ref(kind, name) == [kind |-> kind, name |-> name]
svc(name, ip, port, target) ==
  [name |-> name, clusterIP |-> ip, port |-> port, targetPort |-> target,
   annotated |-> FALSE]

\* dp comes through a ReplicaSet, sp has a reference that is skipped, bp belongs
\* to a ReplicaSet of nobody, xp to one of a kind that is refused.  sp has a
\* static address, as the pods of a StatefulSet often do.
MCPods == {"dp", "sp", "bp", "xp"}
MCStuck == {"sp"}
MCOwnerRefs ==
  [p \in MCPods |->
    CASE p = "dp" -> <<ref("ReplicaSet", "web-1")>>
      [] p = "sp" -> <<ref("Node", "n"), ref("StatefulSet", "db")>>
      [] p = "bp" -> <<ref("ReplicaSet", "bare")>>
      [] p = "xp" -> <<ref("ReplicaSet", "odd")>>]
MCReplicaSets == {"web-1", "bare", "odd"}
MCRSOwnerRefs ==
  [r \in MCReplicaSets |->
    CASE r = "web-1" -> <<ref("Deployment", "web")>>
      [] r = "bare" -> <<>>
      [] r = "odd" -> <<ref("Rollout", "web")>>]
MCWorkloads == {ref("Deployment", "web"), ref("StatefulSet", "db")}
MCTwin == [n \in {"web", "db", "web-macvlan"} |->
            CASE n = "web" -> "web-macvlan"
              [] n = "db" -> "db-macvlan"
              [] n = "web-macvlan" -> "web-macvlan-macvlan"]

\* Headless ones, one with a cluster address, one without a port to spare, and
\* one that a user gave the name of a twin.
MCUserServices ==
  {svc("web", "None", 1, Named), svc("web", "10.0.0.1", 1, 1), svc("web", "None", 3, 1),
   svc("db", "None", 2, 2), svc("web-macvlan", "None", 1, 1)}
=============================================================================
