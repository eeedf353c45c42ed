------------------------------ MODULE ScaleUp ------------------------------
(***************************************************************************)
(* What the cluster-autoscaler check concludes from its deployment.  It    *)
(* lists the nodes with its label, asks for one pod more than there are,   *)
(* at most one per node and only on such nodes, and passes when the        *)
(* deployment says that all its pods are ready.  Meanwhile nodes come and  *)
(* go, pods with them, and the deployment's status lags behind.            *)
(***************************************************************************)
EXTENDS Naturals, FiniteSets

CONSTANTS Nodes,     \* the nodes that may ever carry the label
          Pending    \* where a pod is that no node runs

ASSUME NodesAssumption == IsFiniteSet(Nodes) /\ Pending \notin Nodes

VARIABLES
    nodes,           \* the nodes that carry the label
    phase,           \* of the check: "list", "wait" or "passed"
    listed,          \* what Nodes().List answered
    replicas,        \* ReplicaCount, the deployment's Spec.Replicas
    pods,            \* where each pod of the deployment is
    readyReplicas,   \* the deployment's Status.ReadyReplicas
    joined           \* history: nodes that joined after the list

vars == <<nodes, phase, listed, replicas, pods, readyReplicas, joined>>

\* Mutant: as many pods as nodes.
OnePerNode(n) == n

\* replicas is the number of nodes + 1.
ReplicaCount(n) == n + 1

PodsOf(count) == 1..count

Init ==
    /\ nodes \in SUBSET Nodes
    /\ phase = "list"
    /\ listed = {} /\ joined = {}
    /\ replicas = 1
    /\ pods = [p \in PodsOf(1) |-> Pending]
    /\ readyReplicas = 0

-----------------------------------------------------------------------------
\* Check: the list, and the deployment created with the count it gave.
ListNodes ==
    /\ phase = "list"
    /\ listed' = nodes
    /\ replicas' = ReplicaCount(Cardinality(nodes))
    /\ pods' = [p \in PodsOf(replicas') |-> Pending]
    /\ phase' = "wait"
    /\ UNCHANGED <<nodes, readyReplicas, joined>>

\* CreateDeployment's condition.
PodsReady ==
    /\ phase = "wait"
    /\ readyReplicas = replicas
    /\ phase' = "passed"
    /\ UNCHANGED <<nodes, listed, replicas, pods, readyReplicas, joined>>

\* Mutant: the anti-affinity is only preferred.
AnyLabelledNode(p, n) == n \in nodes

\* The node affinity and the pod anti-affinity by hostname, both required.
Schedulable(p, n) == n \in nodes /\ \A q \in DOMAIN pods : pods[q] # n

Schedule(p, n) ==
    /\ phase # "list"
    /\ pods[p] = Pending
    /\ Schedulable(p, n)
    /\ pods' = [pods EXCEPT ![p] = n]
    /\ UNCHANGED <<nodes, phase, listed, replicas, readyReplicas, joined>>

\* The deployment controller counts.
UpdateStatus ==
    /\ phase # "list"
    /\ readyReplicas' = Cardinality({p \in DOMAIN pods : pods[p] # Pending})
    /\ UNCHANGED <<nodes, phase, listed, replicas, pods, joined>>

NodeJoins(n) ==
    /\ n \notin nodes
    /\ nodes' = nodes \cup {n}
    /\ joined' = IF phase = "list" THEN joined ELSE joined \cup {n}
    /\ UNCHANGED <<phase, listed, replicas, pods, readyReplicas>>

\* A node goes with its pod, or only loses the label: affinity is ignored
\* during execution.
NodeLeaves(n) ==
    /\ n \in nodes
    /\ nodes' = nodes \ {n}
    /\ \/ UNCHANGED pods
       \/ pods' = [p \in DOMAIN pods |-> IF pods[p] = n THEN Pending ELSE pods[p]]
    /\ UNCHANGED <<phase, listed, replicas, readyReplicas, joined>>

\* A pod that is deleted is replaced by a pending one.
PodDies(p) ==
    /\ phase # "list"
    /\ pods[p] # Pending
    /\ pods' = [pods EXCEPT ![p] = Pending]
    /\ UNCHANGED <<nodes, phase, listed, replicas, readyReplicas, joined>>

Next == \/ ListNodes \/ PodsReady \/ UpdateStatus
        \/ \E p \in DOMAIN pods : PodDies(p) \/ \E n \in Nodes : Schedule(p, n)
        \/ \E n \in Nodes : NodeJoins(n) \/ NodeLeaves(n)

Spec == Init /\ [][Next]_vars

-----------------------------------------------------------------------------
TypeOK ==
    /\ nodes \subseteq Nodes /\ listed \subseteq Nodes /\ joined \subseteq Nodes
    /\ phase \in {"list", "wait", "passed"}
    /\ replicas \in Nat \ {0}
    /\ pods \in [PodsOf(replicas) -> Nodes \cup {Pending}]
    /\ readyReplicas \in Nat

(***************************************************************************)
(* The check passes only if a node joined after it had listed them: the    *)
(* cluster was scaled up, whatever nodes and pods came and went meanwhile  *)
(* and however stale the status was that it read.                          *)
(***************************************************************************)
PassMeansScaledUp == phase = "passed" => joined # {}

(***************************************************************************)
(* Running pods are on different nodes, each one listed or joined since,   *)
(* and there is one more pod than there were nodes.                        *)
(***************************************************************************)
Scheduling ==
    /\ phase = "list" => \A p \in DOMAIN pods : pods[p] = Pending
    /\ phase # "list" => /\ nodes \subseteq listed \cup joined
                         /\ replicas = Cardinality(listed) + 1
    /\ \A p \in DOMAIN pods : pods[p] # Pending => pods[p] \in listed \cup joined
    /\ \A p, q \in DOMAIN pods : pods[p] = pods[q] /\ pods[p] # Pending => p = q

\* A status that counts every pod was written after a node had joined.
StatusMeansScaledUp ==
    /\ phase = "list" => readyReplicas = 0
    /\ phase # "list" /\ readyReplicas = replicas => joined # {}
    /\ phase = "passed" => joined # {}

IInv == TypeOK /\ Scheduling /\ StatusMeansScaledUp
=============================================================================
