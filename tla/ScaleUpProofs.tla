--------------------------- MODULE ScaleUpProofs ---------------------------
(***************************************************************************)
(* The cluster-autoscaler check passes only after a scale-up, for every    *)
(* finite set of nodes.                                                    *)
(***************************************************************************)
EXTENDS ScaleUp, FiniteSetTheorems, TLAPS

Running == {p \in DOMAIN pods : pods[p] # Pending}

LEMMA NodesFinite ==
    ASSUME NEW S \in SUBSET Nodes
    PROVE  IsFiniteSet(S) /\ Cardinality(S) \in Nat
BY NodesAssumption, FS_Subset, FS_CardinalityType

LEMMA PodsFinite ==
    ASSUME NEW count \in Nat
    PROVE  IsFiniteSet(PodsOf(count)) /\ Cardinality(PodsOf(count)) = count
BY FS_Interval DEF PodsOf

\* When every pod runs, one of them runs on a node that was not listed.
LEMMA AllRunningMeansJoined ==
    ASSUME TypeOK, Scheduling, phase # "list", Cardinality(Running) = replicas
    PROVE  joined # {}
<1> SUFFICES ASSUME joined = {} PROVE FALSE
  OBVIOUS
<1>1. /\ replicas \in Nat /\ DOMAIN pods = PodsOf(replicas)
      /\ IsFiniteSet(PodsOf(replicas)) /\ Cardinality(PodsOf(replicas)) = replicas
      /\ IsFiniteSet(listed) /\ Cardinality(listed) \in Nat
      /\ replicas = Cardinality(listed) + 1
  BY PodsFinite, NodesFinite DEF TypeOK, Scheduling
<1>2. Running = DOMAIN pods
  <2>1. Running \in SUBSET PodsOf(replicas)
    BY <1>1 DEF Running
  <2> QED
    BY <1>1, <2>1, FS_Subset
<1>3. pods \in [PodsOf(replicas) -> listed]
  BY <1>1, <1>2 DEF Running, Scheduling, TypeOK
<1>4. \E p, q \in PodsOf(replicas) : p # q /\ pods[p] = pods[q]
  <2>1. Cardinality(listed) < Cardinality(PodsOf(replicas))
    BY <1>1
  <2> QED
    BY <1>1, <1>3, <2>1, FS_PigeonHole
<1> QED
  BY <1>1, <1>2, <1>4 DEF Running, Scheduling

LEMMA InitInv == Init => IInv
  BY DEF Init, IInv, TypeOK, Scheduling, StatusMeansScaledUp, PodsOf

LEMMA TypeStep ==
    ASSUME IInv, [Next]_vars
    PROVE  TypeOK'
<1> USE DEF TypeOK
<1>1. TypeOK
  BY DEF IInv
<1>2. CASE ListNodes
  <2>1. Cardinality(nodes) \in Nat
    BY <1>1, NodesFinite
  <2> QED
    BY <1>1, <1>2, <2>1 DEF ListNodes, ReplicaCount, PodsOf
<1>3. CASE PodsReady \/ UNCHANGED vars
  BY <1>1, <1>3 DEF PodsReady, vars
<1>4. CASE UpdateStatus
  <2>1. Running \in SUBSET PodsOf(replicas) /\ IsFiniteSet(PodsOf(replicas))
    BY <1>1, PodsFinite DEF Running
  <2>2. Cardinality(Running) \in Nat
    BY <2>1, FS_Subset, FS_CardinalityType
  <2> QED
    BY <1>1, <1>4, <2>2 DEF UpdateStatus, Running
<1>5. ASSUME NEW p \in DOMAIN pods, PodDies(p) PROVE TypeOK'
  BY <1>1, <1>5 DEF PodDies
<1>6. ASSUME NEW p \in DOMAIN pods, NEW n \in Nodes, Schedule(p, n) PROVE TypeOK'
  BY <1>1, <1>6 DEF Schedule
<1>7. ASSUME NEW n \in Nodes, NodeJoins(n) \/ NodeLeaves(n) PROVE TypeOK'
  BY <1>1, <1>7 DEF NodeJoins, NodeLeaves
<1> QED
  BY <1>2, <1>3, <1>4, <1>5, <1>6, <1>7 DEF Next

LEMMA SchedulingStep ==
    ASSUME IInv, [Next]_vars
    PROVE  Scheduling'
<1> USE DEF Scheduling
<1>1. TypeOK /\ Scheduling
  BY DEF IInv
<1>2. CASE ListNodes
  BY <1>1, <1>2 DEF ListNodes, ReplicaCount, TypeOK
<1>3. CASE PodsReady \/ UpdateStatus \/ UNCHANGED vars
  BY <1>1, <1>3 DEF PodsReady, UpdateStatus, vars
<1>4. ASSUME NEW p \in DOMAIN pods, PodDies(p) PROVE Scheduling'
  BY <1>1, <1>4 DEF PodDies, TypeOK
<1>5. ASSUME NEW p \in DOMAIN pods, NEW n \in Nodes, Schedule(p, n) PROVE Scheduling'
  BY <1>1, <1>5 DEF Schedule, Schedulable, TypeOK
<1>6. ASSUME NEW n \in Nodes, NodeJoins(n) \/ NodeLeaves(n) PROVE Scheduling'
  BY <1>1, <1>6 DEF NodeJoins, NodeLeaves, TypeOK
<1> QED
  BY <1>2, <1>3, <1>4, <1>5, <1>6 DEF Next

LEMMA StatusStep ==
    ASSUME IInv, [Next]_vars
    PROVE  StatusMeansScaledUp'
<1> USE DEF StatusMeansScaledUp
<1>1. TypeOK /\ Scheduling /\ StatusMeansScaledUp
  BY DEF IInv
<1>2. CASE ListNodes
  <2>1. Cardinality(nodes) \in Nat
    BY <1>1, NodesFinite DEF TypeOK
  <2> QED
    BY <1>1, <1>2, <2>1 DEF ListNodes, ReplicaCount
<1>3. CASE PodsReady \/ UNCHANGED vars
  BY <1>1, <1>3 DEF PodsReady, vars
<1>4. CASE UpdateStatus
  BY <1>1, <1>4, AllRunningMeansJoined DEF UpdateStatus, Running
<1>5. ASSUME NEW p \in DOMAIN pods, PodDies(p) PROVE StatusMeansScaledUp'
  BY <1>1, <1>5 DEF PodDies
<1>6. ASSUME NEW p \in DOMAIN pods, NEW n \in Nodes, Schedule(p, n)
      PROVE  StatusMeansScaledUp'
  BY <1>1, <1>6 DEF Schedule
<1>7. ASSUME NEW n \in Nodes, NodeJoins(n) \/ NodeLeaves(n) PROVE StatusMeansScaledUp'
  BY <1>1, <1>7 DEF NodeJoins, NodeLeaves
<1> QED
  BY <1>2, <1>3, <1>4, <1>5, <1>6, <1>7 DEF Next

LEMMA Invariance == Spec => []IInv
<1>1. Init => IInv
  BY InitInv
<1>2. IInv /\ [Next]_vars => IInv'
  BY TypeStep, SchedulingStep, StatusStep DEF IInv
<1> QED
  BY <1>1, <1>2, PTL DEF Spec

(***************************************************************************)
(* Every state is well typed: the check asks for at least one replica, and *)
(* its pods are on nodes or pending.                                       *)
(***************************************************************************)
THEOREM TypeCorrect == Spec => []TypeOK
<1>1. IInv => TypeOK
  BY DEF IInv
<1> QED
  BY <1>1, Invariance, PTL

(***************************************************************************)
(* Running pods are spread over different nodes, each listed by the check  *)
(* or joined since, whatever nodes and pods come and go.                   *)
(***************************************************************************)
THEOREM PodsAreSpread == Spec => []Scheduling
<1>1. IInv => Scheduling
  BY DEF IInv
<1> QED
  BY <1>1, Invariance, PTL

(***************************************************************************)
(* The check passes only if a node joined after the nodes were listed.     *)
(* One pod more than listed nodes, at most one pod per node: by the        *)
(* pigeonhole principle a status that counts every pod counts one on a     *)
(* node that was not listed.                                               *)
(***************************************************************************)
THEOREM PassProvesScaleUp == Spec => []PassMeansScaledUp
<1>1. IInv => PassMeansScaledUp
  BY DEF IInv, StatusMeansScaledUp, PassMeansScaledUp
<1> QED
  BY <1>1, Invariance, PTL
=============================================================================
