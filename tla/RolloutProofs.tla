--------------------------- MODULE RolloutProofs ---------------------------
(***************************************************************************)
(* What a pass of CreateDeployment says, for any numbers of nodes.         *)
(***************************************************************************)
EXTENDS Rollout, TLAPS

\* The status never counted more pods than were ready together.
StatusOfPods == Sum <= peak.all /\ readyReplicas <= peak.all

\* Pods of another template are there only where they were found.
StatusOfOwnPods ==
    found # "other" =>
        /\ template = "own" /\ ready["old"] = 0
        /\ ready["own"] <= peak.own /\ readyReplicas <= peak.own

\* Whose number of replicas it is.
AskedFor ==
    /\ asked => replicas = ReplicaCount(nodes)
    /\ exists /\ ~asked => found # "nothing"

IInv == TypeOK /\ StatusOfPods /\ StatusOfOwnPods /\ AskedFor /\ PassMeansPodsRan

LEMMA NodeCountsNat ==
    ASSUME NEW n \in NodeCounts
    PROVE  n \in Nat /\ ReplicaCount(n) \in Nat \ {0}
BY NodeCountsAssumption DEF ReplicaCount

LEMMA EarlierNat == Earlier \subseteq Nat
<1> SUFFICES ASSUME NEW n \in NodeCounts, NEW k \in 0..ReplicaCount(n) PROVE k \in Nat
  BY DEF Earlier
<1> QED
  BY NodeCountsNat

LEMMA LargerFacts ==
    ASSUME NEW m \in Nat, NEW n \in Nat
    PROVE  Larger(m, n) \in Nat /\ m <= Larger(m, n) /\ n <= Larger(m, n)
BY DEF Larger

LEMMA InitInv ==
    ASSUME Init
    PROVE  IInv
<1>1. /\ nodes \in NodeCounts /\ found \in {"nothing", "same", "other"} /\ phase = "create"
      /\ exists \in BOOLEAN /\ exists = (found # "nothing") /\ inflight = FALSE /\ asked = FALSE
      /\ template = (IF found = "other" THEN "old" ELSE "own") /\ template \in Templates
  BY DEF Init, Templates
<1>2. dying \in BOOLEAN
  BY <1>1 DEF Init
<1>3. replicas \in Nat \ {0}
  BY NodeCountsNat DEF Init
<1>4. ready \in [Templates -> Nat] /\ readyReplicas \in Nat
  <2> DEFINE S == IF exists THEN Earlier ELSE {0}
  <2>1. ready \in [Templates -> S] /\ readyReplicas \in S
    BY DEF Init
  <2>2. S \subseteq Nat
    BY EarlierNat
  <2> HIDE DEF S
  <2> QED
    BY <2>1, <2>2
<1>5. ready["own"] \in Nat /\ ready["old"] \in Nat /\ Sum \in Nat
  BY <1>4 DEF Templates, Sum
<1>6. found # "other" => ready["old"] = 0 /\ Sum = ready["own"]
  BY <1>5 DEF Init, Sum
<1>7. peak \in [own : Nat, all : Nat]
  BY <1>4, <1>5, LargerFacts DEF Init
<1>8. /\ peak.all = Larger(Sum, readyReplicas)
      /\ found # "other" => peak.own = Larger(Sum, readyReplicas)
  BY DEF Init
<1>9. StatusOfPods /\ StatusOfOwnPods
  BY <1>1, <1>4, <1>5, <1>6, <1>8, LargerFacts DEF StatusOfPods, StatusOfOwnPods
<1> QED
  BY <1>1, <1>2, <1>3, <1>4, <1>7, <1>9 DEF IInv, TypeOK, AskedFor, PassMeansPodsRan

LEMMA InvStep ==
    ASSUME IInv, [Next]_vars
    PROVE  IInv'
<1> USE DEF IInv, TypeOK, StatusOfPods, StatusOfOwnPods, AskedFor, PassMeansPodsRan, spec, pods
<1>1. /\ ReplicaCount(nodes) \in Nat \ {0} /\ "own" \in Templates
      /\ ready["own"] \in Nat /\ ready["old"] \in Nat /\ Sum \in Nat
      /\ peak.own \in Nat /\ peak.all \in Nat
  BY NodeCountsNat DEF Templates, Sum
<1>2. CASE CreateStored \/ UpdateStored
  BY <1>1, <1>2 DEF CreateStored, UpdateStored, Stored, Sum
<1>3. CASE CreateFails \/ UpdateFails \/ PollFails
  BY <1>1, <1>3 DEF CreateFails, UpdateFails, PollFails, Sum
<1>4. CASE PodsReady
  BY <1>1, <1>4 DEF PodsReady, Sum
<1>5. CASE CreateArrives
  <2>1. CASE Stored
    BY <1>1, <1>5, <2>1 DEF CreateArrives, Stored, Over, Sum
  <2>2. CASE UNCHANGED <<spec, pods>>
    BY <1>1, <1>5, <2>2 DEF CreateArrives, Over, Sum
  <2> QED
    BY <1>5, <2>1, <2>2 DEF CreateArrives
<1>6. CASE PodReady
  <2>1. /\ ready' \in [Templates -> Nat]
        /\ ready'["own"] \in Nat /\ ready'["old"] \in Nat /\ Sum' \in Nat
        /\ template = "own" => ready'["old"] = ready["old"]
    BY <1>1, <1>6 DEF PodReady, Templates, Sum
  <2>2. /\ peak' \in [own : Nat, all : Nat]
        /\ peak'.all = Larger(peak.all, Sum') /\ peak'.own = Larger(peak.own, ready'["own"])
    BY <1>1, <1>6, <2>1, LargerFacts DEF PodReady
  <2>3. /\ Sum' <= peak'.all /\ peak.all <= peak'.all
        /\ ready'["own"] <= peak'.own /\ peak.own <= peak'.own
    BY <1>1, <2>1, <2>2, LargerFacts
  <2>4. readyReplicas <= peak'.all /\ (found # "other" => readyReplicas <= peak'.own)
    BY <1>1, <2>2, <2>3
  <2> QED
    BY <1>6, <2>1, <2>2, <2>3, <2>4 DEF PodReady, Over
<1>7. ASSUME NEW t \in Templates, PodGone(t) PROVE IInv'
  <2>1. /\ ready' \in [Templates -> Nat]
        /\ ready'["own"] <= ready["own"] /\ ready'["old"] <= ready["old"]
        /\ ready'["own"] \in Nat /\ ready'["old"] \in Nat
    BY <1>1, <1>7 DEF PodGone, Templates
  <2>2. Sum' <= peak'.all
    BY <1>1, <1>7, <2>1 DEF PodGone, Sum
  <2> QED
    BY <1>1, <1>7, <2>1, <2>2 DEF PodGone, Over
<1>8. CASE UpdateStatus
  BY <1>1, <1>8 DEF UpdateStatus, Sum, Over
<1>9. CASE Gone
  <2>1. /\ ready' \in [Templates -> Nat] /\ ready'["own"] = 0 /\ ready'["old"] = 0
        /\ readyReplicas' = 0
    BY <1>9 DEF Gone, NoPods, Templates
  <2>2. Sum' = 0
    BY <2>1 DEF Sum
  <2>3. /\ UNCHANGED <<found, nodes, phase, template, replicas, asked, peak, inflight>>
        /\ exists' = FALSE /\ dying' = FALSE /\ phase # "passed"
    BY <1>9 DEF Gone, Over
  <2>4. StatusOfPods' /\ StatusOfOwnPods'
    BY <1>1, <2>1, <2>2, <2>3
  <2> QED
    BY <2>1, <2>3, <2>4
<1>10. CASE UNCHANGED vars
  BY <1>10 DEF vars, Sum
<1> QED
  BY <1>2, <1>3, <1>4, <1>5, <1>6, <1>7, <1>8, <1>9, <1>10 DEF Next, Done

(***************************************************************************)
(* For any numbers of nodes, a pass means that at least one pod, and as    *)
(* many as the deployment asks for, ran together; that they were of the    *)
(* check's own template unless another was found; and that they were as    *)
(* many as the check wanted unless the server never stored what it asked.  *)
(***************************************************************************)
THEOREM PassProvesPods == Spec => []PassMeansPodsRan
<1>1. Init => IInv
  BY InitInv
<1>2. IInv /\ [Next]_vars => IInv'
  BY InvStep
<1>3. IInv => PassMeansPodsRan
  BY DEF IInv
<1> QED
  BY <1>1, <1>2, <1>3, PTL DEF Spec

(***************************************************************************)
(* Every state is well typed; in particular a deployment always asks for   *)
(* at least one replica, so that a status of zero is never enough.         *)
(***************************************************************************)
THEOREM TypeCorrect == Spec => []TypeOK
<1>1. Init => IInv
  BY InitInv
<1>2. IInv /\ [Next]_vars => IInv'
  BY InvStep
<1>3. IInv => TypeOK
  BY DEF IInv
<1> QED
  BY <1>1, <1>2, <1>3, PTL DEF Spec
=============================================================================
