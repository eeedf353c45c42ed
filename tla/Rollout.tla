------------------------------ MODULE Rollout ------------------------------
(***************************************************************************)
(* What CreateDeployment may conclude from the status of the deployment it *)
(* polls, in the fluent check, whose namespace may have been used before.  *)
(* It creates the deployment, updates the one it finds, or goes on without *)
(* either, and returns when Status.ReadyReplicas equals Spec.Replicas.     *)
(* The status counts the ready pods of every template the deployment had,  *)
(* and is behind.                                                          *)
(***************************************************************************)
EXTENDS Naturals

CONSTANT NodeCounts   \* how many nodes there may be, now and in earlier runs

ASSUME NodeCountsAssumption == NodeCounts \subseteq Nat

VARIABLES
    found,      \* "nothing", or a deployment of an earlier run with the "same"
                \* template or an "other" one (another version of kibertas)
    nodes,      \* how many nodes Nodes().List answered
    phase,      \* of CreateDeployment
    exists,     \* there is a deployment
    dying,      \* ... which is being deleted
    template,   \* the template of its Spec
    replicas,   \* Spec.Replicas
    ready,      \* its ready pods, by template
    readyReplicas,   \* Status.ReadyReplicas
    inflight,   \* a create that was given up may still reach the server
    asked,      \* history: the server has stored the Spec of this check
    peak        \* history: the most pods that were ready at one time, of the
                \* check's own template and in all

spec == <<exists, dying, template, replicas, asked>>
pods == <<ready, readyReplicas, peak>>
vars == <<found, nodes, phase, spec, pods, inflight>>

\* The template of createDeploymentObject, and another version's.
Templates == {"own", "old"}

\* Mutant: no pod for less than three nodes.
OneInThree(n) == n \div 3

ReplicaCount(n) == (n \div 3) + 1

Sum == ready["own"] + ready["old"]

NoPods == [t \in Templates |-> 0]

Larger(m, n) == IF m > n THEN m ELSE n

\* How many pods earlier runs may have had.
Earlier == UNION {0..ReplicaCount(n) : n \in NodeCounts}

\* The pods that earlier runs left, and what was said of them: a status may
\* count pods that are gone, and a template that is gone.
Init ==
    /\ nodes \in NodeCounts
    /\ found \in {"nothing", "same", "other"}
    /\ exists = (found # "nothing")
    /\ dying \in IF exists THEN BOOLEAN ELSE {FALSE}
    /\ template = IF found = "other" THEN "old" ELSE "own"
    /\ replicas \in {ReplicaCount(n) : n \in NodeCounts}
    /\ ready \in [Templates -> IF exists THEN Earlier ELSE {0}]
    /\ found # "other" => ready["old"] = 0
    /\ found = "other" => ready["own"] = 0
    /\ readyReplicas \in IF exists THEN Earlier ELSE {0}
    /\ peak = [all |-> Larger(Sum, readyReplicas),
               own |-> IF found = "other" THEN 0 ELSE Larger(Sum, readyReplicas)]
    /\ inflight = FALSE /\ asked = FALSE
    /\ phase = "create"

-----------------------------------------------------------------------------
\* The server stores the Spec of the check in a new deployment.
Stored ==
    /\ ~exists
    /\ exists' = TRUE /\ dying' = FALSE
    /\ template' = "own" /\ replicas' = ReplicaCount(nodes) /\ asked' = TRUE
    /\ UNCHANGED pods

\* Create, answered or not: the error of one that was stored is only logged.
CreateStored ==
    /\ phase = "create"
    /\ Stored
    /\ phase' = "poll"
    /\ UNCHANGED <<found, nodes, inflight>>

\* The other errors of Create are only logged too: the poll goes on over what
\* there is, or comes to be.
CreateFails ==
    /\ phase = "create"
    /\ inflight' \in BOOLEAN
    /\ phase' = "poll"
    /\ UNCHANGED <<found, nodes, spec, pods>>

\* Mutant: the Update keeps the number of replicas that it finds.
UpdateKeepsReplicas ==
    /\ phase = "create"
    /\ exists
    /\ template' = "own" /\ asked' = TRUE
    /\ phase' = "poll"
    /\ UNCHANGED <<found, nodes, exists, dying, replicas, pods, inflight>>

\* AlreadyExists: Update changes the Spec and leaves the status.
UpdateStored ==
    /\ phase = "create"
    /\ exists
    /\ template' = "own" /\ replicas' = ReplicaCount(nodes) /\ asked' = TRUE
    /\ phase' = "poll"
    /\ UNCHANGED <<found, nodes, exists, dying, pods, inflight>>

\* Its error is returned.
UpdateFails ==
    /\ phase = "create"
    /\ exists
    /\ phase' = "failed"
    /\ UNCHANGED <<found, nodes, spec, pods, inflight>>

\* The poll's condition.  Neither observedGeneration nor UpdatedReplicas is
\* looked at.
PodsReady ==
    /\ phase = "poll"
    /\ exists /\ readyReplicas = replicas
    /\ phase' = "passed"
    /\ UNCHANGED <<found, nodes, spec, pods, inflight>>

\* The deadline, or a Get that fails or finds nothing.
PollFails ==
    /\ phase = "poll"
    /\ phase' = "failed"
    /\ UNCHANGED <<found, nodes, spec, pods, inflight>>

-----------------------------------------------------------------------------
(* The cluster.                                                            *)

Over == phase \in {"passed", "failed"}

\* The request that was given up arrives.
CreateArrives ==
    /\ inflight /\ ~Over
    /\ Stored \/ (exists /\ UNCHANGED <<spec, pods>>)
    /\ inflight' = FALSE
    /\ UNCHANGED <<found, nodes, phase>>

\* The controller starts pods of the present template.
PodReady ==
    /\ ~Over
    /\ exists /\ ~dying
    /\ ready[template] < replicas
    /\ ready' = [ready EXCEPT ![template] = @ + 1]
    /\ peak' = [all |-> Larger(peak.all, Sum'), own |-> Larger(peak.own, ready'["own"])]
    /\ UNCHANGED <<found, nodes, phase, spec, readyReplicas, inflight>>

\* A pod fails, or goes because there are too many or the deployment is deleted.
PodGone(t) ==
    /\ ~Over
    /\ ready[t] > 0
    /\ ready' = [ready EXCEPT ![t] = @ - 1]
    /\ UNCHANGED <<found, nodes, phase, spec, readyReplicas, peak, inflight>>

UpdateStatus ==
    /\ ~Over
    /\ exists
    /\ readyReplicas' = Sum
    /\ UNCHANGED <<found, nodes, phase, spec, ready, peak, inflight>>

\* The deletion of the earlier run comes to its end; the next deployment of the
\* name begins without pods and with an empty status.
Gone ==
    /\ ~Over
    /\ exists /\ dying
    /\ exists' = FALSE /\ dying' = FALSE
    /\ ready' = NoPods /\ readyReplicas' = 0
    /\ UNCHANGED <<found, nodes, phase, template, replicas, asked, peak, inflight>>

Done == Over /\ UNCHANGED vars

Next == \/ CreateStored \/ CreateFails \/ UpdateStored \/ UpdateFails
        \/ PodsReady \/ PollFails
        \/ CreateArrives \/ PodReady \/ UpdateStatus \/ Gone \/ Done
        \/ \E t \in Templates : PodGone(t)

Spec == Init /\ [][Next]_vars

-----------------------------------------------------------------------------
TypeOK ==
    /\ found \in {"nothing", "same", "other"} /\ nodes \in NodeCounts
    /\ phase \in {"create", "poll", "passed", "failed"}
    /\ exists \in BOOLEAN /\ dying \in BOOLEAN /\ inflight \in BOOLEAN /\ asked \in BOOLEAN
    /\ template \in Templates /\ replicas \in Nat \ {0}
    /\ ready \in [Templates -> Nat] /\ readyReplicas \in Nat
    /\ peak \in [own : Nat, all : Nat]

(***************************************************************************)
(* CreateDeployment passes only if at least one pod, and as many as the    *)
(* deployment asks for, were ready together at some time: however far the  *)
(* status is behind, over an update or a create that failed, arrives late  *)
(* or meets a deployment that is being deleted.  They are pods of its own  *)
(* template unless a deployment with another one was found.  They are as   *)
(* many as the check asked for unless the server never stored its Spec:    *)
(* then the number is that of the deployment it found.                     *)
(***************************************************************************)
PassMeansPodsRan ==
    phase = "passed" =>
        /\ peak.all >= replicas /\ replicas > 0
        /\ found # "other" => peak.own >= replicas
        /\ asked => replicas = ReplicaCount(nodes)
        /\ ~asked => found # "nothing"
=============================================================================
