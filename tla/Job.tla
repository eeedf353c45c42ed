-------------------------------- MODULE Job --------------------------------
(***************************************************************************)
(* A check run by a Kubernetes Job, in a namespace with a fixed name: a    *)
(* pod that fails is replaced by another until one succeeds or the back-   *)
(* off limit is reached, and a pod may be killed at any point, between two *)
(* requests or while one is on its way.  What a killed run left is what    *)
(* the next one finds.                                                     *)
(***************************************************************************)
EXTENDS Check

CONSTANT BackoffLimit   \* backoffLimit of the Job: 4

ASSUME BackoffAssumption == BackoffLimit \in Nat

VARIABLES
    attempt,   \* pods started so far
    killed,    \* the process of this attempt was killed
    ran        \* history: what any attempt has applied

job     == <<attempt, killed, ran>>
jobVars == <<vars, job>>

JobInit ==
    /\ Init
    /\ ~conf.fresh /\ objects = NothingThere /\ ~ctxDone
    /\ attempt = 1 /\ killed = FALSE /\ ran = {}

\* A step of the process, or of the cluster, which goes on after its end.
Go(A) ==
    /\ A
    /\ ran' = ran \cup applied'
    /\ UNCHANGED <<attempt, killed>>

Process == Call \/ Wait \/ Probe \/ Defer \/ Send
Cluster == \E o \in Objects : LateArrive(o) \/ LateUpdate(o) \/ Finalize(o)

\* SIGKILL: eviction, a lost node, or no end in the grace period of a SIGTERM.
Kill ==
    /\ ~Over
    /\ killed' = TRUE
    /\ pc' = "panicked"
    /\ UNCHANGED <<conf, cluster, ctxDone, step, poll, result, cleanup, attempt, ran>>

Succeeded == pc = "returned" /\ result = "nil"

\* Mutant: the limit counts pods, not retries.
OneMore == attempt <= BackoffLimit + 1

MayRetry == attempt <= BackoffLimit

\* restartPolicy: Never.  A failed pod is replaced by a new one.
Retry ==
    /\ Over /\ ~Succeeded /\ MayRetry
    /\ attempt' = attempt + 1 /\ killed' = FALSE
    /\ applied' = {} /\ revived' = {} /\ ctxDone' = FALSE
    /\ pc' = "step" /\ step' = 1 /\ result' = "none"
    /\ left' = 0 /\ due' = FALSE
    /\ d' = 1 /\ reported' = {}
    /\ UNCHANGED <<conf, objects, pending, ran>>

JobOver == Over /\ (Succeeded \/ ~MayRetry)

JobNext == \/ Go(Process) \/ Go(Tick) \/ Go(Interrupt) \/ Go(Cluster)
           \/ Kill \/ Retry
           \/ JobOver /\ UNCHANGED jobVars

\* Terminating objects go; see module Check.
JobSpec == JobInit /\ [][JobNext]_jobVars
                   /\ WF_jobVars(Go(\E o \in Objects : Finalize(o)))

-----------------------------------------------------------------------------
JobTypeOK == TypeOK /\ attempt \in 1..(BackoffLimit + 1) /\ ran \subseteq Objects

(***************************************************************************)
(* An attempt passes only on objects that it or an attempt of this Job     *)
(* before it has applied, although CreateDeployment passes on whatever     *)
(* deployment it finds, and wherever the attempts before it were killed.   *)
(***************************************************************************)
JobPassMeansApplied == result = "nil" => Created(conf) \subseteq ran

(***************************************************************************)
(* An attempt that gets to the end of its clean-up leaves nothing live in  *)
(* silence, neither of its own nor of what the attempts killed before it   *)
(* have left, except what a request given up, by it or by an attempt       *)
(* before it, has brought to life behind the clean-up.                     *)
(***************************************************************************)
CleanUpRan == Over /\ ~killed /\ ~conf.debug /\ Current.op # "list"

JobLeakIsReported ==
    CleanUpRan => \A o \in Objects : objects[o] = "live" => o \in reported \cup revived

(***************************************************************************)
(* The clean-up of the last attempt removes what killed attempts left as   *)
(* well: if it was run, reported no error, and no abandoned create comes   *)
(* or came behind it, the namespace and all in it disappear.               *)
(***************************************************************************)
LastAttemptCleansUp ==
    [](JobOver /\ CleanUpRan /\ reported = {} /\ inflight = {} /\ revived = {}
       => <>(objects = NothingThere))
=============================================================================
