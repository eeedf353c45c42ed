------------------------------- MODULE Check -------------------------------
(***************************************************************************)
(* One run of a check: Check(), the createResources() it calls, the        *)
(* deferred cleanUpResources() and the deferred Chatwork.Send(), against   *)
(* an API server whose answers may be errors, may be lost after the        *)
(* request was applied, or may be given up while the request is on its     *)
(* way, to be applied or refused whenever it arrives; with the signal      *)
(* handler of main.go cancelling the context at any time and the poll      *)
(* timers and deadlines of PollUntilContextTimeout.                        *)
(*                                                                         *)
(* Time is counted in ticks; a tick is one polling interval.               *)
(***************************************************************************)
EXTENDS CheckSteps

CONSTANTS Confs,     \* the checks that may be run, each with its settings
          Timeout    \* the --timeout flag, in ticks

\* The objects the first k calls of a check create.
CreatedBy(c, k) == {o \in Objects : \E i \in 1..k : c.steps[i] = Create(o)}
Created(c)      == CreatedBy(c, Len(c.steps))

(***************************************************************************)
(* A check lists nodes first, if it does; creates an object at most once;  *)
(* and its cleanUpResources() deletes everything it creates.               *)
(***************************************************************************)
ASSUME TimeoutAssumption == Timeout \in Nat

ASSUME ConfsAssumption ==
    \A c \in Confs :
        /\ c \in [steps : Seq(Step), undo : Seq(Objects),
                  debug : BOOLEAN, fresh : BOOLEAN]
        /\ Len(c.steps) > 0
        /\ \A i \in DOMAIN c.steps : c.steps[i] = List => i = 1
        /\ \A i, j \in DOMAIN c.steps :
              c.steps[i] = c.steps[j] /\ c.steps[i].op = "create" => i = j
        /\ \A o \in Created(c) : \E k \in DOMAIN c.undo : c.undo[k] = o

\* CreateDeployment waits for the pods whatever Create answered.
ASSUME DeploymentAssumption ==
    \A c \in Confs : \A i \in DOMAIN c.steps :
        c.steps[i] = Create("deployment")
        => i < Len(c.steps) /\ c.steps[i + 1] = Await("pods")

VARIABLES
    conf,       \* which check this is, and its Debug setting; never changes
    objects,    \* API server: the state of each object
    inflight,   \* objects whose abandoned create the server may still apply
    delayed,    \* objects whose abandoned Update it may still apply
    ctxDone,    \* Checker.Ctx has been cancelled
    pc,         \* what the main goroutine is doing
    step,       \* the call of conf.steps it is in
    left,       \* ticks left before the deadline of the current wait
    due,        \* the poll timer has fired
    result,     \* what Check() is going to return
    d,          \* the next object of conf.undo to delete
    reported,   \* objects whose deletion error was written to the chat
    applied,    \* history: objects this run has created or updated
    revived     \* history: objects stored by an abandoned create after the
                \*   clean-up had come by

pending == <<inflight, delayed>>
history == <<applied, revived>>
cluster == <<objects, pending, history>>
poll    == <<left, due>>
cleanup == <<d, reported>>
vars    == <<conf, cluster, ctxDone, pc, step, poll, result, cleanup>>

Outcomes == {"none", "nil", "error", "cancelled", "timeout"}
Places   == {"step", "update", "select", "probe", "cleanup", "send",
             "returned", "panicked"}

Over == pc \in {"returned", "panicked"}

\* What an earlier run left behind: the first k objects, in a namespace that
\* is there or still being deleted.
Leftover(c, k, s) ==
    [o \in Objects |-> IF o \notin CreatedBy(c, k) THEN "absent"
                       ELSE IF o = "namespace" THEN s ELSE "live"]

\* A fresh namespace has a new random name.  RESOURCE_NAMESPACE (fluent) and
\* the Namespace field set by the ingress tests give a fixed name instead.  The
\* signal may have come before, during an earlier check of "test all".
Init ==
    /\ conf \in Confs
    /\ objects \in IF conf.fresh THEN {NothingThere}
                   ELSE {Leftover(conf, k, s) : k \in 0..Len(conf.steps),
                                                s \in {"live", "terminating"}}
    /\ inflight = {} /\ delayed = {} /\ applied = {} /\ revived = {}
    /\ ctxDone \in BOOLEAN
    /\ pc = "step" /\ step = 1
    /\ left = 0 /\ due = FALSE
    /\ result = "none"
    /\ d = 1 /\ reported = {}

-----------------------------------------------------------------------------
(* Going on to the next call, and leaving Check().                         *)

Current == conf.steps[step]
Object  == Current.arg
Doing(op) == pc = "step" /\ Current.op = op

\* Mutant: a clean-up deferred by the check that has none.
AlwaysCleanup == "cleanup"

\* cleanUpResources() has been deferred, if the check has one.
Exit == IF Len(conf.undo) = 0 THEN "send" ELSE "cleanup"

Advance ==
    /\ IF step < Len(conf.steps)
       THEN pc' = "step" /\ step' = step + 1 /\ UNCHANGED result
       ELSE pc' = Exit /\ result' = "nil" /\ UNCHANGED step
    /\ UNCHANGED <<conf, ctxDone, cleanup>>

\* Mutant: the clean-up is deferred only after createResources() succeeded.
FailUndeferred(outcome) ==
    /\ pc' = "send"
    /\ result' = outcome
    /\ UNCHANGED <<conf, ctxDone, step, cleanup>>

\* Mutant: a wait that timed out is begun once more.
FailRetried(outcome) ==
    /\ IF outcome = "timeout" THEN pc' = "step" /\ UNCHANGED result
                              ELSE pc' = Exit /\ result' = outcome
    /\ UNCHANGED <<conf, ctxDone, step, cleanup>>

\* Mutant: an error is logged and not returned.
FailLogged(outcome) ==
    /\ pc' = Exit
    /\ result' = IF outcome = "error" THEN "nil" ELSE outcome
    /\ UNCHANGED <<conf, ctxDone, step, cleanup>>

Fail(outcome) ==
    /\ pc' = Exit
    /\ result' = outcome
    /\ UNCHANGED <<conf, ctxDone, step, cleanup>>

-----------------------------------------------------------------------------
(* Nodes().List and SleepContext.                                          *)

ListNodes ==
    /\ Doing("list")
    /\ ~ctxDone
    /\ Advance
    /\ UNCHANGED <<cluster, poll>>

\* The error return comes before the clean-up is deferred.
ListNodesFails ==
    /\ Doing("list")
    /\ pc' = "send" /\ result' = "error"
    /\ UNCHANGED <<conf, ctxDone, step, cleanup, cluster, poll>>

SleepOver ==
    /\ Doing("sleep")
    /\ Advance
    /\ UNCHANGED <<cluster, poll>>

SleepCancelled ==
    /\ Doing("sleep")
    /\ ctxDone
    /\ Fail("cancelled")
    /\ UNCHANGED <<cluster, poll>>

-----------------------------------------------------------------------------
(* CreateNamespace, CreateDeployment, CreateService, CreateIngress and the *)
(* three client.Create calls of createCert.                                *)

Apply(o) == objects' = Stored(objects, o) /\ applied' = applied \cup {o}

CreateStored ==
    /\ Doing("create")
    /\ ~ctxDone
    /\ Admits(objects, Object)
    /\ Apply(Object)
    /\ Advance
    /\ UNCHANGED <<pending, revived, poll>>

CreateAlreadyExists ==
    /\ Doing("create")
    /\ ~ctxDone
    /\ objects[Object] # "absent"
    /\ IF Upserts(Object)
       THEN pc' = "update" /\ UNCHANGED <<conf, ctxDone, step, result, cleanup>>
       ELSE Fail("error")
    /\ UNCHANGED <<cluster, poll>>

\* Any other error.  The server refused the request or never saw it; or it
\* stored the object and the answer was lost; or the client gave up and the
\* request is still on its way, whatever is in its place now.  Once the context
\* is cancelled the client sends nothing.
CreateFails ==
    /\ Doing("create")
    /\ \/ UNCHANGED <<objects, applied, inflight>>
       \/ ~ctxDone /\ Admits(objects, Object) /\ Apply(Object) /\ UNCHANGED inflight
       \/ ~ctxDone /\ inflight' = inflight \cup {Object} /\ UNCHANGED <<objects, applied>>
    /\ IF CarriesOn(Object) THEN Advance ELSE Fail("error")
    /\ UNCHANGED <<delayed, revived, poll>>

\* The Update that follows an AlreadyExists answer.
CanUpdate == ctxDone => ~UpdateHonoursContext(Object)

UpdateStored ==
    /\ pc = "update"
    /\ CanUpdate
    /\ objects[Object] # "absent"
    /\ applied' = applied \cup {Object}
    /\ Advance
    /\ UNCHANGED <<objects, pending, revived, poll>>

\* Refused, answered in vain, or given up on its way.
UpdateFails ==
    /\ pc = "update"
    /\ \/ UNCHANGED <<applied, delayed>>
       \/ /\ CanUpdate /\ objects[Object] # "absent"
          /\ applied' = applied \cup {Object} /\ UNCHANGED delayed
       \/ CanUpdate /\ delayed' = delayed \cup {Object} /\ UNCHANGED applied
    /\ Fail("error")
    /\ UNCHANGED <<objects, inflight, revived, poll>>

-----------------------------------------------------------------------------
(* wait.PollUntilContextTimeout: a select between the poll timer and the   *)
(* context, which ends at the deadline or when Checker.Ctx is cancelled,   *)
(* then the condition, again and again.                                    *)

Expired  == left = 0 \/ ctxDone
PollOver == left' = 0 /\ due' = FALSE

\* A request made with the poll's context is answered before it expires.
Answers(w) == HonoursContext(w) => ~Expired

WaitBegin ==
    /\ Doing("wait")
    /\ left' = Timeout /\ due' = FALSE
    /\ pc' = IF Immediate(Object) THEN "probe" ELSE "select"
    /\ UNCHANGED <<conf, cluster, ctxDone, step, result, cleanup>>

\* An interval goes by.  The timer was reset when the condition started, so that
\* a slow condition finds it fired already.  A request made with the poll's
\* context ends with it; a DNS exchange has a timeout of its own, shorter than
\* an interval; the GET may take for ever.
Tick ==
    /\ \/ pc = "select" /\ ~Expired /\ ~due
       \/ pc = "probe" /\ HonoursContext(Object) /\ ~Expired
       \/ pc = "probe" /\ Object = "dns" /\ ~due
       \/ pc = "probe" /\ Object = "http"
    /\ due' = TRUE
    /\ left' = IF left > 0 THEN left - 1 ELSE 0
    /\ UNCHANGED <<conf, cluster, ctxDone, pc, step, result, cleanup>>

\* When both are ready select may take the timer rather than the context: the
\* loop looks at the context once more before it calls the condition.
TimerFires ==
    /\ pc = "select"
    /\ due /\ ~Expired
    /\ pc' = "probe" /\ due' = FALSE
    /\ UNCHANGED <<conf, cluster, ctxDone, step, left, result, cleanup>>

WaitExpires ==
    /\ pc = "select"
    /\ \/ ctxDone  /\ Fail("cancelled")
       \/ left = 0 /\ Fail("timeout")
    /\ PollOver
    /\ UNCHANGED cluster

Present(w) == \A o \in Needs(w) : objects[o] # "absent"

ProbeTrue ==
    /\ pc = "probe"
    /\ Answers(Object)
    /\ Present(Object)
    /\ Advance
    /\ PollOver
    /\ UNCHANGED cluster

\* Not yet, or an error the condition swallows.
ProbeFalse ==
    /\ pc = "probe"
    /\ AbortsOnError(Object) => Answers(Object) /\ Present(Object)
    /\ pc' = "select"
    /\ UNCHANGED <<conf, cluster, ctxDone, step, poll, result, cleanup>>

ProbeFails ==
    /\ pc = "probe"
    /\ MayAbort(Object)
    /\ Fail("error")
    /\ PollOver
    /\ UNCHANGED cluster

-----------------------------------------------------------------------------
(* The deferred calls: cleanUpResources(), then Chatwork.Send().           *)

\* Mutant: the clean-up is skipped whether Debug is set or not.
SkipAlways ==
    /\ pc = "cleanup"
    /\ pc' = "send"
    /\ UNCHANGED <<conf, cluster, ctxDone, step, poll, result, cleanup>>

SkipCleanup ==
    /\ pc = "cleanup"
    /\ conf.debug
    /\ pc' = "send"
    /\ UNCHANGED <<conf, cluster, ctxDone, step, poll, result, cleanup>>

\* Mutant: the clean-up returns at its first error.
DeleteUntilError ==
    /\ pc = "cleanup"
    /\ ~conf.debug
    /\ LET o == conf.undo[d] IN
         \/ /\ reported' = reported \cup {o} /\ pc' = "send"
            /\ UNCHANGED <<objects, d>>
         \/ /\ objects[o] # "absent"
            /\ objects' = Deleted(objects, o) /\ UNCHANGED reported
            /\ IF d < Len(conf.undo) THEN d' = d + 1 /\ UNCHANGED pc
                                     ELSE pc' = "send" /\ UNCHANGED d
    /\ UNCHANGED <<conf, pending, history, ctxDone, step, poll, result>>

\* Mutant: the clean-up deletes only what this run has applied.
DeleteOwnOnly ==
    /\ pc = "cleanup"
    /\ ~conf.debug
    /\ LET o == conf.undo[d] IN
         \/ o \in applied /\ reported' = reported \cup {o} /\ UNCHANGED objects
         \/ /\ o \in applied /\ objects[o] # "absent"
            /\ objects' = Deleted(objects, o) /\ UNCHANGED reported
         \/ o \notin applied /\ UNCHANGED <<objects, reported>>
    /\ IF d < Len(conf.undo) THEN d' = d + 1 /\ UNCHANGED pc
                             ELSE pc' = "send" /\ UNCHANGED d
    /\ UNCHANGED <<conf, pending, history, ctxDone, step, poll, result>>

\* Every object is deleted in turn, whatever happened to the one before.  An
\* error is written to the chat: not found, refused, or the answer was lost.
DeleteNext ==
    /\ pc = "cleanup"
    /\ ~conf.debug
    /\ LET o == conf.undo[d] IN
         \/ reported' = reported \cup {o} /\ UNCHANGED objects
         \/ /\ objects[o] # "absent"
            /\ objects' = Deleted(objects, o)
            /\ reported' \in {reported, reported \cup {o}}
    /\ IF d < Len(conf.undo) THEN d' = d + 1 /\ UNCHANGED pc
                             ELSE pc' = "send" /\ UNCHANGED d
    /\ UNCHANGED <<conf, pending, history, ctxDone, step, poll, result>>

\* Send dereferences the nil response of a failed request and panics.  It
\* uses a client without a timeout.
Send ==
    /\ pc = "send"
    /\ pc' \in {"returned", "panicked"}
    /\ UNCHANGED <<conf, cluster, ctxDone, step, poll, result, cleanup>>

-----------------------------------------------------------------------------
(* The rest of the world.                                                  *)

\* SIGINT or SIGTERM: the goroutine of newSignalContext cancels the context.
Interrupt ==
    /\ ~Over /\ ~ctxDone
    /\ ctxDone' = TRUE
    /\ UNCHANGED <<conf, cluster, pc, step, poll, result, cleanup>>

\* The clean-up has sent its deletion of o, or is over.
Passed(o) == \/ pc = "cleanup" /\ \E k \in 1..(d - 1) : conf.undo[k] = o
             \/ pc \in {"send", "returned", "panicked"}

\* An abandoned create reaches the server.
LateArrive(o) ==
    /\ o \in inflight
    /\ inflight' = inflight \ {o}
    /\ IF Admits(objects, o)
       THEN Apply(o) /\ revived' = IF Passed(o) THEN revived \cup {o} ELSE revived
       ELSE UNCHANGED <<objects, applied, revived>>
    /\ UNCHANGED <<conf, delayed, ctxDone, pc, step, poll, result, cleanup>>

\* An abandoned Update does; of an object that is gone it is refused.
LateUpdate(o) ==
    /\ o \in delayed
    /\ delayed' = delayed \ {o}
    /\ applied' = IF objects[o] # "absent" THEN applied \cup {o} ELSE applied
    /\ UNCHANGED <<conf, objects, inflight, revived, ctxDone, pc, step, poll, result, cleanup>>

Finalize(o) ==
    /\ objects[o] = "terminating"
    /\ objects' = Finalized(objects, o)
    /\ UNCHANGED <<conf, pending, history, ctxDone, pc, step, poll, result, cleanup>>

Done == Over /\ UNCHANGED vars

-----------------------------------------------------------------------------
Call  == \/ ListNodes \/ ListNodesFails \/ SleepOver \/ SleepCancelled
         \/ CreateStored \/ CreateAlreadyExists \/ CreateFails
         \/ UpdateStored \/ UpdateFails
Wait  == WaitBegin \/ TimerFires \/ WaitExpires
Probe == ProbeTrue \/ ProbeFalse \/ ProbeFails
Defer == SkipCleanup \/ DeleteNext
World == Interrupt \/ \E o \in Objects : LateArrive(o) \/ LateUpdate(o) \/ Finalize(o)

Next == Call \/ Wait \/ Probe \/ Tick \/ Defer \/ Send \/ World \/ Done

Spec == Init /\ [][Next]_vars

(***************************************************************************)
(* Fairness.  The main goroutine runs, timers fire and terminating objects *)
(* go.  A request need not be answered: one that has no deadline may hang. *)
(* Nodes().List, the creates and the updates end once Checker.Ctx is       *)
(* cancelled; the Update of a namespace and the deletions, made with       *)
(* context.TODO(), the GET of the ingress check and the POST of Send end   *)
(* only when they are answered.  Requests of a poll end with its deadline, *)
(* DNS exchanges with a timeout of their own.  Nothing is assumed of       *)
(* signals or of abandoned requests.                                       *)
(***************************************************************************)
MayHang ==
    \/ pc = "step" /\ Current.op \in {"list", "create"} /\ ~ctxDone
    \/ pc = "update" /\ CanUpdate
    \/ pc = "probe" /\ Object = "http"
    \/ pc = "cleanup" /\ ~conf.debug
    \/ pc = "send"

Fairness ==
    /\ WF_vars(~MayHang /\ (Call \/ Wait \/ Probe \/ Defer))
    /\ WF_vars(Tick)
    /\ WF_vars(\E o \in Objects : Finalize(o))

FairSpec == Spec /\ Fairness

-----------------------------------------------------------------------------
(* Properties.                                                             *)

TypeOK ==
    /\ conf \in Confs
    /\ objects \in [Objects -> ObjectState]
    /\ inflight \subseteq Objects /\ delayed \subseteq Objects
    /\ ctxDone \in BOOLEAN
    /\ pc \in Places
    /\ step \in DOMAIN conf.steps
    /\ left \in 0..Timeout /\ due \in BOOLEAN
    /\ result \in Outcomes
    /\ d \in Nat \ {0} /\ (pc = "cleanup" => d \in DOMAIN conf.undo)
    /\ reported \subseteq Objects
    /\ applied \subseteq Objects /\ revived \subseteq Objects
    /\ pc = "update" => Current.op = "create"
    /\ pc \in {"select", "probe"} => Current.op = "wait"

(***************************************************************************)
(* Nothing leaks in silence: once cleanUpResources() is over, an object    *)
(* this run has created or updated and that is still live (its deletion    *)
(* failed, or its create was applied after its deletion) is named by a     *)
(* deletion error in the chat.  Not so in debug mode, which deletes        *)
(* nothing.  And in a namespace that an earlier run has used there is one  *)
(* way to leak in silence, and only one: an abandoned create that is       *)
(* stored after the leftover in its place was deleted without an error.    *)
(***************************************************************************)
CleanedUp == pc \in {"send", "returned", "panicked"} /\ ~conf.debug

\* Stored behind the back of the clean-up, which found a leftover to delete.
Astray(o) == ~conf.fresh /\ o \in revived

LeakIsReported ==
    CleanedUp => \A o \in applied : objects[o] = "live" => o \in reported \/ Astray(o)

(***************************************************************************)
(* A check that passes in a fresh namespace has created every object it    *)
(* was to create, although CreateDeployment goes on after a failed Create. *)
(***************************************************************************)
PassMeansApplied == conf.fresh /\ result = "nil" => Created(conf) \subseteq applied

(***************************************************************************)
(* The clean-up takes objects down in the reverse order of their creation: *)
(* when one is deleted, what was created after it is no longer live, or    *)
(* its deletion has failed and was reported, or it has come back: see      *)
(* LeakIsReported.                                                         *)
(***************************************************************************)
CreatedAfter(o) ==
    {p \in Objects : \E i, j \in DOMAIN conf.steps :
        i < j /\ conf.steps[i] = Create(o) /\ conf.steps[j] = Create(p)}

ReverseTeardown ==
    [][\A o \in Objects :
          objects[o] = "live" /\ objects'[o] = "terminating"
          => \A p \in CreatedAfter(o) :
                objects[p] # "live" \/ p \in reported \/ Astray(p)]_vars

(***************************************************************************)
(* After the context is cancelled nothing more is created or updated in    *)
(* the cluster, except by requests already on their way and by the Update  *)
(* of the namespace, which is sent with context.TODO().                    *)
(***************************************************************************)
NoApplyAfterCancel ==
    [][ctxDone => applied' \subseteq applied \cup inflight \cup delayed \cup {"namespace"}]_vars

(***************************************************************************)
(* A check ends, however the answers fall and whenever the signal comes,   *)
(* unless it is stuck in one request that is never answered: no wait, no   *)
(* sleep and no sequence of them goes on for ever.                         *)
(***************************************************************************)
HangsOnlyInRequests == <>[](Over \/ MayHang)

(***************************************************************************)
(* When a check is over and reported no deletion error, everything it      *)
(* created disappears.                                                     *)
(***************************************************************************)
CleansUp ==
    [](Over /\ ~conf.debug /\ reported = {} => <>(\A o \in applied : objects[o] = "absent"))

(***************************************************************************)
(* A check begun with a cancelled context, as "test all" may do after a    *)
(* signal, fails, and creates and updates nothing.                         *)
(***************************************************************************)
DoomedFails == ctxDone => [](result # "nil" /\ applied = {})

-----------------------------------------------------------------------------
(* What the repository says of the program and the program does not do.    *)

\* main.go: "Received Ctrl+C or SIGTERM. Exiting..."
ExitsWhenSignalled == ctxDone ~> pc \in {"cleanup", "send", "returned", "panicked"}

\* resources.go: "Create stands in for Apply": when a check passes its objects
\* were applied, whatever was in the namespace before.
CreateActsAsApply == result = "nil" => Created(conf) \subseteq applied
=============================================================================
