------------------------ MODULE CheckContractProofs ------------------------
(***************************************************************************)
(* More theorems about Check: what a check has done when it passes, alone  *)
(* or as an attempt of a Job, what it does when it is begun too late, and  *)
(* in what order it cleans up; and that it implements CheckContract.       *)
(***************************************************************************)
EXTENDS CheckProofs, Job

-----------------------------------------------------------------------------
(* What a check has earned.  S is a set of objects that holds all there is *)
(* in the namespace, and all that this step applies: what this check has   *)
(* applied, where the namespace is fresh, or what any attempt of a Job     *)
(* has.  Each create that the check has got past is of an object of S,     *)
(* except that of the deployment while its pods are awaited:               *)
(* CreateDeployment goes on after an error of Create, but the wait does    *)
(* not end without a deployment.                                           *)

PodsAwaited == IF Current = Await("pods") THEN {"deployment"} ELSE {}

EarnedBy(S) ==
    /\ Checking => CreatedBy(conf, step - 1) \subseteq S \cup PodsAwaited
    /\ result = "nil" => Created(conf) \subseteq S

\* What the calls up to the current one create.
LEMMA CreatedUpTo ==
    ASSUME Typed, NEW o \in CreatedBy(conf, step)
    PROVE  o \in CreatedBy(conf, step - 1) \/ (Current = Create(o) /\ Object = o)
<1>1. PICK i \in 1..step : conf.steps[i] = Create(o)
  BY DEF CreatedBy
<1>2. CASE i = step
  BY <1>1, <1>2 DEF Current, Object, Create
<1>3. CASE i # step
  <2>1. i \in 1..(step - 1)
    BY <1>3, CallFacts
  <2> QED
    BY <1>1, <2>1 DEF CreatedBy
<1> QED
  BY <1>2, <1>3

\* Going on is earned when everything up to this call is in S, or the next
\* call waits for the pods of what is not.
LEMMA AdvanceEarned ==
    ASSUME Typed, Checking, Advance, NEW S,
           \/ CreatedBy(conf, step) \subseteq S
           \/ /\ CreatedBy(conf, step) \subseteq S \cup {"deployment"}
              /\ step < Len(conf.steps)
              /\ conf.steps[step + 1] = Await("pods")
    PROVE  EarnedBy(S)'
<1>1. conf' = conf /\ result = "none" /\ step \in Nat /\ Len(conf.steps) \in Nat
      /\ step <= Len(conf.steps)
  BY CallFacts DEF Advance, Typed, CleanupNotBegun
<1>2. CASE step < Len(conf.steps)
  <2>1. step' = step + 1 /\ step' - 1 = step /\ result' = "none"
    BY <1>1, <1>2 DEF Advance
  <2> QED
    BY <1>1, <2>1 DEF EarnedBy, PodsAwaited, Current
<1>3. CASE ~(step < Len(conf.steps))
  <2>1. step = Len(conf.steps) /\ pc' \in {"cleanup", "send"}
    BY <1>1, <1>3 DEF Advance, Exit
  <2> QED
    BY <1>1, <1>3, <2>1 DEF EarnedBy, Checking, Created
<1> QED
  BY <1>2, <1>3

LEMMA FailEarned ==
    ASSUME Fail("error") \/ Fail("cancelled") \/ Fail("timeout"), NEW S
    PROVE  EarnedBy(S)'
BY DEF Fail, Exit, EarnedBy, Checking

LEMMA EarnedStep ==
    ASSUME Typed, [Next]_vars, NEW S, NothingBut(S), EarnedBy(S), applied' \subseteq S
    PROVE  EarnedBy(S)'
<1>1. conf' = conf /\ applied' \subseteq S /\ (Checking => result = "none")
  BY CleanupStep DEF Typed, CleanupNotBegun
<1>2. ASSUME Checking, Current.op # "wait", Current.op # "create"
      PROVE  CreatedBy(conf, step) \subseteq S
  BY <1>1, <1>2, CreatedUpTo DEF EarnedBy, PodsAwaited, Await, Create
<1>3. ASSUME Checking, Current.op = "create"
      PROVE  CreatedBy(conf, step) \subseteq S \cup {Object}
  BY <1>1, <1>3, CreatedUpTo DEF EarnedBy, PodsAwaited, Await, Create
<1>4. CASE ListNodes \/ SleepOver
  BY <1>2, <1>4, <1>1, AdvanceEarned DEF ListNodes, SleepOver, Doing, Checking
<1>5. CASE ListNodesFails
  BY <1>5 DEF ListNodesFails, EarnedBy, Checking
<1>6. CASE SleepCancelled \/ UpdateFails \/ WaitExpires \/ ProbeFails
  BY <1>6, FailEarned DEF SleepCancelled, UpdateFails, WaitExpires, ProbeFails
<1>7. CASE CreateStored
  <2>1. Object \in S
    BY <1>1, <1>7 DEF CreateStored, Apply
  <2> QED
    BY <1>3, <1>7, <2>1, AdvanceEarned DEF CreateStored, Doing, Checking
<1>8. CASE UpdateStored
  <2>1. Object \in S /\ Current.op = "create" /\ Checking
    BY <1>1, <1>8 DEF UpdateStored, Typed, TypeOK, Checking
  <2> QED
    BY <1>3, <1>8, <2>1, AdvanceEarned DEF UpdateStored
<1>9. CASE CreateFails
  <2>1. Checking /\ Current.op = "create"
    BY <1>9 DEF CreateFails, Doing, Checking
  <2>2. CASE CarriesOn(Object)
    <3>1. Object = "deployment" /\ Advance
      BY <1>9, <2>2 DEF CarriesOn, CreateFails
    <3>2. step < Len(conf.steps) /\ conf.steps[step + 1] = Await("pods")
      BY <2>1, <3>1, CallFacts, ConfFacts, DeploymentAssumption DEF Current
    <3> QED
      BY <1>3, <2>1, <3>1, <3>2, AdvanceEarned
  <2>3. CASE ~CarriesOn(Object)
    BY <1>9, <2>3, FailEarned DEF CreateFails
  <2> QED BY <2>2, <2>3
<1>10. CASE ProbeTrue
  <2>1. Checking /\ Current.op = "wait" /\ Present(Object)
    BY <1>10 DEF ProbeTrue, Checking, Typed, TypeOK
  <2>2. PodsAwaited \subseteq S
    BY <2>1 DEF PodsAwaited, Await, Object, Present, Needs, NothingBut, Objects
  <2>3. CreatedBy(conf, step) \subseteq S
    BY <2>1, <2>2, CreatedUpTo DEF EarnedBy, Create
  <2> QED
    BY <1>10, <2>1, <2>3, AdvanceEarned DEF ProbeTrue
<1>11. ASSUME UNCHANGED <<step, result>>, Checking \/ ~Checking' PROVE EarnedBy(S)'
  BY <1>1, <1>11 DEF EarnedBy, PodsAwaited, Current
<1>12. CASE CreateAlreadyExists
  <2>1. CASE Upserts(Object)
    BY <1>11, <1>12, <2>1 DEF CreateAlreadyExists, Doing, Checking
  <2>2. CASE ~Upserts(Object)
    BY <1>12, <2>2, FailEarned DEF CreateAlreadyExists
  <2> QED BY <2>1, <2>2
<1>13. CASE WaitBegin \/ TimerFires \/ ProbeFalse
  BY <1>11, <1>13 DEF WaitBegin, TimerFires, ProbeFalse, Doing, Checking
<1>14. CASE Tick \/ SkipCleanup \/ DeleteNext \/ Send \/ Interrupt \/ UNCHANGED vars
  BY <1>11, <1>14 DEF Tick, SkipCleanup, DeleteNext, Send, Interrupt, vars, Checking
<1>15. ASSUME NEW o \in Objects, LateArrive(o) \/ LateUpdate(o) \/ Finalize(o)
       PROVE  EarnedBy(S)'
  BY <1>11, <1>15 DEF LateArrive, LateUpdate, Finalize, Checking
<1> QED
  BY <1>4, <1>5, <1>6, <1>7, <1>8, <1>9, <1>10, <1>12, <1>13, <1>14, <1>15
  DEF Next, Call, Wait, Probe, Defer, World, Done

-----------------------------------------------------------------------------
(* PassMeansApplied.  In a fresh namespace there is nothing but what this  *)
(* check has applied, and what it applied once stays applied.              *)

Earned ==
    /\ Typed
    /\ conf.fresh => NothingBut(applied) /\ EarnedBy(applied)

LEMMA EarnedInv ==
    ASSUME Earned, [Next]_vars
    PROVE  Earned'
<1>1. Typed' /\ conf' = conf
  BY TypedStep, CleanupStep DEF Earned
<1>2. CASE conf.fresh
  <2>1. PICK S : S = applied'
    OBVIOUS
  <2>2. NothingBut(S) /\ EarnedBy(S) /\ applied' \subseteq S
    BY <1>2, <2>1, AppliedGrows DEF Earned, NothingBut, EarnedBy
  <2>3. NothingBut(S)' /\ EarnedBy(S)'
    BY <2>2, NothingButStep, EarnedStep DEF Earned
  <2> QED
    BY <1>1, <2>1, <2>3 DEF Earned, NothingBut, EarnedBy
<1>3. CASE ~conf.fresh
  BY <1>1, <1>3 DEF Earned
<1> QED
  BY <1>2, <1>3

LEMMA EarnedInit ==
    ASSUME Init
    PROVE  Earned
<1>1. Typed
  BY TypedInit
<1>2. CreatedBy(conf, step - 1) = {}
  BY DEF Init, CreatedBy
<1> QED
  BY <1>1, <1>2 DEF Init, Earned, NothingBut, NothingThere, EarnedBy

LEMMA PassIsEarned == Earned => PassMeansApplied
BY DEF Earned, EarnedBy, PassMeansApplied

(***************************************************************************)
(* A check that passes in a fresh namespace has applied everything it was  *)
(* to create, for every sequence of calls in which the create of a         *)
(* deployment is followed by the wait for its pods.                        *)
(***************************************************************************)
THEOREM PassesAreEarned == Spec => []PassMeansApplied
BY EarnedInit, EarnedInv, PassIsEarned, PTL DEF Spec

-----------------------------------------------------------------------------
(* DoomedFails.  With the context cancelled from the start, a check gets   *)
(* past the calls that never look at it, and past the create of its        *)
(* deployment, which is not sent: but not past the wait for the pods.      *)

Heedless == {Sleep, Await("dns"), Await("http")}

Heeds(c) == \E i \in DOMAIN c.steps : c.steps[i] \notin Heedless

Passable == Heedless \cup {Create("deployment")}

DoomedInv ==
    /\ Typed
    /\ ctxDone /\ applied = {} /\ inflight = {} /\ delayed = {}
    /\ pc # "update" /\ result # "nil"
    /\ Checking => \A i \in 1..(step - 1) : conf.steps[i] \in Passable

LEMMA NotAllPassable ==
    ASSUME NEW c \in Confs, Heeds(c)
    PROVE  ~\A i \in 1..Len(c.steps) : c.steps[i] \in Passable
<1> SUFFICES ASSUME \A i \in 1..Len(c.steps) : c.steps[i] \in Passable
             PROVE  FALSE
  OBVIOUS
<1>1. DOMAIN c.steps = 1..Len(c.steps) /\ Len(c.steps) \in Nat
  BY ConfFacts
<1>2. PICK i \in 1..Len(c.steps) : c.steps[i] = Create("deployment")
  BY <1>1 DEF Heeds, Passable
<1>3. i + 1 \in 1..Len(c.steps) /\ c.steps[i + 1] = Await("pods")
  BY <1>1, <1>2, DeploymentAssumption
<1> QED
  BY <1>3 DEF Passable, Heedless, Await, Sleep, Create

\* A doomed check that goes on has not come to its end.
LEMMA DoomedAdvance ==
    ASSUME DoomedInv, Heeds(conf), Checking, Advance, Current \in Passable
    PROVE  /\ pc' = "step" /\ result' # "nil"
           /\ \A i \in 1..(step' - 1) : conf'.steps[i] \in Passable
<1>1. /\ conf \in Confs /\ conf' = conf /\ step \in 1..Len(conf.steps)
      /\ Len(conf.steps) \in Nat
  BY CallFacts DEF DoomedInv, Advance
<1>2. \A i \in 1..step : conf.steps[i] \in Passable
  <2> SUFFICES ASSUME NEW i \in 1..step PROVE conf.steps[i] \in Passable
    OBVIOUS
  <2>1. i = step \/ i \in 1..(step - 1)
    BY <1>1
  <2> QED
    BY <2>1 DEF DoomedInv, Current
<1>3. step < Len(conf.steps)
  <2>1. step # Len(conf.steps)
    BY <1>1, <1>2, NotAllPassable
  <2> QED
    BY <1>1, <2>1
<1>4. step' = step + 1 /\ step' - 1 = step /\ pc' = "step" /\ result' = result
  BY <1>1, <1>3 DEF Advance
<1> QED
  BY <1>1, <1>2, <1>4 DEF DoomedInv

LEMMA DoomedStep ==
    ASSUME DoomedInv, Heeds(conf), [Next]_vars
    PROVE  DoomedInv'
<1> DEFINE Goal == /\ pc' # "update" /\ result' # "nil"
                   /\ Checking' => \A i \in 1..(step' - 1) : conf'.steps[i] \in Passable
<1>1. Typed' /\ conf' = conf
  BY TypedStep, CleanupStep DEF DoomedInv
<1>2. ctxDone'
  BY DEF DoomedInv, Next, Call, Wait, Probe, Defer, World, Done, ListNodes, ListNodesFails,
     SleepOver, SleepCancelled, CreateStored, CreateAlreadyExists, CreateFails, UpdateStored,
     UpdateFails, WaitBegin, TimerFires, WaitExpires, ProbeTrue, ProbeFalse, ProbeFails, Tick,
     SkipCleanup, DeleteNext, Send, Interrupt, LateArrive, LateUpdate, Finalize, Advance, Fail,
     vars
<1>3. applied' = {} /\ inflight' = {} /\ delayed' = {}
  <2>1. ~Sends /\ ~(\E o \in Objects : LateArrive(o) \/ LateUpdate(o)) /\ ~Updates
    BY DEF DoomedInv, Sends, LateArrive, LateUpdate, Updates
  <2> QED
    BY <2>1, ClusterStep
    DEF DoomedInv, Untouched, cluster, pending, history, DeleteNext, Drifts, Finalize
<1>4. ASSUME Advance /\ Checking /\ Current \in Passable PROVE Goal
  BY <1>4, DoomedAdvance
<1>5. ASSUME Fail("error") \/ Fail("cancelled") \/ Fail("timeout") PROVE Goal
  BY <1>5 DEF Fail, Exit, Checking
<1>6. ASSUME SleepOver PROVE Goal
  <2>1. Current = Sleep /\ Checking
    BY <1>6, CallFacts DEF SleepOver, Doing, DoomedInv, Checking, Step, List, Sleep, Create, Await
  <2> QED
    BY <1>4, <1>6, <2>1 DEF SleepOver, Passable, Heedless
<1>7. ASSUME SleepCancelled \/ WaitExpires \/ ProbeFails PROVE Goal
  BY <1>5, <1>7 DEF SleepCancelled, WaitExpires, ProbeFails
<1>8. ASSUME ListNodesFails PROVE Goal
  BY <1>8 DEF ListNodesFails, Checking
<1>9. ASSUME CreateFails PROVE Goal
  <2>1. CASE CarriesOn(Object)
    <3>1. Current = Create("deployment") /\ Checking /\ Advance
      BY <1>9, <2>1, CallFacts DEF CreateFails, Doing, CarriesOn, DoomedInv, Checking
    <3> QED
      BY <1>4, <3>1 DEF Passable
  <2>2. CASE ~CarriesOn(Object)
    BY <1>5, <1>9, <2>2 DEF CreateFails
  <2> QED BY <2>1, <2>2
<1>10. ASSUME ProbeTrue PROVE Goal
  <2>1. Checking /\ Advance /\ Current.op = "wait" /\ Object \in {"dns", "http"}
    BY <1>10 DEF ProbeTrue, Answers, HonoursContext, Expired, DoomedInv, Typed, TypeOK, Checking
  <2>2. Current \in {Await("dns"), Await("http")}
    BY <2>1, CallFacts DEF DoomedInv, Object, Step, List, Sleep, Create, Await
  <2> QED
    BY <1>4, <2>1, <2>2 DEF Passable, Heedless
<1>11. ASSUME WaitBegin \/ TimerFires \/ ProbeFalse \/ Tick PROVE Goal
  BY <1>1, <1>11 DEF WaitBegin, TimerFires, ProbeFalse, Tick, Doing, DoomedInv, Checking
<1>12. ASSUME SkipCleanup \/ DeleteNext \/ Send PROVE Goal
  BY <1>12 DEF SkipCleanup, DeleteNext, Send, DoomedInv, Checking
<1>13. ASSUME World \/ UNCHANGED vars PROVE Goal
  BY <1>1, <1>13 DEF World, Interrupt, LateArrive, LateUpdate, Finalize, vars, DoomedInv, Checking
<1>14. ~(ListNodes \/ CreateStored \/ CreateAlreadyExists \/ UpdateStored \/ UpdateFails)
  BY DEF DoomedInv, ListNodes, CreateStored, CreateAlreadyExists, UpdateStored, UpdateFails
<1>15. Goal
  BY <1>6, <1>7, <1>8, <1>9, <1>10, <1>11, <1>12, <1>13, <1>14
  DEF Next, Call, Wait, Probe, Defer, Done
<1> QED
  BY <1>1, <1>2, <1>3, <1>15 DEF DoomedInv

(***************************************************************************)
(* A check begun with the context cancelled never passes and applies       *)
(* nothing, however long it runs on: for every check one of whose calls    *)
(* is neither the sleep nor the DNS or HTTP wait, as all five have.        *)
(***************************************************************************)
THEOREM DoomedChecksFail ==
    ASSUME \A c \in Confs : Heeds(c)
    PROVE  Spec => DoomedFails
<1>1. ASSUME Init, ctxDone PROVE DoomedInv
  <2>1. Typed
    BY <1>1, TypedInit
  <2>2. applied = {} /\ inflight = {} /\ delayed = {} /\ pc = "step" /\ result = "none"
    BY <1>1 DEF Init
  <2>3. 1..(step - 1) = {}
    BY <1>1 DEF Init
  <2> QED
    BY <1>1, <2>1, <2>2, <2>3 DEF DoomedInv
<1>2. DoomedInv /\ [Next]_vars => DoomedInv'
  <2>1. DoomedInv => Heeds(conf)
    BY DEF DoomedInv, Typed, TypeOK
  <2> QED
    BY <2>1, DoomedStep
<1>3. DoomedInv => result # "nil" /\ applied = {}
  BY DEF DoomedInv
<1> QED
  BY <1>1, <1>2, <1>3, PTL DEF Spec, DoomedFails

-----------------------------------------------------------------------------
(* A Job.  Every attempt is a run of Check; what an attempt has applied,   *)
(* or an abandoned request of it still applies, is in ran for good, so     *)
(* that there is nothing in the namespace that some attempt did not apply. *)

JobTyped == Typed /\ attempt \in 1..(BackoffLimit + 1) /\ ran \subseteq Objects

JobInv == JobTyped /\ applied \subseteq ran /\ NothingBut(ran) /\ EarnedBy(ran)

\* What the process and the cluster do under a Job are steps of Check.
LEMMA GoIsAStep ==
    ASSUME Go(Process) \/ Go(Tick) \/ Go(Interrupt) \/ Go(Cluster)
    PROVE  /\ [Next]_vars
           /\ ran' = ran \cup applied' /\ UNCHANGED attempt
<1>1. Process \/ Tick \/ Interrupt \/ Cluster => Next
  BY DEF Process, Cluster, Next, World
<1> QED
  BY <1>1 DEF Go

\* A new attempt starts from nothing but the cluster and what is on its way.
LEMMA RetryTyped ==
    ASSUME JobTyped, Retry
    PROVE  JobTyped'
<1>1. /\ conf' = conf /\ conf \in Confs /\ DOMAIN conf.steps = 1..Len(conf.steps)
      /\ Len(conf.steps) \in Nat \ {0} /\ Timeout \in Nat
  BY ConfFacts, TimeoutAssumption DEF Retry, JobTyped, Typed, TypeOK
<1>2. step' \in DOMAIN conf'.steps /\ left' \in 0..Timeout /\ d' \in Nat \ {0}
  BY <1>1 DEF Retry
<1>3. /\ objects' \in [Objects -> ObjectState] /\ inflight' \subseteq Objects
      /\ delayed' \subseteq Objects /\ ran' \subseteq Objects
  BY DEF Retry, pending, JobTyped, Typed, TypeOK
<1>4. /\ pc' = "step" /\ result' = "none" /\ d' = 1
      /\ applied' = {} /\ revived' = {} /\ reported' = {}
  BY DEF Retry
<1>5. ctxDone' \in BOOLEAN /\ due' \in BOOLEAN
  BY Zenon DEF Retry
<1>6. TypeOK'
  BY <1>1, <1>2, <1>3, <1>4, <1>5 DEF TypeOK, Places, Outcomes
<1>7. attempt' \in 1..(BackoffLimit + 1)
  BY BackoffAssumption DEF Retry, MayRetry, JobTyped
<1> QED
  BY <1>3, <1>4, <1>6, <1>7 DEF JobTyped, Typed, CleanupNotBegun

LEMMA KillTyped ==
    ASSUME JobTyped, Kill
    PROVE  JobTyped'
<1>1. /\ UNCHANGED <<conf, objects, inflight, delayed, applied, revived, ctxDone, step,
                     left, due, result, d, reported, attempt, ran>>
      /\ pc' = "panicked"
  BY DEF Kill, cluster, pending, history, poll, cleanup
<1>2. TypeOK'
  BY <1>1 DEF JobTyped, Typed, TypeOK, Places
<1> QED
  BY <1>1, <1>2 DEF JobTyped, Typed, CleanupNotBegun, Checking

LEMMA JobInvInit ==
    ASSUME JobInit
    PROVE  JobInv
<1>1. Typed
  BY TypedInit DEF JobInit
<1>2. attempt \in 1..(BackoffLimit + 1) /\ ran = {}
  BY BackoffAssumption DEF JobInit
<1>3. applied = {} /\ result = "none" /\ CreatedBy(conf, step - 1) = {}
  BY DEF JobInit, Init, CreatedBy
<1>4. NothingBut(ran)
  BY DEF JobInit, NothingBut, NothingThere
<1> QED
  BY <1>1, <1>2, <1>3, <1>4 DEF JobInv, JobTyped, EarnedBy

LEMMA JobInvStep ==
    ASSUME JobInv, [JobNext]_jobVars
    PROVE  JobInv'
<1>1. CASE Go(Process) \/ Go(Tick) \/ Go(Interrupt) \/ Go(Cluster)
  <2>1. /\ [Next]_vars /\ ran' = ran \cup applied' /\ UNCHANGED attempt /\ Typed
    BY <1>1, GoIsAStep DEF JobInv, JobTyped
  <2>2. Typed'
    BY <2>1, TypedStep
  <2>3. JobTyped'
    BY <2>1, <2>2 DEF JobInv, JobTyped, Typed, TypeOK
  <2>4. PICK S : S = ran'
    OBVIOUS
  <2>5. NothingBut(S) /\ EarnedBy(S) /\ applied' \subseteq S
    BY <2>1, <2>4 DEF JobInv, NothingBut, EarnedBy
  <2>6. NothingBut(S)' /\ EarnedBy(S)'
    BY <2>1, <2>5, NothingButStep, EarnedStep
  <2> QED
    BY <2>1, <2>3, <2>4, <2>6 DEF JobInv, NothingBut, EarnedBy
<1>2. CASE Kill
  <2>1. JobTyped'
    BY <1>2, KillTyped DEF JobInv
  <2>2. /\ UNCHANGED <<conf, objects, applied, result, ran>> /\ ~Checking'
    BY <1>2 DEF Kill, cluster, history, Checking
  <2> QED
    BY <2>1, <2>2 DEF JobInv, NothingBut, EarnedBy
<1>3. CASE Retry
  <2>1. JobTyped'
    BY <1>3, RetryTyped DEF JobInv
  <2>2. /\ UNCHANGED <<conf, objects, ran>> /\ applied' = {}
        /\ step' = 1 /\ result' = "none"
    BY <1>3 DEF Retry
  <2>3. CreatedBy(conf', step' - 1) = {}
    BY <2>2 DEF CreatedBy
  <2> QED
    BY <2>1, <2>2, <2>3 DEF JobInv, NothingBut, EarnedBy
<1>4. CASE UNCHANGED jobVars
  BY <1>4 DEF jobVars, vars, job, cluster, pending, history, poll, cleanup, JobInv, JobTyped, Typed, TypeOK,
     CleanupNotBegun, NothingBut, EarnedBy, PodsAwaited, Current, Checking
<1> QED
  BY <1>1, <1>2, <1>3, <1>4 DEF JobNext

(***************************************************************************)
(* A Job is type correct, however its attempts end and follow each other.  *)
(***************************************************************************)
THEOREM JobsAreTyped == JobSpec => []JobTypeOK
<1>1. JobInv => JobTypeOK
  BY DEF JobInv, JobTyped, Typed, JobTypeOK
<1> QED
  BY <1>1, JobInvInit, JobInvStep, PTL DEF JobSpec

(***************************************************************************)
(* No attempt of a Job passes on objects that the Job did not apply, for   *)
(* every check, timeout and back-off limit, wherever the attempts before   *)
(* were killed and whenever their abandoned requests arrive.               *)
(***************************************************************************)
THEOREM JobPassesAreEarned == JobSpec => []JobPassMeansApplied
<1>1. JobInv => JobPassMeansApplied
  BY DEF JobInv, EarnedBy, JobPassMeansApplied
<1> QED
  BY <1>1, JobInvInit, JobInvStep, PTL DEF JobSpec

-----------------------------------------------------------------------------
(* The clean-up of a Job.  All that is in the namespace was applied by     *)
(* some attempt, and so is on the list of every attempt's clean-up.        *)

LEMMA SentStep ==
    ASSUME Typed, [Next]_vars
    PROVE  Own' \subseteq Own \cup Created(conf)
<1>1. Current.op = "create" => Object \in Created(conf)
  BY CallFacts DEF Created, CreatedBy, Current
<1>2. CASE Sends
  BY <1>1, <1>2 DEF Sends, Doing, Apply, Own
<1>3. CASE Updates
  BY <1>1, <1>3 DEF Updates, Typed, TypeOK, Own
<1>4. CASE Untouched \/ DeleteNext \/ Drifts
  BY <1>4 DEF Untouched, cluster, pending, history, DeleteNext, Drifts, LateArrive, LateUpdate,
     Finalize, Apply, Own
<1> QED
  BY <1>2, <1>3, <1>4, ClusterStep

JobOwns == ran \cup Own \subseteq Created(conf)

SweepInv == JobInv /\ JobOwns /\ (~killed => Swept)

LEMMA SweepStep ==
    ASSUME SweepInv, [JobNext]_jobVars
    PROVE  SweepInv'
<1>1. JobInv'
  BY JobInvStep DEF SweepInv
<1>2. CASE Go(Process) \/ Go(Tick) \/ Go(Interrupt) \/ Go(Cluster)
  <2>1. [Next]_vars /\ ran' = ran \cup applied' /\ Typed /\ UNCHANGED killed
    BY <1>2, GoIsAStep DEF Go, SweepInv, JobInv, JobTyped
  <2>2. conf' = conf /\ Own' \subseteq Own \cup Created(conf)
    BY <2>1, SentStep, CleanupStep
  <2>3. JobOwns'
    BY <2>1, <2>2 DEF SweepInv, JobOwns, Own, Created
  <2>4. ~killed' => Swept'
    BY <2>1, SweptStep DEF SweepInv
  <2> QED
    BY <1>1, <2>3, <2>4 DEF SweepInv
<1>3. CASE Kill
  BY <1>1, <1>3 DEF Kill, cluster, pending, history, SweepInv, JobOwns, Own, Created
<1>4. CASE Retry
  BY <1>1, <1>4
  DEF Retry, pending, SweepInv, JobOwns, Own, Created, Swept, Sweeping, Checking
<1>5. CASE UNCHANGED jobVars
  BY <1>1, <1>5
  DEF jobVars, vars, job, cluster, pending, history, cleanup, SweepInv, JobOwns, Own, Created,
      Swept, Sweeping, Checking, Current, Visited, Silent
<1> QED
  BY <1>2, <1>3, <1>4, <1>5 DEF JobNext

(***************************************************************************)
(* The clean-up of a Job's attempt leaves nothing live in silence, of its  *)
(* own or of the attempts killed before it, but for what is stored behind  *)
(* it: for every check, whatever its objects, the back-off limit, and the  *)
(* points at which attempts were killed.                                   *)
(***************************************************************************)
THEOREM JobLeaksAreReported == JobSpec => []JobLeakIsReported
<1>1. ASSUME JobInit PROVE SweepInv
  <2>1. JobInv
    BY <1>1, JobInvInit
  <2> QED
    BY <1>1, <2>1 DEF JobInit, Init, SweepInv, JobOwns, Own, Swept, Sweeping, Checking
<1>2. SweepInv /\ [JobNext]_jobVars => SweepInv'
  BY SweepStep
<1>3. ASSUME SweepInv PROVE JobLeakIsReported
  <2> SUFFICES ASSUME CleanUpRan, NEW o \in Objects, objects[o] = "live"
               PROVE  o \in reported \cup revived
    BY DEF JobLeakIsReported
  <2>1. conf \in Confs /\ o \in Created(conf)
    BY <1>3 DEF SweepInv, JobInv, JobTyped, Typed, TypeOK, NothingBut, JobOwns
  <2>2. PICK k \in DOMAIN conf.undo : conf.undo[k] = o
    BY <2>1, ConfsAssumption
  <2>3. Swept /\ Sweeping /\ Visited(k)
    BY <1>3 DEF SweepInv, Sweeping, Visited, Checking, Over, CleanUpRan
  <2> QED
    BY <2>2, <2>3 DEF Swept, Silent
<1> QED
  BY <1>1, <1>2, <1>3, PTL DEF JobSpec

-----------------------------------------------------------------------------
(* ReverseTeardown, which depends on the order of the clean-up.            *)

\* What was created after an object is deleted before it.
UndoReverses(c) ==
    \A i, j \in DOMAIN c.steps, k \in DOMAIN c.undo :
        i < j /\ c.steps[i] = Create(c.undo[k]) =>
            \A p \in Objects : c.steps[j] = Create(p) =>
                \E l \in 1..(k - 1) : c.undo[l] = p

(***************************************************************************)
(* When cleanUpResources() deletes in the reverse order of creation, no    *)
(* object is taken down before what was created after it is gone, going,   *)
(* reported, or has come back from an abandoned create in a namespace that *)
(* was used before: also when deletions fail, abandoned requests arrive    *)
(* and objects linger in between.                                          *)
(***************************************************************************)
THEOREM TeardownIsReversed ==
    ASSUME \A c \in Confs : UndoReverses(c)
    PROVE  Spec => ReverseTeardown
<1>1. ASSUME IInv, [Next]_vars, NEW o \in Objects,
             objects[o] = "live", objects'[o] = "terminating"
      PROVE  \A p \in CreatedAfter(o) : objects[p] # "live" \/ p \in reported \/ Astray(p)
  <2>1. objects \in [Objects -> ObjectState] /\ conf \in Confs
    BY <1>1 DEF IInv, Typed, TypeOK
  <2>2. DeleteNext /\ o = conf.undo[d]
    <3>1. ~(Untouched \/ Updates)
      BY <1>1 DEF Untouched, cluster, Updates
    <3>2. ~Sends
      BY <1>1, <2>1 DEF Sends, Apply, Stored
    <3>3. ~Drifts
      BY <1>1, <2>1
      DEF Drifts, LateArrive, LateUpdate, Apply, Stored, Finalize, Finalized, NothingThere
    <3>4. DeleteNext
      BY <1>1, <3>1, <3>2, <3>3, ClusterStep
    <3> QED
      BY <1>1, <2>1, <3>4 DEF DeleteNext, Deleted
  <2>3. SUFFICES ASSUME NEW p \in CreatedAfter(o), objects[p] = "live"
                 PROVE  p \in reported \/ Astray(p)
    OBVIOUS
  <2>4. d \in DOMAIN conf.undo /\ p \in Objects /\ pc = "cleanup"
    BY <1>1, <2>2 DEF IInv, Typed, TypeOK, DeleteNext, CreatedAfter
  <2>5. PICK l \in 1..(d - 1) : conf.undo[l] = p
    BY <2>1, <2>2, <2>4 DEF CreatedAfter, UndoReverses
  <2>6. l \in DOMAIN conf.undo /\ Visited(l)
    BY <2>1, <2>4, ConfFacts DEF Visited
  <2>7. Sweeping
    BY <2>2 DEF DeleteNext, Sweeping, Checking
  <2>8. p \in reported \cup revived
    BY <1>1, <2>3, <2>5, <2>6, <2>7 DEF IInv, Swept, Silent
  <2>9. conf.fresh => revived \subseteq reported
    BY <1>1, <2>7 DEF IInv, FreshKnown, FreshRevived, Sweeping
  <2> QED
    BY <2>8, <2>9 DEF Astray
<1>2. IInv /\ [Next]_vars =>
        [\A o \in Objects :
            objects[o] = "live" /\ objects'[o] = "terminating"
            => \A p \in CreatedAfter(o) :
                  objects[p] # "live" \/ p \in reported \/ Astray(p)]_vars
  BY <1>1
<1>3. Spec => []IInv
  BY IInvInit, IInvStep, PTL DEF Spec
<1> QED
  BY <1>2, <1>3, PTL DEF Spec, ReverseTeardown

-----------------------------------------------------------------------------
(* KeepsContract.  An initial state of Check is one of the contract, and   *)
(* each step is a step of the contract or changes nothing that it can see. *)

\* What every step is taken from and leads to.
Inv == IInv /\ Earned

\* The moves of the contract; its account is seen to apart.
Moves == \/ \E o \in Objects : Contract!Acquire(o) \/ Contract!Arrive(o)
         \/ Contract!Conclude \/ Contract!CleanUp \/ Contract!Vanish \/ Contract!Cancel
         \/ UNCHANGED Contract!vars

Failing == \E outcome \in {"error", "cancelled", "timeout"} : Fail(outcome)

LEMMA ContractInit ==
    ASSUME Init
    PROVE  Contract!Init
<1>1. /\ conf \in Confs /\ conf.debug \in BOOLEAN /\ conf.fresh \in BOOLEAN
      /\ ctxDone \in BOOLEAN
  BY ConfFacts, TypedInit DEF Init, Typed, TypeOK
<1>2. Due(conf) \in SUBSET Objects
  BY DEF Due, Created, CreatedBy
<1>3. Phase = "running" /\ Verdict = "none"
  BY DEF Init, Phase, Checking, Verdict
<1>4. applied = {} /\ reported = {} /\ Dangling = {} /\ Abandoned = {}
  BY DEF Init, Own, Dangling, Abandoned
<1> QED
  BY <1>1, <1>2, <1>3, <1>4 DEF Contract!Init, Contract!Terms

\* A check that is over accounts for what it may have left.
LEMMA Accounting ==
    ASSUME Inv
    PROVE  Contract!Accounts
<1> SUFFICES ASSUME Phase = "over", ~conf.debug, NEW o \in Dangling
             PROVE  o \in reported \cup (IF conf.fresh THEN {} ELSE Abandoned)
  BY DEF Contract!Accounts, Contract!Excused
<1>1. CleanedUp
  BY DEF Phase, CleanedUp, Checking, Inv, IInv, Typed, TypeOK, Places
<1>2. o \in Own /\ Loose(o)
  BY DEF Dangling
<1>3. /\ objects[o] = "live" => o \in reported \/ Astray(o)
      /\ conf.fresh /\ o \in inflight => o \in reported
  BY <1>1, <1>2, CleanedUpFacts DEF Inv
<1> QED
  BY <1>2, <1>3 DEF Loose, Astray, Abandoned

\* A check without a clean-up creates nothing.
LEMMA NothingToCleanUp ==
    ASSUME NEW c \in Confs, Len(c.undo) = 0
    PROVE  CreatedBy(c, Len(c.steps)) = {}
<1>1. DOMAIN c.undo = {}
  BY ConfFacts
<1> QED
  BY <1>1, ConfsAssumption DEF Created, CreatedBy

\* Leaving a call is a decision, unless another call follows.
LEMMA LeavingDecides ==
    ASSUME Inv, Inv', Checking, Advance \/ Failing
    PROVE  /\ UNCHANGED <<conf, ctxDone, reported>>
           /\ Contract!Decide \/ UNCHANGED <<Phase, Verdict>>
<1>1. /\ UNCHANGED <<conf, ctxDone, reported>>
      /\ Phase = "running" /\ Verdict = "none" /\ result = "none"
  BY DEF Inv, IInv, Typed, CleanupNotBegun, Advance, Failing, Fail, cleanup, Phase, Verdict
<1>2. CASE pc' = "step"
  BY <1>1, <1>2 DEF Advance, Exit, Failing, Fail, Phase, Verdict, Checking
<1>3. CASE pc' # "step"
  <2>1. /\ pc' = Exit /\ result' # "none" /\ (result' = "nil" => Advance)
    BY <1>3 DEF Advance, Failing, Fail
  <2>2. Verdict' \in {"pass", "fail"} /\ (Verdict' = "pass" => result' = "nil")
    BY <2>1 DEF Verdict
  <2>3. result' = "nil" => Due(conf) \subseteq applied'
    BY <1>1 DEF Inv, Earned, EarnedBy, Due
  <2>4. CASE Len(conf.undo) = 0
    <3>1. conf \in Confs /\ step' \in 1..Len(conf.steps) /\ CallsMade' = step'
      BY <1>1, <1>3, ConfFacts DEF CallsMade, Inv, IInv, Typed, TypeOK
    <3>2. Own' \subseteq CreatedBy(conf, step')
      BY <1>1, <3>1 DEF Inv, IInv, OnlyOwnObjects
    <3>3. CreatedBy(conf, step') \subseteq CreatedBy(conf, Len(conf.steps))
      BY <3>1, ConfFacts, CreatedByGrows
    <3>4. Own' = {}
      BY <2>4, <3>1, <3>2, <3>3, NothingToCleanUp
    <3>5. Dangling' = {} /\ applied' = {} /\ Phase' = "over"
      BY <2>1, <2>4, <3>4 DEF Own, Dangling, Phase, Checking, Exit
    <3> QED
      BY <1>1, <2>2, <2>3, <3>5 DEF Contract!Decide
  <2>5. CASE Len(conf.undo) # 0
    <3>1. Phase' = "closing"
      BY <2>1, <2>5 DEF Phase, Checking, Exit
    <3> QED
      BY <1>1, <2>2, <2>3, <3>1 DEF Contract!Decide
  <2> QED BY <2>4, <2>5
<1> QED
  BY <1>2, <1>3

\* Leaving a call that did nothing to the cluster.
LEMMA LeavingConcludes ==
    ASSUME Inv, Inv', Checking, Advance \/ Failing, UNCHANGED cluster
    PROVE  Contract!Conclude \/ UNCHANGED Contract!vars
<1>1. /\ UNCHANGED <<conf, ctxDone, reported>>
      /\ Contract!Decide \/ UNCHANGED <<Phase, Verdict>>
  BY LeavingDecides
<1>2. UNCHANGED <<applied, Dangling, Abandoned>>
  BY DEF cluster, pending, history, Own, Dangling, Loose, Abandoned
<1>3. Phase = "running"
  BY DEF Phase
<1> QED
  BY <1>1, <1>2, <1>3 DEF Contract!Conclude, Contract!vars

\* Leaving a call that sent a request.
LEMMA LeavingAcquires ==
    ASSUME Inv, Inv', Checking, Advance \/ Failing, NEW o \in Objects,
           ctxDone => o = "namespace",
           applied' \in {applied, applied \cup {o}},
           Dangling' \in {Dangling, Dangling \cup {o}},
           Abandoned' \in {Abandoned, Abandoned \cup {o}}
    PROVE  Contract!Acquire(o)
<1>1. /\ UNCHANGED <<conf, ctxDone, reported>>
      /\ Contract!Decide \/ UNCHANGED <<Phase, Verdict>>
  BY LeavingDecides
<1>2. Phase = "running"
  BY DEF Phase
<1> QED
  BY <1>1, <1>2 DEF Contract!Acquire

\* A create brings its object to life, or puts it on its way.
LEMMA CreateDangles ==
    ASSUME Inv, Sends
    PROVE  /\ Object \in Objects
           /\ applied' \in {applied, applied \cup {Object}}
           /\ Dangling' \in {Dangling, Dangling \cup {Object}}
           /\ Abandoned' \in {Abandoned, Abandoned \cup {Object}}
<1>1. /\ Object \in Objects /\ objects \in [Objects -> ObjectState]
      /\ Own \subseteq Objects /\ UNCHANGED <<delayed, revived>>
  BY CallFacts DEF Inv, IInv, Typed, TypeOK, Sends, Doing, Own
<1>2. Object \notin Own
  BY SentOnce DEF Inv, IInv, Sends
<1>3. CASE Apply(Object) /\ UNCHANGED inflight
  <2>1. \A o \in Objects : objects'[o] = IF o = Object THEN "live" ELSE objects[o]
    BY <1>1, <1>3 DEF Apply, Stored
  <2>2. Own' = Own \cup {Object} /\ \A o \in Objects : Loose(o)' <=> Loose(o) \/ o = Object
    BY <1>1, <1>3, <2>1 DEF Apply, Own, Loose
  <2>3. Dangling' = Dangling \cup {Object}
    BY <1>1, <1>2, <2>2 DEF Dangling
  <2> QED
    BY <1>1, <1>3, <2>3 DEF Apply, Abandoned
<1>4. CASE inflight' = inflight \cup {Object} /\ UNCHANGED <<objects, applied>>
  <2>1. Own' = Own \cup {Object} /\ \A o \in Objects : Loose(o)' <=> Loose(o) \/ o = Object
    BY <1>1, <1>4 DEF Own, Loose
  <2>2. Dangling' = Dangling \cup {Object}
    BY <1>1, <1>2, <2>1 DEF Dangling
  <2> QED
    BY <1>1, <1>4, <2>2 DEF Abandoned
<1> QED
  BY <1>1, <1>3, <1>4 DEF Sends

\* An update may make an object of an earlier run this check's own.
LEMMA UpdateDangles ==
    ASSUME Inv, Updates
    PROVE  /\ Object \in Objects
           /\ applied' \in {applied, applied \cup {Object}}
           /\ Dangling' \in {Dangling, Dangling \cup {Object}}
           /\ Abandoned' \in {Abandoned, Abandoned \cup {Object}}
<1>1. Object \in Objects /\ UNCHANGED <<objects, inflight, revived>>
  BY CallFacts DEF Inv, IInv, Typed, TypeOK, Updates
<1>2. Own' \in {Own, Own \cup {Object}} /\ \A o \in Objects : Loose(o)' <=> Loose(o)
  BY <1>1 DEF Updates, Own, Loose
<1>3. Own \subseteq Objects
  BY DEF Inv, IInv, Typed, TypeOK, Own
<1> QED
  BY <1>1, <1>2, <1>3 DEF Updates, Dangling, Abandoned

\* Calls and conditions are the check's running phase.
LEMMA CallRefines ==
    ASSUME Inv, Inv', Call
    PROVE  Moves
<1>1. ASSUME Contract!Conclude \/ UNCHANGED Contract!vars PROVE Moves
  BY <1>1 DEF Moves
<1>2. ASSUME NEW o \in Objects, Contract!Acquire(o) PROVE Moves
  BY <1>2 DEF Moves
<1>3. CASE ListNodes \/ SleepOver \/ SleepCancelled
  BY <1>1, <1>3, LeavingConcludes
  DEF ListNodes, SleepOver, SleepCancelled, Doing, Checking, Failing
<1>4. CASE ListNodesFails
  <2>1. /\ UNCHANGED <<conf, ctxDone, reported>> /\ UNCHANGED cluster
        /\ Phase = "running" /\ Phase' = "over" /\ Verdict' = "fail"
    BY <1>4 DEF ListNodesFails, Doing, cleanup, Phase, Checking, Verdict
  <2>2. step = 1 /\ CallsMade = 0
    BY <1>4, CallFacts, ConfFacts, ConfsAssumption, StepFacts
    DEF ListNodesFails, Doing, Inv, IInv, Current, CallsMade
  <2>3. Own = {}
    BY <2>2 DEF Inv, IInv, OnlyOwnObjects, CreatedBy
  <2>4. /\ UNCHANGED <<applied, Dangling, Abandoned>>
        /\ applied' \cup Dangling' = {}
    BY <2>1, <2>3 DEF cluster, pending, history, Own, Dangling, Abandoned
  <2>5. Contract!Conclude
    BY <2>1, <2>4 DEF Contract!Conclude, Contract!Decide
  <2> QED BY <1>1, <2>5
<1>5. CASE CreateStored \/ CreateFails
  <2>1. Checking /\ (Advance \/ Failing)
    BY <1>5 DEF CreateStored, CreateFails, Doing, Checking, Failing
  <2>2. CASE UNCHANGED cluster
    BY <1>1, <2>1, <2>2, LeavingConcludes
  <2>3. CASE ~UNCHANGED cluster
    <3>1. Sends /\ ~ctxDone
      BY <1>5, <2>3 DEF CreateStored, CreateFails, Admits, pending, history, cluster, Sends
    <3> QED
      BY <1>2, <2>1, <3>1, CreateDangles, LeavingAcquires
  <2> QED BY <2>2, <2>3
<1>6. CASE CreateAlreadyExists
  <2>1. CASE Upserts(Object)
    <3>1. UNCHANGED <<conf, cluster, ctxDone, result, reported>>
          /\ Phase = "running" /\ Phase' = "running"
      BY <1>6, <2>1 DEF CreateAlreadyExists, Doing, cleanup, Phase, Checking
    <3>2. UNCHANGED Contract!vars
      BY <3>1 DEF Contract!vars, cluster, pending, history, Own, Dangling, Loose, Abandoned, Verdict
    <3> QED BY <1>1, <3>2
  <2>2. CASE ~Upserts(Object)
    BY <1>1, <1>6, <2>2, LeavingConcludes DEF CreateAlreadyExists, Doing, Checking, Failing
  <2> QED BY <2>1, <2>2
<1>7. CASE UpdateStored \/ UpdateFails
  <2>1. Checking /\ (Advance \/ Failing) /\ Updates
    BY <1>7 DEF UpdateStored, UpdateFails, Checking, Failing, Updates, pending
  <2>2. CASE UNCHANGED cluster
    BY <1>1, <2>1, <2>2, LeavingConcludes
  <2>3. CASE ~UNCHANGED cluster
    <3>1. CanUpdate
      BY <2>1, <2>3 DEF Updates, cluster, pending, history
    <3>2. ctxDone => Object = "namespace"
      BY <3>1 DEF CanUpdate, UpdateHonoursContext
    <3> QED
      BY <1>2, <2>1, <3>2, UpdateDangles, LeavingAcquires
  <2> QED BY <2>2, <2>3
<1> QED
  BY <1>3, <1>4, <1>5, <1>6, <1>7 DEF Call

LEMMA WaitRefines ==
    ASSUME Inv, Inv', Wait \/ Probe \/ Tick
    PROVE  Moves
<1>1. CASE WaitExpires \/ ProbeTrue \/ ProbeFails
  <2>1. Checking /\ (Advance \/ Failing) /\ UNCHANGED cluster
    BY <1>1 DEF WaitExpires, ProbeTrue, ProbeFails, Checking, Failing
  <2> QED
    BY <2>1, LeavingConcludes DEF Moves
<1>2. CASE WaitBegin \/ TimerFires \/ ProbeFalse \/ Tick
  <2>1. UNCHANGED <<conf, cluster, ctxDone, result, reported>>
        /\ Phase = "running" /\ Phase' = "running"
    BY <1>2 DEF WaitBegin, TimerFires, ProbeFalse, Tick, Doing, cleanup, Phase, Checking
  <2>2. UNCHANGED Contract!vars
    BY <2>1 DEF Contract!vars, cluster, pending, history, Own, Dangling, Loose, Abandoned, Verdict
  <2> QED BY <2>2 DEF Moves
<1> QED
  BY <1>1, <1>2 DEF Wait, Probe

LEMMA DeferRefines ==
    ASSUME Inv, Inv', Defer \/ Send
    PROVE  Moves
<1>1. CASE SkipCleanup
  <2>1. UNCHANGED <<conf, cluster, ctxDone, result, reported>>
        /\ Phase = "closing" /\ Phase' = "over"
    BY <1>1 DEF SkipCleanup, cleanup, Phase, Checking
  <2>2. UNCHANGED <<applied, Dangling, Abandoned, Verdict>> /\ Dangling' \in SUBSET Dangling
    BY <2>1 DEF cluster, pending, history, Own, Dangling, Loose, Abandoned, Verdict
  <2>3. reported \subseteq Objects
    BY DEF Inv, IInv, Typed, TypeOK
  <2>4. Contract!CleanUp
    BY <2>1, <2>2, <2>3 DEF Contract!CleanUp
  <2> QED
    BY <2>4 DEF Moves
<1>2. CASE DeleteNext
  <2>1. /\ UNCHANGED <<conf, ctxDone, result, applied, inflight, delayed, revived>>
        /\ Phase = "closing" /\ Phase' \in {"closing", "over"}
    BY <1>2 DEF DeleteNext, pending, history, Phase, Checking
  <2>2. Own \subseteq Objects /\ reported \subseteq reported' /\ reported' \subseteq Objects
    BY <1>2 DEF DeleteNext, Inv, IInv, Typed, TypeOK, Own
  <2>3. objects \in [Objects -> ObjectState]
    BY DEF Inv, IInv, Typed, TypeOK
  <2>4. \A o \in Objects : objects'[o] = "live" => objects[o] = "live"
    BY <1>2, <2>3 DEF DeleteNext, Deleted
  <2>5. Dangling' \in SUBSET Dangling
    BY <2>1, <2>2, <2>4 DEF Own, Dangling, Loose
  <2>6. Contract!CleanUp
    BY <2>1, <2>2, <2>5 DEF Contract!CleanUp, Verdict, Abandoned
  <2> QED
    BY <2>6 DEF Moves
<1>3. CASE Send
  <2>1. UNCHANGED <<conf, cluster, ctxDone, result, reported>>
        /\ Phase = "over" /\ Phase' = "over"
    BY <1>3 DEF Send, cleanup, Phase, Checking
  <2>2. UNCHANGED Contract!vars
    BY <2>1 DEF Contract!vars, cluster, pending, history, Own, Dangling, Loose, Abandoned, Verdict
  <2> QED BY <2>2 DEF Moves
<1> QED
  BY <1>1, <1>2, <1>3 DEF Defer

LEMMA WorldRefines ==
    ASSUME Inv, Inv', World
    PROVE  Moves
<1>1. CASE Interrupt
  <2>1. UNCHANGED <<conf, cluster, pc, result, reported>> /\ ~ctxDone /\ ctxDone' = TRUE
    BY <1>1 DEF Interrupt, cleanup
  <2>2. UNCHANGED <<applied, Dangling, Abandoned, Phase, Verdict>>
    BY <2>1 DEF cluster, pending, history, Own, Dangling, Loose, Abandoned, Phase, Checking, Verdict
  <2>3. Contract!Cancel
    BY <2>1, <2>2 DEF Contract!Cancel
  <2> QED
    BY <2>3 DEF Moves
<1>2. ASSUME NEW o \in Objects, LateArrive(o) PROVE Moves
  <2>1. /\ UNCHANGED <<conf, ctxDone, pc, result, reported, delayed>>
        /\ o \in inflight /\ inflight' = inflight \ {o}
        /\ objects \in [Objects -> ObjectState] /\ Own \subseteq Objects
    BY <1>2 DEF LateArrive, cleanup, Inv, IInv, Typed, TypeOK, Own
  <2>2. UNCHANGED <<Phase, Verdict>> /\ o \in Dangling /\ o \in Abandoned
    BY <2>1 DEF Phase, Checking, Verdict, Own, Dangling, Loose, Abandoned
  <2>3. CASE Admits(objects, o)
    <3>1. applied' = applied \cup {o} /\ revived' \in {revived, revived \cup {o}}
          /\ \A p \in Objects : objects'[p] = IF p = o THEN "live" ELSE objects[p]
      BY <1>2, <2>1, <2>3 DEF LateArrive, Apply, Stored
    <3>2. Own' = Own /\ \A p \in Objects : Loose(p)' <=> Loose(p)
      BY <2>1, <3>1 DEF Own, Loose
    <3>3. Dangling' = Dangling
      BY <2>1, <3>2 DEF Dangling
    <3>4. Abandoned' \in {Abandoned, Abandoned \ {o}}
      BY <2>1, <3>1 DEF Abandoned
    <3>5. Contract!Arrive(o)
      BY <2>1, <2>2, <3>1, <3>3, <3>4 DEF Contract!Arrive
    <3> QED
      BY <3>5 DEF Moves
  <2>4. CASE ~Admits(objects, o)
    <3>1. UNCHANGED <<objects, applied, revived>>
      BY <1>2, <2>4 DEF LateArrive
    <3>2. Dangling' \in SUBSET Dangling /\ Abandoned' \in SUBSET Abandoned
      BY <2>1, <3>1 DEF Own, Dangling, Loose, Abandoned
    <3>3. Contract!Vanish
      BY <2>1, <2>2, <3>1, <3>2 DEF Contract!Vanish
    <3> QED
      BY <3>3 DEF Moves
  <2> QED BY <2>3, <2>4
<1>3. ASSUME NEW o \in Objects, LateUpdate(o) PROVE Moves
  <2>1. /\ UNCHANGED <<conf, objects, inflight, revived, ctxDone, pc, result, reported>>
        /\ o \in delayed /\ delayed' = delayed \ {o}
        /\ applied' \in {applied, applied \cup {o}}
    BY <1>3 DEF LateUpdate, cleanup
  <2>2. UNCHANGED <<Phase, Verdict>> /\ o \in Abandoned /\ \A p : Loose(p)' <=> Loose(p)
    BY <2>1 DEF Phase, Checking, Verdict, Loose, Abandoned
  <2>3. Abandoned' \in {Abandoned, Abandoned \ {o}}
    BY <2>1 DEF Abandoned
  <2>4. CASE applied' = applied \cup {o}
    <3>1. Own' = Own
      BY <2>1, <2>4 DEF Own
    <3>2. Dangling' = Dangling
      BY <2>2, <3>1 DEF Dangling
    <3>3. Contract!Arrive(o)
      BY <2>1, <2>2, <2>3, <2>4, <3>2 DEF Contract!Arrive
    <3> QED
      BY <3>3 DEF Moves
  <2>5. CASE applied' = applied
    <3>1. Own' \subseteq Own
      BY <2>1, <2>5 DEF Own
    <3>2. Dangling' \in SUBSET Dangling
      BY <2>2, <3>1 DEF Dangling
    <3>3. Contract!Vanish
      BY <2>1, <2>2, <2>3, <2>5, <3>2 DEF Contract!Vanish
    <3> QED
      BY <3>3 DEF Moves
  <2> QED BY <2>1, <2>4, <2>5
<1>4. ASSUME NEW o \in Objects, Finalize(o) PROVE Moves
  <2>1. /\ UNCHANGED <<conf, ctxDone, pc, result, reported, applied, inflight, delayed, revived>>
        /\ objects' = Finalized(objects, o)
        /\ objects \in [Objects -> ObjectState] /\ Own \subseteq Objects
    BY <1>4 DEF Finalize, cleanup, pending, history, Inv, IInv, Typed, TypeOK, Own
  <2>2. UNCHANGED <<Phase, Verdict, Abandoned, Own>>
    BY <2>1 DEF Phase, Checking, Verdict, Abandoned, Own
  <2>3. \A p \in Objects : objects'[p] = "live" => objects[p] = "live"
    BY <2>1 DEF Finalized, NothingThere
  <2>4. Dangling' \in SUBSET Dangling
    BY <2>1, <2>2, <2>3 DEF Dangling, Loose
  <2>5. Contract!Vanish
    BY <2>1, <2>2, <2>4 DEF Contract!Vanish
  <2> QED
    BY <2>5 DEF Moves
<1> QED
  BY <1>1, <1>2, <1>3, <1>4 DEF World

LEMMA ContractStep ==
    ASSUME Inv, Inv', [Next]_vars
    PROVE  Moves
<1>1. CASE UNCHANGED vars
  <2>1. UNCHANGED Contract!vars
    BY <1>1 DEF vars, cluster, pending, history, cleanup, Contract!vars, Own, Dangling, Loose,
       Abandoned, Phase, Checking, Verdict
  <2> QED BY <2>1 DEF Moves
<1> QED
  BY <1>1, CallRefines, WaitRefines, DeferRefines, WorldRefines DEF Next, Done

(***************************************************************************)
(* Every check that satisfies the assumptions keeps the contract: Check    *)
(* implements CheckContract under the mapping of CheckRefinement.          *)
(***************************************************************************)
THEOREM ChecksKeepTheContract == Spec => KeepsContract
<1>1. Init => Inv
  BY IInvInit, EarnedInit DEF Inv
<1>2. Inv /\ [Next]_vars => Inv'
  BY IInvStep, EarnedInv DEF Inv
<1>3. Init => Contract!Init
  BY ContractInit
<1>4. Inv /\ Inv' /\ [Next]_vars => Moves
  BY ContractStep
<1>5. Inv => Contract!Accounts
  BY Accounting
<1>6. Moves /\ Contract!Accounts' => [Contract!Next]_(Contract!vars)
  BY DEF Moves, Contract!Next
<1> QED
  BY <1>1, <1>2, <1>3, <1>4, <1>5, <1>6, PTL DEF Spec, KeepsContract, Contract!Spec
=============================================================================
