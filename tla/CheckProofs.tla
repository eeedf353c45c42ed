---------------------------- MODULE CheckProofs ----------------------------
(***************************************************************************)
(* Theorems about Check, for every set of checks and every timeout that    *)
(* the assumptions of Check allow.                                         *)
(***************************************************************************)
EXTENDS CheckRefinement, TLAPS

-----------------------------------------------------------------------------
(* What the assumptions say of one check, and of one call.                 *)

LEMMA ConfFacts ==
    ASSUME NEW c \in Confs
    PROVE  /\ c.steps \in Seq(Step) /\ c.undo \in Seq(Objects)
           /\ c.debug \in BOOLEAN /\ c.fresh \in BOOLEAN
           /\ Len(c.steps) \in Nat \ {0} /\ Len(c.undo) \in Nat
           /\ DOMAIN c.steps = 1..Len(c.steps)
           /\ DOMAIN c.undo = 1..Len(c.undo)
           /\ \A i \in DOMAIN c.steps : c.steps[i] \in Step
           /\ \A k \in DOMAIN c.undo : c.undo[k] \in Objects
<1>1. /\ c \in [steps : Seq(Step), undo : Seq(Objects), debug : BOOLEAN, fresh : BOOLEAN]
      /\ Len(c.steps) > 0
  BY ConfsAssumption
<1>2. c.steps \in Seq(Step) /\ c.undo \in Seq(Objects)
  BY <1>1
<1> QED
  BY <1>1, <1>2

LEMMA StepFacts ==
    ASSUME NEW s \in Step
    PROVE  /\ s.op = "create" => s.arg \in Objects /\ s = Create(s.arg)
           /\ s.op = "list" => s = List
  BY DEF Step, List, Sleep, Create, Await

-----------------------------------------------------------------------------
(* The inductive invariant.  TypeOK alone is not inductive: the clean-up   *)
(* must start at its first object, with a result.  LeakIsReported is not   *)
(* either: it needs to know which objects a check may have sent out at     *)
(* each point of its course, and what the clean-up has achieved half-way;  *)
(* in a fresh namespace also that an abandoned create has nothing to       *)
(* collide with, so that its object's deletion fails and is reported.      *)

CleanupNotBegun == Checking => d = 1 /\ result = "none"

\* The calls made so far, the current one included once it was sent.
CallsMade == IF pc = "step" THEN step - 1 ELSE step

OnlyOwnObjects == Own \subseteq CreatedBy(conf, CallsMade)

NothingBut(S) == \A o \in Objects : objects[o] # "absent" => o \in S

InflightAbsent == \A o \in inflight : objects[o] = "absent"

\* Alive without a word; not alive yet, and nothing was said.
Silent(o)  == objects[o] = "live" /\ o \notin reported \cup revived
Lurking(o) == o \in inflight /\ o \notin reported

\* The clean-up was deferred, and has come by the k-th object of its list.
Sweeping   == ~Checking /\ ~conf.debug /\ (Current.op = "list" => pc = "cleanup")
Visited(k) == pc = "cleanup" => k < d

Swept == Sweeping => \A k \in DOMAIN conf.undo : Visited(k) => ~Silent(conf.undo[k])

FreshSwept == Sweeping => \A k \in DOMAIN conf.undo : Visited(k) => ~Lurking(conf.undo[k])

FreshRevived == ~conf.debug => revived \subseteq reported

FreshKnown ==
    conf.fresh => NothingBut(applied) /\ InflightAbsent /\ FreshSwept /\ FreshRevived

Typed == TypeOK /\ CleanupNotBegun

IInv == Typed /\ OnlyOwnObjects /\ Swept /\ FreshKnown

-----------------------------------------------------------------------------
(* Leaving a call, by going on or by failing.                              *)

LEMMA AdvanceTyped ==
    ASSUME Typed, Checking, Advance
    PROVE  /\ conf' = conf /\ ctxDone' = ctxDone /\ d' = d /\ reported' = reported
           /\ pc' \in {"step", "cleanup", "send"}
           /\ step' \in DOMAIN conf'.steps
           /\ result' \in Outcomes
           /\ pc' = "cleanup" => d' \in DOMAIN conf'.undo
           /\ CleanupNotBegun'
<1>1. /\ conf \in Confs /\ step \in DOMAIN conf.steps
      /\ d = 1 /\ result = "none" /\ result \in Outcomes
  BY DEF Typed, TypeOK, CleanupNotBegun
<1>2. /\ DOMAIN conf.steps = 1..Len(conf.steps) /\ DOMAIN conf.undo = 1..Len(conf.undo)
      /\ Len(conf.steps) \in Nat /\ Len(conf.undo) \in Nat
  BY <1>1, ConfFacts
<1>3. CASE step < Len(conf.steps)
  BY <1>1, <1>2, <1>3 DEF Advance, cleanup, CleanupNotBegun
<1>4. CASE ~(step < Len(conf.steps))
  BY <1>1, <1>2, <1>4 DEF Advance, Exit, cleanup, Outcomes, CleanupNotBegun, Checking
<1> QED
  BY <1>3, <1>4

LEMMA FailTyped ==
    ASSUME Typed, Checking, NEW outcome \in Outcomes, Fail(outcome)
    PROVE  /\ conf' = conf /\ ctxDone' = ctxDone /\ d' = d /\ reported' = reported
           /\ pc' \in {"cleanup", "send"}
           /\ step' \in DOMAIN conf'.steps
           /\ result' \in Outcomes
           /\ pc' = "cleanup" => d' \in DOMAIN conf'.undo
           /\ CleanupNotBegun'
<1>1. conf \in Confs /\ d = 1 /\ step \in DOMAIN conf.steps
  BY DEF Typed, TypeOK, CleanupNotBegun
<1>2. DOMAIN conf.undo = 1..Len(conf.undo) /\ Len(conf.undo) \in Nat
  BY <1>1, ConfFacts
<1> QED
  BY <1>1, <1>2 DEF Fail, Exit, cleanup, CleanupNotBegun, Checking

-----------------------------------------------------------------------------
(* Type correctness.                                                       *)

\* The types of what most actions leave alone or change in one way only.
LEMMA TypedStep ==
    ASSUME Typed, [Next]_vars
    PROVE  Typed'
<1> USE DEF Typed, Checking, CleanupNotBegun
<1> DEFINE Obj == [Objects -> ObjectState]
<1>1. /\ conf \in Confs /\ objects \in Obj /\ inflight \subseteq Objects
      /\ ctxDone \in BOOLEAN /\ pc \in Places /\ step \in DOMAIN conf.steps
      /\ left \in 0..Timeout /\ due \in BOOLEAN
      /\ delayed \subseteq Objects /\ revived \subseteq Objects
      /\ result \in Outcomes /\ d \in Nat \ {0} /\ (pc = "cleanup" => d \in DOMAIN conf.undo)
      /\ reported \subseteq Objects /\ applied \subseteq Objects
      /\ Timeout \in Nat
  BY TimeoutAssumption DEF TypeOK
<1>2. /\ Current \in Step
      /\ Current.op = "create" => Object \in Objects
      /\ DOMAIN conf.undo = 1..Len(conf.undo) /\ Len(conf.undo) \in Nat
      /\ \A k \in DOMAIN conf.undo : conf.undo[k] \in Objects
  BY <1>1, ConfFacts, StepFacts DEF Current, Object
<1>3. ASSUME NEW o \in Objects PROVE Stored(objects, o) \in Obj /\ Deleted(objects, o) \in Obj
                                     /\ Finalized(objects, o) \in Obj
  BY <1>1 DEF Stored, Deleted, Finalized, NothingThere, ObjectState
<1>4. CASE ListNodes
  BY <1>1, <1>4, AdvanceTyped DEF ListNodes, Doing, cluster, pending, history, poll, TypeOK, Places
<1>5. CASE ListNodesFails
  BY <1>1, <1>5 DEF ListNodesFails, Doing, cluster, pending, history, poll, cleanup, TypeOK, Places, Outcomes
<1>6. CASE SleepOver
  BY <1>1, <1>6, AdvanceTyped DEF SleepOver, Doing, cluster, pending, history, poll, TypeOK, Places
<1>7. CASE SleepCancelled
  BY <1>1, <1>7, FailTyped DEF SleepCancelled, Doing, cluster, pending, history, poll, TypeOK, Places, Outcomes
<1>8. CASE CreateStored
  BY <1>1, <1>2, <1>3, <1>8, AdvanceTyped DEF CreateStored, Doing, Apply, pending, poll, TypeOK, Places
<1>9. CASE CreateAlreadyExists
  <2>1. CASE Upserts(Object)
    BY <1>1, <1>9, <2>1
    DEF CreateAlreadyExists, Doing, Current, cluster, pending, history, poll, cleanup, TypeOK, Places
  <2>2. CASE ~Upserts(Object)
    BY <1>1, <1>9, <2>2, FailTyped
    DEF CreateAlreadyExists, Doing, cluster, pending, history, poll, TypeOK, Places, Outcomes
  <2> QED BY <2>1, <2>2
<1>10. CASE CreateFails
  <2>1. Object \in Objects /\ Doing("create")
    BY <1>2, <1>10 DEF CreateFails, Doing
  <2>2. /\ objects' \in Obj /\ inflight' \subseteq Objects /\ applied' \subseteq Objects
        /\ UNCHANGED <<delayed, revived>>
    BY <1>1, <1>3, <1>10, <2>1 DEF CreateFails, Apply
  <2>3. CASE CarriesOn(Object)
    BY <1>1, <1>10, <2>1, <2>2, <2>3, AdvanceTyped DEF CreateFails, Doing, poll, TypeOK, Places
  <2>4. CASE ~CarriesOn(Object)
    BY <1>1, <1>10, <2>1, <2>2, <2>4, FailTyped
    DEF CreateFails, Doing, poll, TypeOK, Places, Outcomes
  <2> QED BY <2>3, <2>4
<1>11. CASE UpdateStored
  BY <1>1, <1>2, <1>11, AdvanceTyped DEF UpdateStored, pending, poll, TypeOK, Places
<1>12. CASE UpdateFails
  BY <1>1, <1>2, <1>12, FailTyped DEF UpdateFails, poll, TypeOK, Places, Outcomes
<1>13. CASE WaitBegin
  <2>1. left' \in 0..Timeout
    BY <1>1, <1>13 DEF WaitBegin
  <2>2. due' \in BOOLEAN
    BY <1>13, Zenon DEF WaitBegin
  <2> QED
    BY <1>1, <1>13, <2>1, <2>2 DEF WaitBegin, Doing, Current, cluster, pending, history, cleanup, TypeOK, Places
<1>14. CASE TimerFires
  BY <1>1, <1>14 DEF TimerFires, Current, cluster, pending, history, cleanup, TypeOK, Places
<1>15. CASE WaitExpires
  <2>1. left' \in 0..Timeout
    BY <1>1, <1>15 DEF WaitExpires, PollOver
  <2>2. due' \in BOOLEAN
    BY <1>15, Zenon DEF WaitExpires, PollOver
  <2> QED
    BY <1>1, <1>15, <2>1, <2>2, FailTyped DEF WaitExpires, PollOver, cluster, pending, history, TypeOK, Places, Outcomes
<1>16. CASE ProbeTrue
  <2>1. left' \in 0..Timeout
    BY <1>1, <1>16 DEF ProbeTrue, PollOver
  <2>2. due' \in BOOLEAN
    BY <1>16, Zenon DEF ProbeTrue, PollOver
  <2> QED
    BY <1>1, <1>16, <2>1, <2>2, AdvanceTyped DEF ProbeTrue, PollOver, cluster, pending, history, TypeOK, Places
<1>17. CASE ProbeFalse
  BY <1>1, <1>17 DEF ProbeFalse, Current, cluster, pending, history, poll, cleanup, TypeOK, Places
<1>18. CASE ProbeFails
  <2>1. left' \in 0..Timeout
    BY <1>1, <1>18 DEF ProbeFails, PollOver
  <2>2. due' \in BOOLEAN
    BY <1>18, Zenon DEF ProbeFails, PollOver
  <2> QED
    BY <1>1, <1>18, <2>1, <2>2, FailTyped DEF ProbeFails, PollOver, cluster, pending, history, TypeOK, Places, Outcomes
<1>19. CASE Tick
  BY <1>1, <1>19 DEF Tick, Current, cluster, pending, history, cleanup, TypeOK, Places
<1>20. CASE SkipCleanup
  BY <1>1, <1>20 DEF SkipCleanup, cluster, pending, history, poll, cleanup, TypeOK, Places
<1>21. CASE DeleteNext
  BY <1>1, <1>2, <1>3, <1>21 DEF DeleteNext, pending, history, poll, TypeOK, Places
<1>22. CASE Send
  BY <1>1, <1>22 DEF Send, cluster, pending, history, poll, cleanup, TypeOK, Places
<1>23. CASE Interrupt
  BY <1>1, <1>23 DEF Interrupt, Current, cluster, pending, history, poll, cleanup, TypeOK, Places
<1>24. ASSUME NEW o \in Objects, LateArrive(o) PROVE Typed'
  BY <1>1, <1>3, <1>24 DEF LateArrive, Apply, Current, poll, cleanup, TypeOK, Places
<1>25. ASSUME NEW o \in Objects, Finalize(o) PROVE Typed'
  BY <1>1, <1>3, <1>25 DEF Finalize, Current, pending, history, poll, cleanup, TypeOK, Places
<1>27. ASSUME NEW o \in Objects, LateUpdate(o) PROVE Typed'
  BY <1>1, <1>27 DEF LateUpdate, Current, poll, cleanup, TypeOK, Places
<1>26. CASE UNCHANGED vars
  BY <1>1, <1>26 DEF vars, Current, cluster, pending, history, poll, cleanup, TypeOK, Places
<1> QED
  BY <1>4, <1>5, <1>6, <1>7, <1>8, <1>9, <1>10, <1>11, <1>12, <1>13, <1>14, <1>15, <1>16,
     <1>17, <1>18, <1>19, <1>20, <1>21, <1>22, <1>23, <1>24, <1>25, <1>26, <1>27
  DEF Next, Call, Wait, Probe, Defer, World, Done

LEMMA TypedInit ==
    ASSUME Init
    PROVE  Typed
<1>1. /\ conf \in Confs /\ DOMAIN conf.steps = 1..Len(conf.steps)
      /\ Len(conf.steps) \in Nat \ {0}
  BY ConfFacts DEF Init
<1>2. objects \in [Objects -> ObjectState]
  BY DEF Init, NothingThere, Leftover, ObjectState
<1>3. left \in 0..Timeout /\ step \in DOMAIN conf.steps
  BY <1>1, TimeoutAssumption DEF Init
<1>4. due \in BOOLEAN
  BY Zenon DEF Init
<1>5. ctxDone \in BOOLEAN
  BY DEF Init
<1> QED
  BY <1>1, <1>2, <1>3, <1>4, <1>5
  DEF Init, Typed, TypeOK, CleanupNotBegun, Places, Outcomes

(***************************************************************************)
(* Every reachable state is well typed: in particular the main goroutine   *)
(* never runs off the end of the calls of Check() or of its clean-up.      *)
(***************************************************************************)
THEOREM TypeCorrect == Spec => []TypeOK
<1>1. Init => Typed
  BY TypedInit
<1>2. Typed /\ [Next]_vars => Typed'
  BY TypedStep
<1>3. Typed => TypeOK
  BY DEF Typed
<1> QED
  BY <1>1, <1>2, <1>3, PTL DEF Spec

-----------------------------------------------------------------------------
(* Which objects have been sent to the server.                             *)

LEMMA CreatedByGrows ==
    ASSUME NEW c \in Confs, NEW m \in Nat, NEW n \in Nat, m <= n
    PROVE  CreatedBy(c, m) \subseteq CreatedBy(c, n)
BY DEF CreatedBy

\* Where the main goroutine is, in numbers.
LEMMA CallFacts ==
    ASSUME Typed
    PROVE  /\ conf \in Confs
           /\ Len(conf.steps) \in Nat
           /\ step \in 1..Len(conf.steps)
           /\ CallsMade \in Nat /\ CallsMade <= Len(conf.steps)
           /\ Checking => CallsMade <= step
           /\ Current \in Step
           /\ Current.op = "create" => Object \in Objects /\ Current = Create(Object)
<1>1. conf \in Confs /\ step \in DOMAIN conf.steps
  BY DEF Typed, TypeOK
<1>2. /\ DOMAIN conf.steps = 1..Len(conf.steps) /\ Len(conf.steps) \in Nat
      /\ Current \in Step
  BY <1>1, ConfFacts DEF Current
<1> QED
  BY <1>1, <1>2, StepFacts DEF CallsMade, Checking, Object

\* What was sent up to the k-th call is of the calls up to it.
LEMMA OwnIsCreated ==
    ASSUME Typed, OnlyOwnObjects, ~Checking, NEW o \in Own
    PROVE  /\ o \in Objects /\ Current.op # "list"
           /\ \E k \in DOMAIN conf.undo : conf.undo[k] = o
<1>1. CallsMade = step /\ o \in Objects /\ o \in CreatedBy(conf, step)
  BY DEF CallsMade, Checking, OnlyOwnObjects, Typed, TypeOK, Own
<1>2. PICK i \in 1..step : conf.steps[i] = Create(o)
  BY <1>1 DEF CreatedBy
<1>3. o \in Created(conf)
  BY <1>1, <1>2, CallFacts DEF Created, CreatedBy
<1>4. Current.op # "list"
  <2> SUFFICES ASSUME Current.op = "list" PROVE FALSE
    OBVIOUS
  <2>1. step = 1 /\ Current = List
    BY CallFacts, ConfFacts, ConfsAssumption, StepFacts DEF Current
  <2> QED
    BY <1>2, <2>1 DEF Current, List, Create
<1> QED
  BY <1>1, <1>3, <1>4, CallFacts, ConfsAssumption

\* A create that is about to be sent is the first of its object.
LEMMA SentOnce ==
    ASSUME Typed, OnlyOwnObjects, Doing("create")
    PROVE  Object \notin Own
<1> SUFFICES ASSUME Object \in Own PROVE FALSE
  OBVIOUS
<1>1. CallsMade = step - 1 /\ Current.op = "create"
  BY DEF Doing, CallsMade
<1>2. PICK i \in 1..(step - 1) : conf.steps[i] = Create(Object)
  BY <1>1 DEF OnlyOwnObjects, CreatedBy
<1>3. conf.steps[i] = conf.steps[step] /\ conf.steps[i].op = "create"
  BY <1>1, <1>2, CallFacts DEF Current
<1>4. i \in DOMAIN conf.steps /\ step \in DOMAIN conf.steps /\ i # step
  BY <1>2, CallFacts, ConfFacts
<1> QED
  BY <1>3, <1>4, CallFacts, ConfsAssumption

\* Leaving a call leaves it behind.
LEMMA CallLeft ==
    ASSUME Typed, Checking,
           Advance \/ \E outcome \in Outcomes : Fail(outcome)
    PROVE  conf' = conf /\ CallsMade' \in Nat /\ step <= CallsMade'
<1>1. CASE Advance
  BY <1>1, CallFacts DEF Advance, Exit, CallsMade, Checking
<1>2. CASE \E outcome \in Outcomes : Fail(outcome)
  BY <1>2, CallFacts DEF Fail, Exit, CallsMade, Checking
<1> QED
  BY <1>1, <1>2

\* The object of the current call, once sent, is an object of the calls made.
LEMMA SentIsOwn ==
    ASSUME Typed, OnlyOwnObjects, Checking, conf' = conf,
           CallsMade' \in Nat, step <= CallsMade',
           \/ Own' \subseteq Own
           \/ Current.op = "create" /\ Own' \subseteq Own \cup {Object}
    PROVE  OnlyOwnObjects'
<1>1. CreatedBy(conf, CallsMade) \subseteq CreatedBy(conf, CallsMade')
  BY CallFacts, CreatedByGrows
<1>2. CASE Own' \subseteq Own
  BY <1>1, <1>2 DEF OnlyOwnObjects
<1>3. CASE Current.op = "create" /\ Own' \subseteq Own \cup {Object}
  <2>1. Object \in CreatedBy(conf, CallsMade')
    BY <1>3, CallFacts DEF CreatedBy, Current
  <2> QED
    BY <1>1, <1>3, <2>1 DEF OnlyOwnObjects
<1> QED
  BY <1>2, <1>3

LEMMA OwnStep ==
    ASSUME Typed, OnlyOwnObjects, [Next]_vars
    PROVE  OnlyOwnObjects'
<1> DEFINE Outcome == \E outcome \in Outcomes : Fail(outcome)
<1>1. ASSUME Checking, Advance \/ Outcome,
             Own' \subseteq Own \/ (Current.op = "create" /\ Own' \subseteq Own \cup {Object})
      PROVE  OnlyOwnObjects'
  BY <1>1, CallLeft, SentIsOwn
<1>2. ASSUME UNCHANGED conf, CallsMade' = CallsMade, Own' \subseteq Own
      PROVE  OnlyOwnObjects'
  BY <1>2 DEF OnlyOwnObjects
<1>3. ASSUME UNCHANGED <<conf, step>>, Checking, pc' # "step", Own' \subseteq Own
      PROVE  OnlyOwnObjects'
  <2>1. CallsMade' = step
    BY <1>3 DEF CallsMade, Checking
  <2> QED
    BY <1>3, <2>1, CallFacts, SentIsOwn
<1>4. CASE ListNodes \/ SleepOver \/ SleepCancelled
  BY <1>4, <1>1
  DEF ListNodes, SleepOver, SleepCancelled, Doing, Checking, cluster, pending, history, Own, Outcomes
<1>5. CASE ListNodesFails
  BY <1>5, <1>3 DEF ListNodesFails, Doing, Checking, cluster, pending, history, Own
<1>6. CASE CreateStored
  BY <1>6, <1>1 DEF CreateStored, Doing, Checking, Apply, pending, Own
<1>7. CASE CreateAlreadyExists
  <2>1. Checking /\ Own' = Own
    BY <1>7 DEF CreateAlreadyExists, Doing, Checking, cluster, pending, history, Own
  <2>2. CASE Upserts(Object)
    BY <1>7, <2>1, <2>2, <1>3 DEF CreateAlreadyExists
  <2>3. CASE ~Upserts(Object)
    BY <1>7, <2>1, <2>3, <1>1 DEF CreateAlreadyExists, Outcomes
  <2> QED BY <2>2, <2>3
<1>8. CASE CreateFails
  <2>1. Checking /\ Current.op = "create"
    BY <1>8 DEF CreateFails, Doing, Checking
  <2>2. Own' \subseteq Own \cup {Object}
    BY <1>8 DEF CreateFails, Apply, Own
  <2>3. Advance \/ Outcome
    BY <1>8 DEF CreateFails, Outcomes
  <2> QED BY <2>1, <2>2, <2>3, <1>1
<1>9. CASE UpdateStored \/ UpdateFails
  <2>1. Checking /\ Current.op = "create"
    BY <1>9 DEF UpdateStored, UpdateFails, Checking, Typed, TypeOK
  <2>2. Own' \subseteq Own \cup {Object}
    BY <1>9 DEF UpdateStored, UpdateFails, pending, Own
  <2>3. Advance \/ Outcome
    BY <1>9 DEF UpdateStored, UpdateFails, Outcomes
  <2> QED BY <2>1, <2>2, <2>3, <1>1
<1>10. CASE WaitBegin \/ TimerFires \/ ProbeFalse
  BY <1>10, <1>3
  DEF WaitBegin, TimerFires, ProbeFalse, Doing, Checking, cluster, pending, history, Own
<1>11. CASE WaitExpires \/ ProbeTrue \/ ProbeFails
  BY <1>11, <1>1
  DEF WaitExpires, ProbeTrue, ProbeFails, Checking, cluster, pending, history, Own, Outcomes
<1>12. CASE Tick \/ Interrupt \/ UNCHANGED vars
  BY <1>12, <1>2 DEF Tick, Interrupt, vars, cluster, pending, history, Own, CallsMade
<1>13. CASE SkipCleanup \/ DeleteNext \/ Send
  BY <1>13, <1>2 DEF SkipCleanup, DeleteNext, Send, cluster, pending, history, Own, CallsMade
<1>14. ASSUME NEW o \in Objects, LateArrive(o) \/ LateUpdate(o) \/ Finalize(o)
       PROVE  OnlyOwnObjects'
  <2>1. UNCHANGED <<conf, pc, step>> /\ Own' \subseteq Own
    BY <1>14 DEF LateArrive, LateUpdate, Finalize, Apply, pending, history, Own
  <2> QED
    BY <2>1, <1>2 DEF CallsMade
<1> QED
  BY <1>4, <1>5, <1>6, <1>7, <1>8, <1>9, <1>10, <1>11, <1>12, <1>13, <1>14
  DEF Next, Call, Wait, Probe, Defer, World, Done

-----------------------------------------------------------------------------
(* What a step does to the objects of the cluster: it brings one to life   *)
(* that was absent, or it lets one go.                                     *)

\* The steps that change the cluster, by what they may do to it.
Untouched == UNCHANGED cluster
Sends     == /\ Doing("create") /\ ~ctxDone
             /\ \/ objects[Object] = "absent" /\ Apply(Object) /\ UNCHANGED inflight
                \/ inflight' = inflight \cup {Object} /\ UNCHANGED <<objects, applied>>
             /\ UNCHANGED <<delayed, revived>>
Updates   == /\ pc = "update"
             /\ \/ UNCHANGED <<applied, delayed>>
                \/ CanUpdate /\ applied' = applied \cup {Object} /\ UNCHANGED delayed
                \/ CanUpdate /\ delayed' = delayed \cup {Object} /\ UNCHANGED applied
             /\ UNCHANGED <<objects, inflight, revived>>
Drifts    == \E o \in Objects : LateArrive(o) \/ LateUpdate(o) \/ Finalize(o)

LEMMA ClusterStep ==
    ASSUME [Next]_vars
    PROVE  Untouched \/ Sends \/ Updates \/ DeleteNext \/ Drifts
<1>1. CASE CreateStored \/ CreateFails
  BY <1>1
  DEF CreateStored, CreateFails, Admits, pending, history, cluster, Untouched, Sends
<1>2. CASE UpdateStored \/ UpdateFails
  BY <1>2 DEF UpdateStored, UpdateFails, pending, Updates
<1>3. CASE DeleteNext \/ Drifts
  BY <1>3
<1>4. CASE \/ ListNodes \/ ListNodesFails \/ SleepOver \/ SleepCancelled
           \/ CreateAlreadyExists \/ Wait \/ Probe \/ Tick \/ SkipCleanup \/ Send
           \/ Interrupt \/ UNCHANGED vars
  BY <1>4
  DEF ListNodes, ListNodesFails, SleepOver, SleepCancelled, CreateAlreadyExists, Wait,
      WaitBegin, TimerFires, WaitExpires, Probe, ProbeTrue, ProbeFalse, ProbeFails, Tick,
      SkipCleanup, Send, Interrupt, vars, Untouched
<1> QED
  BY <1>1, <1>2, <1>3, <1>4 DEF Next, Call, Defer, World, Done, Drifts

LEMMA NothingButStep ==
    ASSUME Typed, [Next]_vars, NEW S, NothingBut(S), applied' \subseteq S
    PROVE  NothingBut(S)'
<1> USE DEF NothingBut
<1>1. objects \in [Objects -> ObjectState]
  BY DEF Typed, TypeOK
<1>2. CASE Untouched \/ Updates
  BY <1>2 DEF Untouched, cluster, Updates
<1>3. CASE Sends
  BY <1>1, <1>3 DEF Sends, Apply, Stored
<1>4. CASE DeleteNext
  BY <1>1, <1>4 DEF DeleteNext, Deleted
<1>5. ASSUME NEW o \in Objects, LateArrive(o) PROVE NothingBut(S)'
  BY <1>1, <1>5 DEF LateArrive, Apply, Stored
<1>6. ASSUME NEW o \in Objects, Finalize(o) PROVE NothingBut(S)'
  BY <1>1, <1>6 DEF Finalize, Finalized, NothingThere
<1>7. ASSUME NEW o \in Objects, LateUpdate(o) PROVE NothingBut(S)'
  BY <1>7 DEF LateUpdate
<1> QED
  BY <1>2, <1>3, <1>4, <1>5, <1>6, <1>7, ClusterStep DEF Drifts

LEMMA AppliedGrows ==
    ASSUME [Next]_vars
    PROVE  applied \subseteq applied'
<1>1. CASE Drifts
  BY <1>1 DEF Drifts, LateArrive, LateUpdate, Finalize, Apply, history
<1> QED
  BY <1>1, ClusterStep DEF Untouched, cluster, history, Sends, Apply, Updates, DeleteNext

\* In a fresh namespace: a create that is sent finds nothing in its place.
LEMMA InflightStep ==
    ASSUME IInv, conf.fresh, [Next]_vars
    PROVE  InflightAbsent'
<1>1. /\ \A o \in inflight : objects[o] = "absent" /\ o \in Objects
      /\ objects \in [Objects -> ObjectState]
  BY DEF IInv, Typed, TypeOK, FreshKnown, InflightAbsent
<1>2. CASE Untouched \/ Updates
  BY <1>1, <1>2 DEF Untouched, cluster, pending, Updates, InflightAbsent
<1>3. CASE Sends
  <2>1. Object \notin Own /\ Object \in Objects
    BY <1>3, SentOnce, CallFacts DEF IInv, Sends, Doing
  <2>2. objects[Object] = "absent"
    BY <2>1 DEF IInv, FreshKnown, NothingBut, Own
  <2> QED
    BY <1>1, <1>3, <2>1, <2>2 DEF Sends, Apply, Stored, InflightAbsent, Own
<1>4. CASE DeleteNext
  BY <1>1, <1>4 DEF DeleteNext, pending, Deleted, InflightAbsent
<1>5. ASSUME NEW o \in Objects, LateArrive(o) PROVE InflightAbsent'
  BY <1>1, <1>5 DEF LateArrive, Apply, Stored, InflightAbsent
<1>6. ASSUME NEW o \in Objects, Finalize(o) PROVE InflightAbsent'
  BY <1>1, <1>6 DEF Finalize, pending, Finalized, NothingThere, InflightAbsent
<1>7. ASSUME NEW o \in Objects, LateUpdate(o) PROVE InflightAbsent'
  BY <1>1, <1>7 DEF LateUpdate, InflightAbsent
<1> QED
  BY <1>2, <1>3, <1>4, <1>5, <1>6, <1>7, ClusterStep DEF Drifts

-----------------------------------------------------------------------------
(* What a step does to the clean-up.                                       *)

LEMMA CleanupStep ==
    ASSUME Typed, [Next]_vars
    PROVE  /\ conf' = conf /\ reported \subseteq reported'
           /\ \/ DeleteNext
              \/ d' = d /\ (pc' = "cleanup" => pc = "cleanup" \/ Checking)
<1>1. CASE Call
  BY <1>1 DEF Call, ListNodes, ListNodesFails, SleepOver, SleepCancelled, CreateStored,
     CreateAlreadyExists, CreateFails, UpdateStored, UpdateFails, Doing, Advance, Fail,
     cleanup, Checking
<1>2. CASE Wait \/ Probe \/ Tick
  BY <1>2 DEF Wait, WaitBegin, TimerFires, WaitExpires, Probe, ProbeTrue, ProbeFalse,
     ProbeFails, Tick, Doing, Advance, Fail, cleanup, Checking
<1>3. CASE DeleteNext
  BY <1>3 DEF DeleteNext
<1>4. CASE SkipCleanup \/ Send \/ World \/ UNCHANGED vars
  BY <1>4 DEF SkipCleanup, Send, World, Interrupt, LateArrive, LateUpdate, Finalize, vars, cleanup
<1> QED
  BY <1>1, <1>2, <1>3, <1>4 DEF Next, Defer, Done

\* How a check leaves its calls, and gets from there to Send.
LEMMA CourseStep ==
    ASSUME Typed, [Next]_vars, ~Checking'
    PROVE  \/ Checking /\ pc' = Exit
           \/ ListNodesFails
           \/ /\ ~Checking /\ step' = step
              /\ \/ pc' = pc \/ (pc = "send" /\ pc' # "cleanup")
                 \/ SkipCleanup \/ DeleteNext
<1>1. CASE Call
  BY <1>1 DEF Call, ListNodes, SleepOver, SleepCancelled, CreateStored, CreateAlreadyExists,
     CreateFails, UpdateStored, UpdateFails, Doing, Advance, Fail, Checking
<1>2. CASE Wait \/ Probe \/ Tick
  BY <1>2 DEF Wait, WaitBegin, TimerFires, WaitExpires, Probe, ProbeTrue, ProbeFalse,
     ProbeFails, Tick, Doing, Advance, Fail, Checking
<1>3. CASE SkipCleanup \/ DeleteNext
  BY <1>3 DEF SkipCleanup, DeleteNext, Checking
<1>4. CASE Send
  BY <1>4 DEF Send, Checking
<1>5. CASE World \/ UNCHANGED vars
  <2>1. pc' = pc /\ step' = step
    BY <1>5 DEF World, Interrupt, LateArrive, LateUpdate, Finalize, vars
  <2> QED
    BY <2>1 DEF Checking
<1> QED
  BY <1>1, <1>2, <1>3, <1>4, <1>5 DEF Next, Defer, Done

\* What the clean-up has come by it had come by before, but for one deletion.
LEMMA VisitedStep ==
    ASSUME Typed, [Next]_vars, Sweeping', NEW k \in DOMAIN conf.undo, Visited(k)'
    PROVE  (Sweeping /\ Visited(k)) \/ (DeleteNext /\ k = d)
<1>1. /\ conf' = conf /\ conf \in Confs /\ k \in 1..Len(conf.undo) /\ Len(conf.undo) \in Nat
      /\ DeleteNext \/ (d' = d /\ (pc' = "cleanup" => pc = "cleanup" \/ Checking))
      /\ ~Checking' /\ d \in Nat \ {0}
  BY CleanupStep, ConfFacts DEF Typed, TypeOK, Sweeping
<1>2. CASE Checking /\ pc' = Exit
  <2>1. d' = 1 /\ pc' = "cleanup"
    BY <1>1, <1>2 DEF Exit, Typed, CleanupNotBegun, DeleteNext, Checking
  <2> QED
    BY <1>1, <2>1 DEF Visited
<1>3. CASE ListNodesFails
  BY <1>1, <1>3 DEF ListNodesFails, Doing, Sweeping, Current
<1>4. CASE DeleteNext
  <2>1. d \in 1..Len(conf.undo) /\ step' = step /\ pc = "cleanup"
    BY <1>1, <1>4 DEF DeleteNext, Typed, TypeOK
  <2>2. Sweeping
    BY <1>1, <2>1 DEF Sweeping, Checking, Current
  <2>3. CASE d < Len(conf.undo)
    <3>1. d' = d + 1 /\ pc' = "cleanup"
      BY <1>4, <2>3, <2>1 DEF DeleteNext
    <3> QED
      BY <1>1, <1>4, <2>2, <3>1 DEF Visited
  <2>4. CASE ~(d < Len(conf.undo))
    BY <1>1, <1>4, <2>1, <2>2, <2>4 DEF Visited
  <2> QED BY <2>3, <2>4
<1>5. CASE ~DeleteNext /\ ~Checking /\ step' = step /\ (pc' = pc \/ (pc = "send" /\ pc' # "cleanup"))
  BY <1>1, <1>5 DEF Sweeping, Visited, Current
<1>6. CASE SkipCleanup
  BY <1>1, <1>6 DEF SkipCleanup, Sweeping
<1> QED
  BY <1>1, <1>2, <1>3, <1>4, <1>5, <1>6, CourseStep

\* An object the clean-up has come by gets live again only if it is revived.
LEMMA SilentStep ==
    ASSUME Typed, [Next]_vars, ~Checking, NEW o \in Objects, Passed(o), ~Silent(o)
    PROVE  ~Silent(o)'
<1>1. objects \in [Objects -> ObjectState] /\ reported \subseteq reported'
  BY CleanupStep DEF Typed, TypeOK
<1>2. CASE Untouched
  BY <1>1, <1>2 DEF Untouched, cluster, history, Silent
<1>3. CASE Sends \/ Updates
  BY <1>3 DEF Sends, Updates, Doing, Checking
<1>4. CASE DeleteNext
  BY <1>1, <1>4 DEF DeleteNext, Deleted, history, Silent
<1>5. ASSUME NEW p \in Objects, LateArrive(p) PROVE ~Silent(o)'
  <2>1. CASE p = o /\ Admits(objects, p)
    BY <1>5, <2>1 DEF LateArrive, Silent
  <2>2. CASE ~(p = o /\ Admits(objects, p))
    BY <1>1, <1>5, <2>2 DEF LateArrive, Apply, Stored, Silent
  <2> QED BY <2>1, <2>2
<1>6. ASSUME NEW p \in Objects, LateUpdate(p) \/ Finalize(p) PROVE ~Silent(o)'
  BY <1>1, <1>6 DEF LateUpdate, Finalize, Finalized, NothingThere, history, Silent
<1> QED
  BY <1>2, <1>3, <1>4, <1>5, <1>6, ClusterStep DEF Drifts

\* Once the calls are over, nothing more is sent.
LEMMA NothingSent ==
    ASSUME [Next]_vars, ~Checking
    PROVE  Own' \subseteq Own /\ inflight' \subseteq inflight
<1>1. CASE Drifts
  BY <1>1 DEF Drifts, LateArrive, LateUpdate, Finalize, Apply, pending, history, Own
<1>2. CASE DeleteNext
  BY <1>2 DEF DeleteNext, pending, history, Own
<1>3. CASE Untouched
  BY <1>3 DEF Untouched, cluster, pending, history, Own
<1> QED
  BY <1>1, <1>2, <1>3, ClusterStep DEF Sends, Updates, Doing, Checking

\* To have come by the k-th object is to have come by that object.
LEMMA VisitedIsPassed ==
    ASSUME Typed, ~Checking, NEW k \in DOMAIN conf.undo, Visited(k)
    PROVE  Passed(conf.undo[k]) /\ conf.undo[k] \in Objects
<1>1. k \in 1..Len(conf.undo) /\ Len(conf.undo) \in Nat /\ d \in Nat /\ conf.undo[k] \in Objects
  BY ConfFacts DEF Typed, TypeOK
<1>2. CASE pc = "cleanup"
  BY <1>1, <1>2 DEF Visited, Passed
<1>3. CASE pc # "cleanup"
  BY <1>1, <1>3 DEF Checking, Passed, Typed, TypeOK, Places
<1> QED
  BY <1>2, <1>3

LEMMA SweptStep ==
    ASSUME Typed, Swept, [Next]_vars
    PROVE  Swept'
<1>1. conf' = conf /\ conf \in Confs /\ \A k \in DOMAIN conf.undo : conf.undo[k] \in Objects
  BY CleanupStep, ConfFacts DEF Typed, TypeOK
<1> SUFFICES ASSUME Sweeping', NEW k \in DOMAIN conf.undo, Visited(k)',
                    NEW o \in Objects, o = conf.undo[k]
             PROVE  ~Silent(o)'
  BY <1>1 DEF Swept, Silent
<1>2. CASE Sweeping /\ Visited(k)
  <2>1. ~Silent(o) /\ ~Checking
    BY <1>2 DEF Swept, Sweeping
  <2>2. Passed(o)
    BY <1>2, <2>1, VisitedIsPassed
  <2> QED
    BY <2>1, <2>2, SilentStep
<1>3. CASE DeleteNext /\ k = d
  <2>1. objects \in [Objects -> ObjectState]
    BY DEF Typed, TypeOK
  <2> QED
    BY <1>3, <2>1 DEF DeleteNext, Deleted, history, Silent
<1> QED
  BY <1>2, <1>3, VisitedStep

\* In a fresh namespace the deletion of an object that is on its way fails.
LEMMA FreshSweptStep ==
    ASSUME IInv, conf.fresh, [Next]_vars
    PROVE  FreshSwept'
<1>1. /\ conf' = conf /\ reported \subseteq reported'
      /\ conf \in Confs /\ \A k \in DOMAIN conf.undo : conf.undo[k] \in Objects
  BY CleanupStep, ConfFacts DEF IInv, Typed, TypeOK
<1> SUFFICES ASSUME Sweeping', NEW k \in DOMAIN conf.undo, Visited(k)',
                    NEW o \in Objects, o = conf.undo[k]
             PROVE  ~Lurking(o)'
  BY <1>1 DEF FreshSwept, Lurking
<1>2. CASE Sweeping /\ Visited(k)
  <2>1. ~Lurking(o) /\ ~Checking
    BY <1>2 DEF IInv, FreshKnown, FreshSwept, Sweeping
  <2>2. inflight' \subseteq inflight
    BY <2>1, NothingSent
  <2> QED
    BY <1>1, <2>1, <2>2 DEF Lurking
<1>3. CASE DeleteNext /\ k = d
  BY <1>3 DEF DeleteNext, pending, IInv, FreshKnown, InflightAbsent, Lurking
<1> QED
  BY <1>2, <1>3, VisitedStep DEF IInv

\* So that what comes to life behind the clean-up was reported.
LEMMA FreshRevivedStep ==
    ASSUME IInv, conf.fresh, [Next]_vars
    PROVE  FreshRevived'
<1>1. conf' = conf /\ reported \subseteq reported'
  BY CleanupStep DEF IInv
<1>2. CASE revived' \subseteq revived
  BY <1>1, <1>2 DEF IInv, FreshKnown, FreshRevived
<1>3. ASSUME ~conf.debug, NEW o \in Objects, LateArrive(o), Passed(o)
      PROVE  o \in reported
  <2>1. o \in inflight /\ o \in Own /\ ~Checking
    BY <1>3 DEF LateArrive, Passed, Own, Checking
  <2>2. Sweeping /\ \E k \in DOMAIN conf.undo : conf.undo[k] = o
    BY <1>3, <2>1, OwnIsCreated DEF IInv, Sweeping
  <2>3. PICK k \in DOMAIN conf.undo : conf.undo[k] = o /\ Visited(k)
    <3>1. CASE pc = "cleanup"
      <4>1. d \in DOMAIN conf.undo /\ DOMAIN conf.undo = 1..Len(conf.undo)
            /\ Len(conf.undo) \in Nat
        BY <3>1, ConfFacts DEF IInv, Typed, TypeOK
      <4>2. PICK k \in 1..(d - 1) : conf.undo[k] = o
        BY <1>3, <3>1 DEF Passed
      <4> QED
        BY <4>1, <4>2 DEF Visited
    <3>2. CASE pc # "cleanup"
      BY <2>2, <3>2 DEF Visited
    <3> QED BY <3>1, <3>2
  <2> QED
    BY <2>1, <2>2, <2>3 DEF IInv, FreshKnown, FreshSwept, Lurking
<1>4. CASE \E o \in Objects : LateArrive(o)
  <2>1. PICK o \in Objects : LateArrive(o)
    BY <1>4
  <2>2. revived' \subseteq revived \/ (Passed(o) /\ revived' = revived \cup {o})
    BY <2>1 DEF LateArrive
  <2> QED
    BY <1>1, <1>2, <1>3, <2>1, <2>2 DEF IInv, FreshKnown, FreshRevived
<1>5. CASE ~\E o \in Objects : LateArrive(o)
  <2>1. revived' = revived
    BY <1>5, ClusterStep
    DEF Untouched, cluster, history, Sends, Updates, DeleteNext, Drifts, LateUpdate, Finalize
  <2> QED BY <1>2, <2>1
<1> QED
  BY <1>4, <1>5

LEMMA IInvInit ==
    ASSUME Init
    PROVE  IInv
<1>1. Typed
  BY TypedInit
<1> QED
  BY <1>1 DEF Init, IInv, OnlyOwnObjects, Own, Swept, Sweeping, Checking, FreshKnown,
     NothingBut, NothingThere, InflightAbsent, FreshSwept, FreshRevived

LEMMA IInvStep ==
    ASSUME IInv, [Next]_vars
    PROVE  IInv'
<1>1. Typed' /\ OnlyOwnObjects' /\ Swept' /\ conf' = conf
  BY TypedStep, OwnStep, SweptStep, CleanupStep DEF IInv
<1>2. ASSUME conf.fresh
      PROVE  NothingBut(applied)'
  <2>1. PICK S : S = applied'
    OBVIOUS
  <2>2. NothingBut(S) /\ applied' \subseteq S
    BY <1>2, <2>1, AppliedGrows DEF IInv, FreshKnown, NothingBut
  <2>3. NothingBut(S)'
    BY <2>2, NothingButStep DEF IInv
  <2> QED
    BY <2>1, <2>3 DEF NothingBut
<1>3. conf.fresh => InflightAbsent' /\ FreshSwept' /\ FreshRevived'
  BY InflightStep, FreshSweptStep, FreshRevivedStep
<1> QED
  BY <1>1, <1>2, <1>3 DEF IInv, FreshKnown

\* What the clean-up is answerable for once it is over.
LEMMA CleanedUpFacts ==
    ASSUME IInv, CleanedUp, NEW o \in Own
    PROVE  /\ objects[o] = "live" => o \in reported \/ Astray(o)
           /\ conf.fresh /\ o \in inflight => o \in reported
<1>1. ~Checking /\ ~conf.debug /\ pc # "cleanup"
  BY DEF CleanedUp, Checking
<1>2. PICK k \in DOMAIN conf.undo : conf.undo[k] = o
  BY <1>1, OwnIsCreated DEF IInv
<1>3. Sweeping /\ Visited(k)
  BY <1>1, OwnIsCreated DEF IInv, Sweeping, Visited
<1>4. ~Silent(o)
  BY <1>2, <1>3 DEF IInv, Swept
<1>5. conf.fresh => ~Lurking(o) /\ revived \subseteq reported
  BY <1>1, <1>2, <1>3 DEF IInv, FreshKnown, FreshSwept, FreshRevived
<1> QED
  BY <1>4, <1>5 DEF Silent, Lurking, Astray

(***************************************************************************)
(* Nothing leaks in silence, for every check whose cleanUpResources()      *)
(* deletes what it creates, whenever given-up creates and updates arrive,  *)
(* and whatever was in their place when they were sent: an object that is  *)
(* still live after the clean-up is named by a deletion error in the chat, *)
(* unless it was stored over a leftover that the clean-up had deleted.     *)
(***************************************************************************)
THEOREM LeaksAreReported == Spec => []LeakIsReported
<1>1. Init => IInv
  BY IInvInit
<1>2. IInv /\ [Next]_vars => IInv'
  BY IInvStep
<1>3. ASSUME IInv PROVE LeakIsReported
  BY <1>3, CleanedUpFacts DEF LeakIsReported, Own
<1> QED
  BY <1>1, <1>2, <1>3, PTL DEF Spec

-----------------------------------------------------------------------------
(* What a step may never do.                                               *)

(***************************************************************************)
(* After the cancellation, what the cluster still applies was on its way   *)
(* already, or is the Update of a namespace.                               *)
(***************************************************************************)
THEOREM CancelStopsRequests == Spec => NoApplyAfterCancel
<1>1. ASSUME [Next]_vars, ctxDone
      PROVE  applied' \subseteq applied \cup inflight \cup delayed \cup {"namespace"}
  <2>1. CASE Sends
    BY <1>1, <2>1 DEF Sends
  <2>2. CASE Updates
    BY <1>1, <2>2 DEF Updates, CanUpdate, UpdateHonoursContext
  <2>3. CASE DeleteNext
    BY <2>3 DEF DeleteNext, history
  <2>4. CASE Drifts
    BY <2>4 DEF Drifts, LateArrive, LateUpdate, Finalize, Apply, history
  <2>5. CASE Untouched
    BY <2>5 DEF Untouched, cluster, history
  <2> QED
    BY <1>1, <2>1, <2>2, <2>3, <2>4, <2>5, ClusterStep
<1> QED
  BY <1>1, PTL DEF Spec, NoApplyAfterCancel
=============================================================================
