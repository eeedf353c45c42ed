--------------------------- MODULE DatadogProofs ---------------------------
(***************************************************************************)
(* What the verdicts of the datadog-agent check say, for every number of   *)
(* agents, every delay of the points and every timeout.                    *)
(***************************************************************************)
EXTENDS DatadogMetrics, TLAPS

\* The window is fixed at the end of the sleep, which lasts longer than it.
WindowFixed ==
    /\ phase \in {"polling"} \cup Verdicts => began + WaitTime <= now
    /\ phase = "sleeping" => ~asked
    /\ phase = "new" => ~asked

\* Nothing is reported late, and points are indexed within the delay.
Indexed == \A p \in sent : p[2] + Delay <= clock => p \in index

\* Every query so far has been in vain.
InVain ==
    phase = "polling" /\ ~retried /\ (asked \/ clock > now) =>
        \A t \in (now - Window)..now :
            <<Own, t>> \in sent => t + Delay > IF asked THEN clock ELSE clock - 1

IInv == /\ TypeOK /\ WindowFixed /\ Indexed /\ InVain
        /\ PassMeansAlive /\ TimeoutMeansSilence /\ OwnKeysPrevail

LEMMA Numbers ==
    /\ Delay \in Nat /\ Timeout \in Nat /\ Timeout > 0 /\ LastStart \in Nat
    /\ Own \in Agents /\ WaitTime = 3 /\ Window = 2
BY MetricsAssumption DEF WaitTime, Window

LEMMA InitInv ==
    ASSUME Init
    PROVE  IInv
<1>1. clock = 0 /\ began = 0 /\ now = 0 /\ sent = {} /\ index = {} /\ phase = "new"
      /\ alive \subseteq Agents /\ login \in Logins
  BY DEF Init
<1>2. scoped \in BOOLEAN /\ asked \in BOOLEAN /\ retried \in BOOLEAN /\ ~asked
  <2>1. scoped \in BOOLEAN
    BY DEF Init
  <2>2. asked \in BOOLEAN /\ retried \in BOOLEAN /\ ~asked
    BY Zenon DEF Init
  <2> QED BY <2>1, <2>2
<1>3. TypeOK
  BY <1>1, <1>2 DEF TypeOK
<1>4. WindowFixed /\ Indexed /\ InVain
  BY <1>1, <1>2 DEF WindowFixed, Verdicts, Indexed, InVain
<1>5. PassMeansAlive /\ TimeoutMeansSilence /\ OwnKeysPrevail
  BY <1>1 DEF PassMeansAlive, TimeoutMeansSilence, OwnKeysPrevail
<1> QED
  BY <1>3, <1>4, <1>5 DEF IInv

-----------------------------------------------------------------------------
(* One step: the check, then the agents and Datadog.                       *)

LEMMA TypeStep ==
    ASSUME IInv, [Next]_vars
    PROVE  TypeOK'
<1> USE Numbers DEF TypeOK, Verdicts
<1>1. /\ TypeOK
      /\ clock \in Nat /\ began \in 0..clock /\ now \in 0..clock
      /\ alive \subseteq Agents /\ sent \subseteq Agents \X (0..clock) /\ index \subseteq sent
  BY DEF IInv
<1>2. CASE Begin
  BY <1>1, <1>2 DEF Begin, world, given
<1>3. CASE SleepOver
  BY <1>1, <1>3 DEF SleepOver, world, given
<1>4. CASE Expire
  BY <1>1, <1>4 DEF Expire, world, given
<1>5. CASE Minute
  <2>1. clock' \in Nat /\ clock' = clock + 1 /\ began' \in 0..clock' /\ now' \in 0..clock'
    BY <1>1, <1>5 DEF Minute
  <2>2. sent' \subseteq Agents \X (0..clock')
    BY <1>1, <1>5, <2>1 DEF Minute
  <2>3. index' \subseteq sent'
    BY <1>1, <1>5 DEF Minute
  <2>4. phase' = "polling" => clock' <= now' + Timeout
    BY <1>1, <1>5, <2>1 DEF Minute, MayPass
  <2> QED
    BY <1>1, <1>5, <2>1, <2>2, <2>3, <2>4 DEF Minute, given
<1>6. ASSUME NEW a \in Answers, Query(a) PROVE TypeOK'
  <2>1. Condition(a) \in {"refused", "failed", "polling", "passed"}
    BY DEF Condition, Answers
  <2>2. retried' \in BOOLEAN /\ asked' \in BOOLEAN
    BY <1>1, <1>6 DEF Query
  <2> QED
    BY <1>1, <1>6, <2>1, <2>2 DEF Query, world, given
<1>7. ASSUME NEW p \in sent, Ingest(p) PROVE TypeOK'
  BY <1>1, <1>7 DEF Ingest, given
<1>8. ASSUME NEW a \in Agents, StartOrStop(a) PROVE TypeOK'
  BY <1>1, <1>8 DEF StartOrStop, given
<1>9. CASE UNCHANGED vars
  BY <1>1, <1>9 DEF vars, world, given
<1> QED
  BY <1>2, <1>3, <1>4, <1>5, <1>6, <1>7, <1>8, <1>9 DEF Next, Done

\* What an answer that ends the poll, or does not, was made from.
LEMMA AnswerFacts ==
    ASSUME NEW a \in Answers
    PROVE  /\ Condition(a) = "passed" => Authorized /\ \E p \in index : Matches(p)
           /\ Condition(a) = "polling" => a.error \/ \A p \in index : ~Matches(p)
           /\ Condition(a) = "refused" => ~Authorized
           /\ Condition(a) \in {"passed", "polling", "refused", "failed"}
<1>1. CASE a = [err |-> TRUE, status |-> "none", error |-> FALSE, series |-> FALSE]
  BY <1>1 DEF Condition
<1>2. CASE ~Authorized /\ a \in [err : {TRUE}, status : {"401", "403"}, error : {FALSE}, series : {FALSE}]
  BY <1>2 DEF Condition
<1>3. CASE Authorized /\ a \in [err : {TRUE}, status : {"429", "500"}, error : {FALSE}, series : {FALSE}]
  BY <1>3 DEF Condition
<1>4. CASE Authorized /\ a \in [err : {FALSE}, status : {"200", "202"}, error : {TRUE}, series : {FALSE}]
  BY <1>4 DEF Condition
<1>5. CASE Authorized /\ a = [err |-> FALSE, status |-> "200", error |-> FALSE,
                             series |-> \E p \in index : Matches(p)]
  BY <1>5 DEF Condition
<1> QED
  BY <1>1, <1>2, <1>3, <1>4, <1>5 DEF Answers

LEMMA QueryStep ==
    ASSUME IInv, NEW a \in Answers, Query(a)
    PROVE  InVain' /\ PassMeansAlive' /\ OwnKeysPrevail'
<1> USE Numbers
<1>1. /\ UNCHANGED <<clock, sent, index, login, scoped, began, now>>
      /\ phase = "polling" /\ phase' = Condition(a)
      /\ began + WaitTime <= now /\ began \in Nat /\ now \in Nat /\ clock \in Nat
      /\ sent \subseteq Agents \X (0..clock) /\ index \subseteq sent
  BY DEF Query, world, given, IInv, WindowFixed, TypeOK
<1>2. InVain'
  <2>1. SUFFICES ASSUME phase' = "polling", ~retried', NEW t \in (now - Window)..now,
                        <<Own, t>> \in sent
                 PROVE  t + Delay > clock
    BY <1>1 DEF InVain, Query
  <2>2. ~a.error
    BY <1>1, <2>1 DEF Query
  <2>3. \A p \in index : ~Matches(p)
    BY <1>1, <2>1, <2>2, AnswerFacts
  <2>4. <<Own, t>> \notin index
    BY <1>1, <2>1, <2>3 DEF Matches, Queried
  <2> QED
    BY <1>1, <2>1, <2>4 DEF IInv, Indexed
<1>3. PassMeansAlive'
  <2>1. SUFFICES ASSUME phase' = "passed"
                 PROVE  \E b \in Agents : ReportedDuringSleep(b)' /\ (scoped => b = Own)
    BY <1>1 DEF PassMeansAlive
  <2>2. PICK p \in index : Matches(p)
    BY <1>1, <2>1, AnswerFacts
  <2>3. p[1] \in Agents /\ p[2] \in (began + 1)..now /\ p = <<p[1], p[2]>>
    BY <1>1, <2>2 DEF Matches, Queried
  <2>4. ReportedDuringSleep(p[1])'
    BY <1>1, <2>2, <2>3 DEF ReportedDuringSleep
  <2> QED
    BY <2>2, <2>3, <2>4 DEF Matches
<1>4. OwnKeysPrevail'
  BY <1>1, AnswerFacts DEF OwnKeysPrevail, Authorized, KeysUsed
<1> QED
  BY <1>2, <1>3, <1>4

LEMMA MinuteStep ==
    ASSUME IInv, Minute
    PROVE  Indexed' /\ InVain'
<1> USE Numbers
<1>1. /\ clock' = clock + 1 /\ phase' = phase /\ now' = now /\ retried' = retried
      /\ clock \in Nat /\ now \in 0..clock /\ ~asked' /\ MayPass
      /\ index' = index \cup {p \in sent' : p[2] + Delay <= clock'}
      /\ sent' = sent \cup {<<a, clock'>> : a \in alive}
  BY Zenon DEF Minute, IInv, TypeOK, given
<1>2. Indexed'
  BY <1>1 DEF Indexed
<1>3. InVain'
  <2>1. SUFFICES ASSUME phase = "polling", ~retried, NEW t \in (now - Window)..now,
                        <<Own, t>> \in sent'
                 PROVE  t + Delay > clock
    BY <1>1 DEF InVain
  <2>2. asked /\ <<Own, t>> \in sent
    BY <1>1, <2>1 DEF MayPass
  <2> QED
    BY <1>1, <2>1, <2>2 DEF IInv, InVain
<1> QED
  BY <1>2, <1>3

LEMMA ExpireStep ==
    ASSUME IInv, Expire
    PROVE  TimeoutMeansSilence'
<1> USE Numbers
<1>1. /\ UNCHANGED <<sent, now, retried>> /\ phase = "polling"
      /\ clock >= now + Timeout /\ clock \in Nat /\ now \in Nat
  BY DEF Expire, world, IInv, TypeOK
<1> QED
  BY <1>1 DEF TimeoutMeansSilence, IInv, InVain

LEMMA InvStep ==
    ASSUME IInv, [Next]_vars
    PROVE  IInv'
<1> USE Numbers DEF Verdicts
<1>1. /\ TypeOK' /\ WindowFixed /\ Indexed /\ InVain
      /\ PassMeansAlive /\ TimeoutMeansSilence /\ OwnKeysPrevail
      /\ clock \in Nat /\ began \in Nat /\ now \in Nat
  BY TypeStep DEF IInv, TypeOK
<1> SUFFICES /\ WindowFixed' /\ Indexed' /\ InVain'
             /\ PassMeansAlive' /\ TimeoutMeansSilence' /\ OwnKeysPrevail'
  BY <1>1 DEF IInv
<1> USE DEF PassMeansAlive, ReportedDuringSleep, TimeoutMeansSilence, OwnKeysPrevail
<1>2. CASE Begin
  BY <1>1, <1>2 DEF Begin, world, given, WindowFixed, Indexed, InVain
<1>3. CASE SleepOver
  BY <1>1, <1>3 DEF SleepOver, world, given, WindowFixed, Indexed, InVain
<1>4. CASE Expire
  BY <1>1, <1>4, ExpireStep DEF Expire, world, given, WindowFixed, Indexed, InVain
<1>5. CASE Minute
  <2>1. phase \notin Verdicts /\ UNCHANGED <<phase, began, now>> /\ ~asked'
    BY <1>5 DEF Minute, MayPass
  <2> QED
    BY <1>1, <1>5, <2>1, MinuteStep DEF WindowFixed
<1>6. ASSUME NEW a \in Answers, Query(a)
      PROVE  /\ WindowFixed' /\ Indexed' /\ InVain'
             /\ PassMeansAlive' /\ TimeoutMeansSilence' /\ OwnKeysPrevail'
  <2>1. InVain' /\ PassMeansAlive' /\ OwnKeysPrevail'
    BY <1>6, QueryStep
  <2>2. phase = "polling" /\ phase' \in {"passed", "polling", "refused", "failed"}
    BY <1>6, AnswerFacts DEF Query
  <2> QED
    BY <1>1, <1>6, <2>1, <2>2 DEF Query, world, WindowFixed, Indexed
<1>7. ASSUME NEW p \in sent, Ingest(p)
      PROVE  /\ WindowFixed' /\ Indexed' /\ InVain'
             /\ PassMeansAlive' /\ TimeoutMeansSilence' /\ OwnKeysPrevail'
  BY <1>1, <1>7 DEF Ingest, given, WindowFixed, Indexed, InVain
<1>8. ASSUME NEW a \in Agents, StartOrStop(a)
      PROVE  /\ WindowFixed' /\ Indexed' /\ InVain'
             /\ PassMeansAlive' /\ TimeoutMeansSilence' /\ OwnKeysPrevail'
  BY <1>1, <1>8 DEF StartOrStop, given, WindowFixed, Indexed, InVain
<1>9. CASE UNCHANGED vars
  BY <1>1, <1>9 DEF vars, world, given, WindowFixed, Indexed, InVain
<1> QED
  BY <1>2, <1>3, <1>4, <1>5, <1>6, <1>7, <1>8, <1>9 DEF Next, Done

LEMMA Invariance == Spec => []IInv
<1>1. Init => IInv
  BY InitInv
<1>2. IInv /\ [Next]_vars => IInv'
  BY InvStep
<1> QED
  BY <1>1, <1>2, PTL DEF Spec

(***************************************************************************)
(* Module DatadogMetrics is type correct, for every set of agents and      *)
(* keys, every delay and every timeout.                                    *)
(***************************************************************************)
THEOREM TypeCorrect == Spec => []TypeOK
<1>1. IInv => TypeOK
  BY DEF IInv
<1> QED
  BY <1>1, Invariance, PTL

(***************************************************************************)
(* A pass rests on a point that an agent reported while the check slept:   *)
(* the sleep is longer than the window.                                    *)
(***************************************************************************)
THEOREM PassProvesLife == Spec => []PassMeansAlive
<1>1. IInv => PassMeansAlive
  BY DEF IInv
<1> QED
  BY <1>1, Invariance, PTL

(***************************************************************************)
(* A timeout without retried errors means that nothing its own agent       *)
(* reported in the window could be found by the last query, although the   *)
(* window is fixed before the first: points only ever come to the index.   *)
(***************************************************************************)
THEOREM TimeoutProvesSilence == Spec => []TimeoutMeansSilence
<1>1. IInv => TimeoutMeansSilence
  BY DEF IInv
<1> QED
  BY <1>1, Invariance, PTL

(***************************************************************************)
(* A client that was given both keys passes or is refused by these alone.  *)
(***************************************************************************)
THEOREM KeysDecide == Spec => []OwnKeysPrevail
<1>1. IInv => OwnKeysPrevail
  BY DEF IInv
<1> QED
  BY <1>1, Invariance, PTL
=============================================================================
