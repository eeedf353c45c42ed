--------------------------- MODULE DatadogMetrics ---------------------------
(***************************************************************************)
(* What the datadog-agent check concludes from its queries.  It sleeps,    *)
(* fixes a window of time, and asks Datadog again and again for the        *)
(* metrics of that window.  Meanwhile agents report or are silent, and     *)
(* their points reach the index of Datadog late.  A tick is a minute.      *)
(***************************************************************************)
EXTENDS Naturals

CONSTANTS Agents,     \* the agents that report to this Datadog account
          Own,        \* the agent of the cluster under test
          Logins,     \* the keys of the client and of the environment
          Delay,      \* minutes until a point is in the index, at the most
          Timeout,    \* the --timeout flag, in minutes
          LastStart   \* bound: the check begins at this minute or before

\* With a timeout of 0 the first query would have no time for its answer.
ASSUME MetricsAssumption ==
    /\ Own \in Agents
    /\ Delay \in Nat /\ Timeout \in Nat \ {0} /\ LastStart \in Nat

Key  == {"absent", "good", "bad"}
Keys == [api : Key, app : Key]

ASSUME LoginsAssumption == Logins \subseteq [client : Keys, env : Keys]

VARIABLES
    clock,      \* minutes
    alive,      \* agents that report
    sent,       \* the points reported, as <<agent, minute>>
    index,      \* those that a query can find
    login,      \* the keys at hand; never changes
    scoped,     \* QUERY_METRICS names the cluster; the default query does not
    phase,      \* of the check
    began, now, \* when Check() began, and when its sleep was over
    asked,      \* it has sent this minute's query
    retried     \* history: a query met an error that is tried again

world  == <<clock, alive, sent, index>>
given  == <<login, scoped>>
vars   == <<world, given, phase, began, now, asked, retried>>

Verdicts == {"passed", "refused", "failed", "timeout"}

Init ==
    /\ clock = 0
    /\ alive \in SUBSET Agents
    /\ sent = {} /\ index = {}
    /\ login \in Logins /\ scoped \in BOOLEAN
    /\ phase = "new" /\ began = 0 /\ now = 0
    /\ asked = FALSE /\ retried = FALSE

-----------------------------------------------------------------------------
(* checkMetrics.                                                           *)

\* Mutant: seconds and minutes confused.
HalfTheWait == 1

WaitTime == 3
Window   == 2

Begin ==
    /\ phase = "new"
    /\ phase' = "sleeping" /\ began' = clock
    /\ UNCHANGED <<world, given, now, asked, retried>>

\* Mutant: the window is taken before the sleep.
EarlyWindow ==
    /\ phase = "sleeping"
    /\ clock >= began + WaitTime
    /\ now' = began
    /\ phase' = "polling"
    /\ UNCHANGED <<world, given, began, asked, retried>>

\* The window is fixed here, once for all queries.
SleepOver ==
    /\ phase = "sleeping"
    /\ clock >= began + WaitTime
    /\ now' = clock
    /\ phase' = "polling"
    /\ UNCHANGED <<world, given, began, asked, retried>>

\* Mutant: the window leaves its first minute out.
QueriedShort(t) == t + Window > now /\ t <= now

Queried(t) == t + Window >= now /\ t <= now

\* Mutant: NewDefaultContext is called last, and the environment wins.
EnvKeysPrevail ==
    IF login.env # [api |-> "absent", app |-> "absent"] THEN login.env ELSE login.client

\* A client with a key of its own uses its own keys, and only these.
KeysUsed ==
    IF login.client # [api |-> "absent", app |-> "absent"] THEN login.client ELSE login.env

Authorized == KeysUsed = [api |-> "good", app |-> "good"]

Matches(p) == Queried(p[2]) /\ (scoped => p[1] = Own)

\* What QueryMetrics may answer: no response, a response that is an error, an
\* error inside a response, or the series of the window.
Answers ==
    {[err |-> TRUE, status |-> "none", error |-> FALSE, series |-> FALSE]}
    \cup IF ~Authorized
         THEN [err : {TRUE}, status : {"401", "403"}, error : {FALSE}, series : {FALSE}]
         ELSE [err : {TRUE}, status : {"429", "500"}, error : {FALSE}, series : {FALSE}]
              \cup [err : {FALSE}, status : {"200", "202"}, error : {TRUE}, series : {FALSE}]
              \cup {[err |-> FALSE, status |-> "200", error |-> FALSE,
                     series |-> \E p \in index : Matches(p)]}

\* The poll's condition: how it ends the poll, or that it does not.
Condition(a) ==
    CASE a.err /\ a.status \in {"401", "403"}  -> "refused"
      [] a.err /\ a.status \notin {"401", "403"} -> "failed"
      [] ~a.err /\ a.error /\ a.status = "200"  -> "failed"
      [] ~a.err /\ a.error /\ a.status # "200"  -> "polling"
      [] ~a.err /\ ~a.error -> IF a.series THEN "passed" ELSE "polling"

\* Once a minute at least, the first time at once, before the deadline.
Query(a) ==
    /\ phase = "polling"
    /\ clock < now + Timeout
    /\ a \in Answers
    /\ phase' = Condition(a)
    /\ asked' = TRUE
    /\ retried' = (retried \/ (a.error /\ Condition(a) = "polling"))
    /\ UNCHANGED <<world, given, began, now>>

Expire ==
    /\ phase = "polling"
    /\ clock >= now + Timeout
    /\ phase' = "timeout"
    /\ UNCHANGED <<world, given, began, now, asked, retried>>

-----------------------------------------------------------------------------
(* The agents and Datadog.                                                 *)

\* A sleep may last a minute too long; a query does not take longer.
MayPass ==
    \/ phase = "new" /\ clock < LastStart
    \/ phase = "sleeping" /\ clock <= began + WaitTime
    \/ phase = "polling" /\ asked /\ clock < now + Timeout

Minute ==
    /\ MayPass
    /\ clock' = clock + 1
    /\ sent' = sent \cup {<<a, clock'>> : a \in alive}
    /\ index' = index \cup {p \in sent' : p[2] + Delay <= clock'}
    /\ asked' = FALSE
    /\ UNCHANGED <<alive, given, phase, began, now, retried>>

Ingest(p) ==
    /\ p \in sent \ index
    /\ index' = index \cup {p}
    /\ UNCHANGED <<clock, alive, sent, given, phase, began, now, asked, retried>>

StartOrStop(a) ==
    /\ phase \notin Verdicts
    /\ alive' = IF a \in alive THEN alive \ {a} ELSE alive \cup {a}
    /\ UNCHANGED <<clock, sent, index, given, phase, began, now, asked, retried>>

Done == phase \in Verdicts /\ UNCHANGED vars

Next == \/ Begin \/ SleepOver \/ Expire \/ Minute \/ Done
        \/ \E a \in Answers : Query(a)
        \/ \E p \in sent : Ingest(p)
        \/ \E a \in Agents : StartOrStop(a)

Spec == Init /\ [][Next]_vars

-----------------------------------------------------------------------------
TypeOK ==
    /\ clock \in Nat /\ began \in 0..clock /\ now \in 0..clock
    /\ alive \subseteq Agents
    /\ sent \subseteq Agents \X (0..clock) /\ index \subseteq sent
    /\ login \in Logins /\ scoped \in BOOLEAN
    /\ phase \in {"new", "sleeping", "polling"} \cup Verdicts
    /\ phase = "polling" => clock <= now + Timeout
    /\ asked \in BOOLEAN /\ retried \in BOOLEAN

(***************************************************************************)
(* The check passes only on a point that was reported while it was         *)
(* sleeping: not on one of an agent that died before the check began, and  *)
(* not on one of an agent that came back after the sleep.                  *)
(***************************************************************************)
ReportedDuringSleep(a) == \E t \in (began + 1)..now : <<a, t>> \in sent

PassMeansAlive ==
    phase = "passed" =>
        \E a \in Agents : ReportedDuringSleep(a) /\ (scoped => a = Own)

(***************************************************************************)
(* A check that times out, and met no error it tries again on, had         *)
(* nothing to find: whatever its agent reported in the window came too     *)
(* late for the last query, however late points are ingested.              *)
(***************************************************************************)
TimeoutMeansSilence ==
    phase = "timeout" /\ ~retried =>
        \A t \in (now - Window)..now :
            <<Own, t>> \in sent => t + Delay > now + Timeout - 1

(***************************************************************************)
(* Whatever DD_API_KEY and DD_APP_KEY say, a client that was given keys is *)
(* judged by its own: it passes only with good ones and is refused only    *)
(* with bad ones.                                                          *)
(***************************************************************************)
OwnKeysPrevail ==
    login.client.api # "absent" /\ login.client.app # "absent" =>
        LET good == login.client = [api |-> "good", app |-> "good"] IN
        /\ phase = "passed" => good
        /\ phase = "refused" => ~good
=============================================================================
