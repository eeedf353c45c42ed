----------------------------- MODULE FluentLogs -----------------------------
(***************************************************************************)
(* What the fluent check concludes from the objects in the log bucket.     *)
(* It takes the UTC day when it is made, runs pods that write logs without *)
(* end, and lists one prefix of the bucket until an object there is        *)
(* younger than the wait.  Meanwhile fluentd uploads chunks of logs, each  *)
(* under the namespace and the UTC day of its logs, and midnight passes.   *)
(* A tick is a polling interval.                                           *)
(***************************************************************************)
EXTENDS Naturals, FiniteSets

CONSTANTS Names,      \* the names of objects in the bucket: numbers, in the
                      \* order of a listing
          Page,       \* the keys of one page of ListObjectsV2: 1000
          Timeout,    \* the --timeout flag, in ticks
          LastWait    \* bound: the wait begins at this tick or before

ASSUME LogsAssumption ==
    /\ Names \subseteq Nat /\ IsFiniteSet(Names)
    /\ Page \in Nat \ {0} /\ Timeout \in Nat /\ LastWait \in Nat

\* Who writes logs: the pods of this check, those of an earlier run in the
\* same namespace, and other namespaces.
Writers == {"pods", "earlier", "others"}
Days    == {0, 1}
Nothing == [by |-> "nobody"]

VARIABLES
    clock, day,   \* ticks, and today
    fixed,        \* RESOURCE_NAMESPACE: earlier runs had the same namespace
    logPath,      \* LOG_PATH: a prefix under which all logs are
    phase,        \* of the check
    prefixDay,    \* dt= of Fluent.LogPath
    made,         \* history: the day the check was made on
    t,            \* when checkS3Object began
    asked, erred, \* this tick's listing is done; history: a listing failed
    chunks,       \* what fluentd has not uploaded: <<writer, day>>
    bucket        \* the objects of the bucket, by name

setting == <<fixed, logPath>>
vars == <<clock, day, setting, phase, prefixDay, made, t, asked, erred, chunks, bucket>>

Old == {Nothing} \cup [by : IF fixed THEN {"earlier", "others"} ELSE {"others"},
                       day : {0}, at : {0}]

Init ==
    /\ clock = 1 /\ day = 0
    /\ fixed \in BOOLEAN /\ logPath \in BOOLEAN
    /\ phase = "new" /\ prefixDay = 0 /\ made = 0 /\ t = 0
    /\ asked = FALSE /\ erred = FALSE
    /\ chunks \in IF fixed THEN {{}, {<<"earlier", 0>>}} ELSE {{}}
    /\ bucket \in [Names -> Old]

-----------------------------------------------------------------------------
(* The check.                                                              *)

\* Mutant: the day of the local time zone, ahead of UTC.
LocalDay == day + 1

DayOfPath == day

NewFluent ==
    /\ phase = "new"
    /\ prefixDay' = DayOfPath /\ made' = day
    /\ phase' = "deploying"
    /\ UNCHANGED <<clock, day, setting, t, asked, erred, chunks, bucket>>

\* createResources has returned: the pods run.
Deployed ==
    /\ phase = "deploying"
    /\ phase' = "waiting" /\ t' = clock
    /\ asked' = TRUE
    /\ UNCHANGED <<clock, day, setting, prefixDay, made, erred, chunks, bucket>>

\* Mutant: the prefix has no namespace in it.
AnyNamespace(o) == o.day = prefixDay

UnderPrefix(o) == logPath \/ (o.by \in {"pods", "earlier"} /\ o.day = prefixDay)

Keys   == {n \in Names : bucket[n] # Nothing /\ UnderPrefix(bucket[n])}
Listed == {n \in Keys : Cardinality({k \in Keys : k < n}) < Page}

Younger(n) == bucket[n].at > t

Expired == clock >= t + Timeout

ListFinds ==
    /\ phase = "waiting" /\ ~asked /\ ~Expired
    /\ \E n \in Listed : Younger(n)
    /\ phase' = "passed"
    /\ UNCHANGED <<clock, day, setting, prefixDay, made, t, asked, erred, chunks, bucket>>

\* An error is logged and the listing tried again.
ListFindsNot ==
    /\ phase = "waiting" /\ ~asked
    /\ \/ ~Expired /\ (\A n \in Listed : ~Younger(n)) /\ UNCHANGED erred
       \/ erred' = TRUE
    /\ asked' = TRUE
    /\ UNCHANGED <<clock, day, setting, phase, prefixDay, made, t, chunks, bucket>>

Expire ==
    /\ phase = "waiting" /\ Expired
    /\ phase' = "timeout"
    /\ UNCHANGED <<clock, day, setting, prefixDay, made, t, asked, erred, chunks, bucket>>

-----------------------------------------------------------------------------
(* The pods, fluentd and time.                                             *)

Over == phase \in {"passed", "timeout"}

\* The pods write "while true"; the others now and then.
Log(w) ==
    /\ ~Over
    /\ \/ w = "pods" /\ phase \in {"deploying", "waiting"}
       \/ w = "others"
    /\ chunks' = chunks \cup {<<w, day>>}
    /\ UNCHANGED <<clock, day, setting, phase, prefixDay, made, t, asked, erred, bucket>>

\* A chunk becomes an object, sooner or later, under a name of its own.
Upload(c, n) ==
    /\ ~Over
    /\ bucket[n] = Nothing
    /\ bucket' = [bucket EXCEPT ![n] = [by |-> c[1], day |-> c[2], at |-> clock]]
    /\ chunks' = chunks \ {c}
    /\ UNCHANGED <<clock, day, setting, phase, prefixDay, made, t, asked, erred>>

\* A listing is answered within its tick.
Tick ==
    /\ \/ phase \in {"new", "deploying"} /\ clock < LastWait
       \/ phase = "waiting" /\ asked /\ ~Expired
    /\ clock' = clock + 1
    /\ day' \in {day, 1}
    /\ asked' = FALSE
    /\ UNCHANGED <<setting, phase, prefixDay, made, t, erred, chunks, bucket>>

Done == Over /\ UNCHANGED vars

Next == \/ NewFluent \/ Deployed \/ ListFinds \/ ListFindsNot \/ Expire \/ Tick \/ Done
        \/ \E w \in Writers : Log(w)
        \/ \E c \in chunks, n \in Names : Upload(c, n)

Spec == Init /\ [][Next]_vars

-----------------------------------------------------------------------------
TypeOK ==
    /\ clock \in Nat \ {0} /\ day \in Days
    /\ fixed \in BOOLEAN /\ logPath \in BOOLEAN
    /\ phase \in {"new", "deploying", "waiting", "passed", "timeout"}
    /\ prefixDay \in Days /\ made \in Days /\ t \in 0..clock
    /\ asked \in BOOLEAN /\ erred \in BOOLEAN
    /\ chunks \subseteq Writers \X Days
    /\ bucket \in [Names -> {Nothing} \cup [by : Writers, day : Days, at : 0..clock]]

(***************************************************************************)
(* The check passes only on an object uploaded after its wait began: one   *)
(* with logs of its own pods in a fresh namespace, one with logs of its    *)
(* namespace where that is fixed (an earlier run's, perhaps), whatever     *)
(* else is written meanwhile.  Under LOG_PATH it may be anybody's.         *)
(***************************************************************************)
PassMeansShipped ==
    phase = "passed" =>
        \E n \in Names :
            /\ bucket[n] # Nothing /\ bucket[n].at > t
            /\ ~logPath => bucket[n].by \in {"pods", "earlier"}
            /\ ~logPath /\ ~fixed => bucket[n].by = "pods"

(***************************************************************************)
(* The check times out, although logs of its pods were uploaded in time    *)
(* and every listing was answered, for two reasons only: the logs are of   *)
(* another day than the one the check was made on, or there are more       *)
(* objects under the prefix than one page holds.                           *)
(***************************************************************************)
InTime(o) == o.by = "pods" /\ o.at \in (t + 1)..(t + Timeout - 2)

TimeoutMeansMisplaced ==
    phase = "timeout" /\ ~erred =>
        \A n \in Names :
            bucket[n] # Nothing /\ InTime(bucket[n])
            => \/ ~logPath /\ bucket[n].day # made
               \/ Cardinality(Keys) > Page
=============================================================================
