-------------------------- MODULE FluentLogsProofs --------------------------
(***************************************************************************)
(* What the fluent check knows when it passes and when it times out, for   *)
(* every bucket, page size and timeout.                                    *)
(***************************************************************************)
EXTENDS FluentLogs, FiniteSetTheorems, TLAPS

Stored == [by : Writers, day : Days, at : Nat]

Typed ==
    /\ clock \in Nat \ {0} /\ day \in Days /\ t \in Nat
    /\ fixed \in BOOLEAN /\ logPath \in BOOLEAN
    /\ chunks \subseteq Writers \X Days
    /\ bucket \in [Names -> {Nothing} \cup Stored]

\* In a namespace of its own there are no logs of an earlier run.
NoEarlierLogs ==
    ~fixed => /\ \A c \in chunks : c[1] # "earlier"
              /\ \A n \in Names : bucket[n] # Nothing => bucket[n].by # "earlier"

IInv == Typed /\ NoEarlierLogs /\ PassMeansShipped

LEMMA InitInv == Init => IInv
<1> SUFFICES ASSUME Init PROVE IInv
  OBVIOUS
<1>1. Typed
  BY DEF Init, Typed, Old, Stored, Writers, Days
<1>2. NoEarlierLogs
  BY DEF Init, NoEarlierLogs, Old
<1>3. PassMeansShipped
  BY DEF Init, PassMeansShipped
<1> QED
  BY <1>1, <1>2, <1>3 DEF IInv

\* An upload adds an object of the chunk's writer.
LEMMA UploadStep ==
    ASSUME IInv, NEW c \in chunks, NEW n \in Names, Upload(c, n)
    PROVE  IInv'
<1>1. /\ c[1] \in Writers /\ c[2] \in Days
      /\ chunks' \subseteq chunks /\ UNCHANGED <<clock, day, fixed, logPath, phase, t>>
      /\ phase # "passed"
      /\ bucket' = [bucket EXCEPT ![n] = [by |-> c[1], day |-> c[2], at |-> clock]]
  BY DEF IInv, Typed, Upload, setting, Over
<1>2. [by |-> c[1], day |-> c[2], at |-> clock] \in Stored
  BY <1>1 DEF IInv, Typed, Stored
<1>3. Typed'
  BY <1>1, <1>2 DEF IInv, Typed
<1>4. NoEarlierLogs'
  <2> SUFFICES ASSUME ~fixed, NEW k \in Names, bucket'[k] # Nothing
               PROVE  bucket'[k].by # "earlier"
    BY <1>1 DEF IInv, NoEarlierLogs
  <2>1. CASE k = n
    BY <1>1, <2>1 DEF IInv, Typed, NoEarlierLogs
  <2>2. CASE k # n
    BY <1>1, <2>2 DEF IInv, Typed, NoEarlierLogs
  <2> QED
    BY <2>1, <2>2
<1> QED
  BY <1>1, <1>3, <1>4 DEF IInv, PassMeansShipped

\* What the listing found is an object under the prefix.
LEMMA FindStep ==
    ASSUME IInv, ListFinds
    PROVE  IInv'
<1>1. UNCHANGED <<clock, day, fixed, logPath, chunks, bucket, t>>
  BY DEF ListFinds, setting
<1>2. PICK n \in Names : bucket[n] # Nothing /\ UnderPrefix(bucket[n]) /\ bucket[n].at > t
  BY DEF ListFinds, Listed, Keys, Younger
<1>3. PassMeansShipped'
  BY <1>1, <1>2 DEF IInv, NoEarlierLogs, UnderPrefix, PassMeansShipped
<1> QED
  BY <1>1, <1>3 DEF IInv, Typed, NoEarlierLogs

LEMMA InvStep ==
    ASSUME IInv, [Next]_vars
    PROVE  IInv'
<1> USE DEF IInv, Typed, NoEarlierLogs, PassMeansShipped, setting
<1>1. CASE NewFluent
  BY <1>1 DEF NewFluent
<1>2. CASE Deployed
  BY <1>2 DEF Deployed
<1>3. CASE ListFindsNot \/ Expire
  BY <1>3 DEF ListFindsNot, Expire
<1>4. CASE Tick
  BY <1>4 DEF Tick, Days
<1>5. ASSUME NEW w \in Writers, Log(w) PROVE IInv'
  BY <1>5 DEF Log, Over
<1>6. CASE Done \/ UNCHANGED vars
  BY <1>6 DEF Done, vars
<1> QED
  BY <1>1, <1>2, <1>3, <1>4, <1>5, <1>6, UploadStep, FindStep DEF Next

(***************************************************************************)
(* The fluent check passes only on an object that was uploaded after its   *)
(* wait began, by its own pods unless the namespace or LOG_PATH is given:  *)
(* for every bucket, page size, timeout and length of the wait.            *)
(***************************************************************************)
THEOREM PassProvesShipping == Spec => []PassMeansShipped
<1>1. IInv => PassMeansShipped
  BY DEF IInv
<1> QED
  BY <1>1, InitInv, InvStep, PTL DEF Spec

-----------------------------------------------------------------------------
\* An object is in the bucket since its upload, which is not in the future.
LEMMA TypeStep ==
    ASSUME TypeOK, [Next]_vars
    PROVE  TypeOK'
<1> USE DEF TypeOK, Writers, Days, setting
<1>1. CASE NewFluent
  BY <1>1 DEF NewFluent, DayOfPath
<1>2. CASE Deployed
  BY <1>2 DEF Deployed
<1>3. CASE ListFinds \/ ListFindsNot \/ Expire
  BY <1>3 DEF ListFinds, ListFindsNot, Expire
<1>4. CASE Tick
  <2>1. clock' = clock + 1 /\ clock' \in Nat \ {0} /\ 0..clock \subseteq 0..clock'
    BY <1>4 DEF Tick
  <2>2. bucket' \in [Names -> {Nothing} \cup [by : Writers, day : Days, at : 0..clock']]
    BY <1>4, <2>1 DEF Tick
  <2>3. t' \in 0..clock'
    BY <1>4, <2>1 DEF Tick
  <2>4. /\ day' \in Days /\ phase' = phase /\ asked' \in BOOLEAN /\ erred' \in BOOLEAN
        /\ UNCHANGED <<fixed, logPath, prefixDay, made, chunks>>
    BY <1>4 DEF Tick
  <2> QED
    BY <2>1, <2>2, <2>3, <2>4
<1>5. ASSUME NEW w \in Writers, Log(w)
      PROVE  TypeOK'
  BY <1>5 DEF Log
<1>6. ASSUME NEW c \in chunks, NEW n \in Names, Upload(c, n)
      PROVE  TypeOK'
  <2>1. c[1] \in Writers /\ c[2] \in Days /\ clock \in 0..clock
    OBVIOUS
  <2>2. bucket' \in [Names -> {Nothing} \cup [by : Writers, day : Days, at : 0..clock]]
    BY <1>6, <2>1 DEF Upload
  <2> QED
    BY <1>6, <2>2 DEF Upload
<1>7. CASE Done \/ UNCHANGED vars
  BY <1>7 DEF Done, vars
<1> QED
  BY <1>1, <1>2, <1>3, <1>4, <1>5, <1>6, <1>7 DEF Next

(***************************************************************************)
(* FluentLogs is type correct: the wait and the uploads are in the past.   *)
(***************************************************************************)
THEOREM TypeCorrect == Spec => []TypeOK
<1>1. ASSUME Init PROVE TypeOK
  <2>1. clock = 1 /\ {0} \subseteq 0..clock
    BY <1>1 DEF Init
  <2>2. Old \subseteq {Nothing} \cup [by : Writers, day : Days, at : 0..clock]
    BY <2>1 DEF Old, Writers, Days
  <2>3. bucket \in [Names -> {Nothing} \cup [by : Writers, day : Days, at : 0..clock]]
    BY <1>1, <2>2 DEF Init
  <2>4. chunks \subseteq Writers \X Days
    BY <1>1 DEF Init, Writers, Days
  <2>5. /\ day \in Days /\ prefixDay \in Days /\ made \in Days
        /\ clock \in Nat \ {0} /\ t \in 0..clock
    BY <1>1, <2>1 DEF Init, Days
  <2>6. /\ phase \in {"new", "deploying", "waiting", "passed", "timeout"}
        /\ fixed \in BOOLEAN /\ logPath \in BOOLEAN /\ asked \in BOOLEAN /\ erred \in BOOLEAN
    BY <1>1 DEF Init
  <2> QED
    BY <2>3, <2>4, <2>5, <2>6 DEF TypeOK
<1> QED
  BY <1>1, TypeStep, PTL DEF Spec

-----------------------------------------------------------------------------
(* Why the check times out.                                                *)

\* A listing was answered since o was uploaded: that of the tick after, at
\* the latest, unless the tick is the present one and has not asked yet.
ListedSince(o) == o.at + 1 < clock \/ (o.at + 1 = clock /\ asked)

\* An object the check is waiting for, under the prefix it lists.
Awaited(o) == o.by = "pods" /\ o.at > t /\ (logPath \/ o.day = made)

\* What was listed and not found is beyond the first page.
MissedIsBeyond ==
    phase \in {"waiting", "timeout"} /\ ~erred =>
        \A n \in Names :
            bucket[n] # Nothing /\ Awaited(bucket[n]) /\ ListedSince(bucket[n])
            => Cardinality(Keys) > Page

WaitInv ==
    /\ TypeOK
    /\ phase # "new" => prefixDay = made
    /\ phase = "timeout" => clock >= t + Timeout
    /\ MissedIsBeyond

LEMMA KeysFinite == IsFiniteSet(Keys) /\ Cardinality(Keys) \in Nat
<1>1. Keys \subseteq Names
  BY DEF Keys
<1> QED
  BY <1>1, LogsAssumption, FS_Subset, FS_CardinalityType

\* A key that is not listed has a page of keys before it.
LEMMA BeyondThePage ==
    ASSUME NEW n \in Keys, n \notin Listed
    PROVE  Cardinality(Keys) > Page
<1> DEFINE Before == {k \in Keys : k < n}
<1>1. ~(Cardinality(Before) < Page)
  BY DEF Listed
<1>2. IsFiniteSet(Before) /\ Cardinality(Before) \in Nat
  BY KeysFinite, FS_Subset, FS_CardinalityType
<1>3. n \in Nat
  BY LogsAssumption DEF Keys
<1>4. n \notin Before
  BY <1>3
<1>5. Cardinality(Before \cup {n}) = Cardinality(Before) + 1
  BY <1>2, <1>4, FS_AddElement
<1>6. Cardinality(Before \cup {n}) <= Cardinality(Keys)
  BY KeysFinite, FS_Subset
<1> HIDE DEF Before
<1> QED
  BY <1>1, <1>2, <1>5, <1>6, KeysFinite, LogsAssumption

\* An upload only adds keys.
LEMMA UploadWaits ==
    ASSUME WaitInv, NEW c \in chunks, NEW n \in Names, Upload(c, n)
    PROVE  MissedIsBeyond'
<1>1. /\ UNCHANGED <<clock, day, fixed, logPath, phase, prefixDay, made, t, asked, erred>>
      /\ bucket[n] = Nothing
      /\ bucket' = [bucket EXCEPT ![n] = [by |-> c[1], day |-> c[2], at |-> clock]]
  BY DEF Upload, setting
<1>2. \A k \in Names : k # n => bucket'[k] = bucket[k]
  BY <1>1 DEF WaitInv, TypeOK
<1>3. bucket'[n] = [by |-> c[1], day |-> c[2], at |-> clock]
  BY <1>1 DEF WaitInv, TypeOK
<1>4. Keys \subseteq Keys'
  BY <1>1, <1>2 DEF Keys, UnderPrefix
<1>5. Keys' \subseteq Names
  BY DEF Keys
<1>6. IsFiniteSet(Keys') /\ Cardinality(Keys') \in Nat
  BY <1>5, LogsAssumption, FS_Subset, FS_CardinalityType
<1>7. Cardinality(Keys) <= Cardinality(Keys')
  BY <1>4, <1>6, FS_Subset
<1>8. Cardinality(Keys) > Page => Cardinality(Keys') > Page
  BY <1>6, <1>7, KeysFinite, LogsAssumption
<1>9. clock \in Nat
  BY DEF WaitInv, TypeOK
<1>10. ~ListedSince(bucket[n])'
  BY <1>1, <1>3, <1>9 DEF ListedSince
<1> SUFFICES ASSUME phase \in {"waiting", "timeout"}, ~erred,
                    NEW k \in Names, bucket'[k] # Nothing,
                    Awaited(bucket[k])', ListedSince(bucket[k])'
             PROVE  Cardinality(Keys') > Page
  BY <1>1 DEF MissedIsBeyond
<1>11. k # n /\ bucket'[k] = bucket[k]
  BY <1>2, <1>10
<1>12. Awaited(bucket[k]) /\ ListedSince(bucket[k])
  BY <1>1, <1>11 DEF Awaited, ListedSince
<1> QED
  BY <1>8, <1>11, <1>12 DEF WaitInv, MissedIsBeyond

\* A listing that finds nothing was cut off before what it should find.
LEMMA ListWaits ==
    ASSUME WaitInv, ListFindsNot
    PROVE  MissedIsBeyond'
<1>1. /\ UNCHANGED <<clock, day, fixed, logPath, phase, prefixDay, made, t, bucket>>
      /\ phase = "waiting" /\ prefixDay = made
  BY DEF WaitInv, ListFindsNot, setting
<1>2. CASE erred'
  BY <1>2 DEF MissedIsBeyond
<1>3. CASE ~erred'
  <2>1. \A n \in Listed : ~Younger(n)
    BY <1>3 DEF ListFindsNot
  <2> SUFFICES ASSUME NEW n \in Names, bucket[n] # Nothing, Awaited(bucket[n])
               PROVE  Cardinality(Keys) > Page
    BY <1>1 DEF MissedIsBeyond, Awaited, Keys, UnderPrefix
  <2>2. n \in Keys
    BY <1>1 DEF Awaited, Keys, UnderPrefix
  <2>3. n \notin Listed
    BY <2>1 DEF Younger, Awaited
  <2> QED
    BY <2>2, <2>3, BeyondThePage
<1> QED
  BY <1>2, <1>3

LEMMA WaitStep ==
    ASSUME WaitInv, [Next]_vars
    PROVE  WaitInv'
<1>1. TypeOK'
  BY TypeStep DEF WaitInv
<1>2. (phase # "new" => prefixDay = made)'
  BY DEF WaitInv, Next, vars, setting, NewFluent, DayOfPath, Deployed, ListFinds,
         ListFindsNot, Expire, Tick, Done, Log, Upload
<1>3. (phase = "timeout" => clock >= t + Timeout)'
  BY DEF WaitInv, Next, vars, setting, NewFluent, Deployed, ListFinds,
         ListFindsNot, Expire, Expired, Tick, Done, Log, Upload
<1>4. MissedIsBeyond'
  <2>1. CASE NewFluent \/ ListFinds
    BY <2>1 DEF NewFluent, ListFinds, MissedIsBeyond
  <2>2. CASE Deployed
    <3>1. /\ t' = clock /\ clock' = clock /\ bucket' = bucket
      BY <2>2 DEF Deployed
    <3>2. \A n \in Names : bucket[n] # Nothing => bucket[n].at \in 0..clock
      BY DEF WaitInv, TypeOK
    <3>3. \A n \in Names : bucket[n] # Nothing => ~(bucket[n].at > clock)
      BY <3>2 DEF WaitInv, TypeOK
    <3> QED
      BY <3>1, <3>3 DEF MissedIsBeyond, Awaited
  <2>3. CASE Expire
    BY <2>3 DEF WaitInv, Expire, MissedIsBeyond, Awaited, ListedSince, Keys, UnderPrefix, setting
  <2>4. CASE Tick
    <3>1. /\ clock' = clock + 1 /\ ~asked'
          /\ UNCHANGED <<fixed, logPath, phase, prefixDay, made, t, erred, bucket>>
          /\ phase = "waiting" => asked
          /\ clock \in Nat
      BY <2>4 DEF WaitInv, TypeOK, Tick, setting
    <3>2. CASE phase # "waiting"
      BY <2>4, <3>2 DEF Tick, MissedIsBeyond
    <3>3. CASE phase = "waiting"
      <4>1. \A n \in Names : bucket[n] # Nothing => bucket[n].at \in Nat
        BY DEF WaitInv, TypeOK
      <4>2. \A n \in Names : bucket[n] # Nothing /\ ListedSince(bucket[n])'
                             => ListedSince(bucket[n])
        BY <3>1, <3>3, <4>1 DEF ListedSince
      <4> QED
        BY <3>1, <4>2 DEF WaitInv, MissedIsBeyond, Awaited, Keys, UnderPrefix
    <3> QED
      BY <3>2, <3>3
  <2>5. ASSUME NEW w \in Writers, Log(w)
        PROVE  MissedIsBeyond'
    BY <2>5 DEF WaitInv, Log, MissedIsBeyond, Awaited, ListedSince, Keys, UnderPrefix, setting
  <2>6. CASE Done \/ UNCHANGED vars
    BY <2>6 DEF WaitInv, Done, vars, MissedIsBeyond, Awaited, ListedSince, Keys, UnderPrefix, setting
  <2> QED
    BY <2>1, <2>2, <2>3, <2>4, <2>5, <2>6, ListWaits, UploadWaits DEF Next
<1> QED
  BY <1>1, <1>2, <1>3, <1>4 DEF WaitInv

(***************************************************************************)
(* Where every listing was answered, logs of the check's own pods that     *)
(* were uploaded two polls before the deadline are missed for two reasons  *)
(* only: their day is not the one the check was made on, or the prefix     *)
(* holds more than one page.  For every bucket, page size and timeout.     *)
(***************************************************************************)
THEOREM TimeoutIsExplained == Spec => []TimeoutMeansMisplaced
<1>1. ASSUME Init, TypeOK PROVE WaitInv
  BY <1>1 DEF Init, WaitInv, MissedIsBeyond
<1>2. ASSUME WaitInv PROVE TimeoutMeansMisplaced
  <2> SUFFICES ASSUME phase = "timeout", ~erred, NEW n \in Names,
                      bucket[n] # Nothing, InTime(bucket[n]),
                      logPath \/ bucket[n].day = made
               PROVE  Cardinality(Keys) > Page
    BY DEF TimeoutMeansMisplaced
  <2>1. /\ clock \in Nat /\ t \in Nat /\ bucket[n].at \in Nat
        /\ clock >= t + Timeout
    BY <1>2 DEF WaitInv, TypeOK
  <2>2. /\ bucket[n].by = "pods" /\ bucket[n].at \in Nat
        /\ bucket[n].at >= t + 1 /\ bucket[n].at <= t + Timeout - 2
    BY <2>1 DEF InTime
  <2>3. bucket[n].at > t /\ bucket[n].at + 1 < clock
    BY <2>1, <2>2, LogsAssumption
  <2>4. Awaited(bucket[n]) /\ ListedSince(bucket[n])
    BY <2>2, <2>3 DEF Awaited, ListedSince
  <2> QED
    BY <1>2, <2>4 DEF WaitInv, MissedIsBeyond
<1> QED
  BY <1>1, <1>2, TypeCorrect, WaitStep, PTL DEF Spec
=============================================================================
