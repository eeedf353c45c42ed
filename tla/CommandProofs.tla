--------------------------- MODULE CommandProofs ---------------------------
(***************************************************************************)
(* The exit code of the program tells the outcome of its checks, and its   *)
(* messages tell what they leave and reach the room, for every sequence of *)
(* checks a sub-command may run and every command line.                    *)
(***************************************************************************)
EXTENDS Session, FiniteSetTheorems, TLAPS

\* Where outcome is that of the current check, or main's own.
Decided == {"send", "post", "reset", "panic", "exit 0", "exit 2"}

\* How many checks have returned nil.
PassedSoFar ==
    passed = IF outcome = "nil" /\ pc \in Decided THEN current ELSE current - 1

CommandInv ==
    /\ Len(command) \in Nat \ {0} /\ current \in 1..Len(command)
    /\ PassedSoFar
    /\ pc = "failed" => outcome \in {"error", "fatal"}
    /\ pc \in Decided => outcome \in {"nil", "error", "fatal"}
    /\ pc = "exit 0" => outcome = "nil" /\ current = Len(command)

\* The provers take arithmetic better apart from the rest.
LEMMA Bounded == \A n, i : n \in Nat \ {0} /\ i \in 1..n => n \in Nat /\ i \in Nat /\ i <= n
  OBVIOUS

LEMMA UpTo ==
    \A n, i : n \in Nat \ {0} /\ i \in 1..n =>
        n \in Nat /\ i \in Nat /\ i \in 1..i /\ \A j \in 1..i : j \in 1..n
  OBVIOUS

LEMMA AtTheEnd == \A n, i \in Nat : i <= n /\ ~(i < n) => i = n
  OBVIOUS

LEMMA OneLess == \A n, i \in Nat : i <= n => i - 1 < n
  OBVIOUS

LEMMA InitInv == Init => CommandInv
<1> SUFFICES ASSUME Init PROVE CommandInv
  OBVIOUS
<1>1. Len(command) \in Nat \ {0}
  BY CommandsAssumption DEF Init
<1> QED
  BY <1>1 DEF Init, CommandInv, PassedSoFar, Decided

\* What is read, posted and reset.
LEMMA SendStep ==
    ASSUME CommandInv, SendReads \/ SendPosts \/ SendFails \/ SendPanics \/ SendReturns
    PROVE  CommandInv'
<1> USE DEF CommandInv, PassedSoFar, Decided, course
<1>1. CASE SendReads
  BY <1>1 DEF SendReads
<1>2. CASE SendPosts \/ SendFails
  BY <1>2 DEF SendPosts, SendFails
<1>3. CASE SendPanics
  BY <1>3 DEF SendPanics
<1>4. CASE SendReturns
  <2>1. CASE GoesOn
    BY <1>4, <2>1 DEF SendReturns, GoesOn
  <2>2. CASE ~GoesOn
    <3>1. CASE outcome = "nil"
      <4>1. current = Len(command)
        BY <2>2, <3>1, Bounded, AtTheEnd DEF GoesOn
      <4> QED
        BY <1>4, <2>2, <3>1, <4>1 DEF SendReturns
    <3>2. CASE outcome = "error"
      BY <1>4, <2>2, <3>2 DEF SendReturns
    <3>3. CASE outcome = "fatal"
      BY <1>4, <2>2, <3>3 DEF SendReturns
    <3> QED
      BY <1>4, <3>1, <3>2, <3>3 DEF SendReturns
  <2> QED
    BY <2>1, <2>2
<1> QED
  BY <1>1, <1>2, <1>3, <1>4

\* The way of a check up to its outcome.
LEMMA CheckStep ==
    ASSUME CommandInv,
           New \/ NoKeys \/ NewFails \/ NewDies \/ NewReturns
           \/ CheckBegins \/ CheckSays \/ CheckReturns
    PROVE  CommandInv'
<1> USE DEF CommandInv, PassedSoFar, Decided, course
<1>1. CASE New
  BY <1>1 DEF New, Say
<1>2. CASE NoKeys \/ NewFails
  BY <1>2 DEF NoKeys, NewFails
<1>3. CASE NewDies
  BY <1>3 DEF NewDies
<1>4. CASE NewReturns
  BY <1>4 DEF NewReturns
<1>5. CASE CheckBegins
  BY <1>5 DEF CheckBegins
<1>6. CASE CheckSays
  BY <1>6 DEF CheckSays, Say
<1>7. CASE CheckReturns
  BY <1>7 DEF CheckReturns
<1> QED
  BY <1>1, <1>2, <1>3, <1>4, <1>5, <1>6, <1>7

LEMMA InvStep ==
    ASSUME CommandInv, [Next]_vars
    PROVE  CommandInv'
<1> USE DEF CommandInv, PassedSoFar, Decided, course
<1>1. CASE InitLogger \/ Execute
  BY <1>1 DEF InitLogger, Execute
<1>2. CASE ExecuteFails
  BY <1>2 DEF ExecuteFails
<1>3. CASE Failed
  BY <1>3 DEF Failed, Say
<1>4. CASE Handler
  BY <1>4 DEF Handler, Signal, NoticeAdded, Cancel
<1>5. CASE Done \/ UNCHANGED vars
  BY <1>5 DEF Done, vars
<1> QED
  BY <1>1, <1>2, <1>3, <1>4, <1>5, CheckStep, SendStep DEF Next, Main

LEMMA CommandInvariance == Spec => []CommandInv
  BY InitInv, InvStep, PTL DEF Spec

(***************************************************************************)
(* main exits with 0 only when every check of the sub-command returned     *)
(* nil, and with 1 only when one did not, or was never made: whatever the  *)
(* signal goroutine and the chat do.                                       *)
(***************************************************************************)
THEOREM ExitCodeTells == Spec => []ExitTellsOutcome
<1>1. CommandInv => ExitTellsOutcome
  <2> SUFFICES ASSUME CommandInv PROVE ExitTellsOutcome
    OBVIOUS
  <2>1. Len(command) \in Nat /\ current \in Nat /\ current <= Len(command)
    BY Bounded DEF CommandInv
  <2>2. pc = "exit 0" => passed = Len(command)
    BY <2>1 DEF CommandInv, PassedSoFar, Decided
  <2>3. pc = "exit 1" => passed = current - 1
    BY DEF CommandInv, PassedSoFar, Decided
  <2> QED
    BY <2>1, <2>2, <2>3, OneLess DEF ExitTellsOutcome
<1> QED
  BY <1>1, CommandInvariance, PTL

-----------------------------------------------------------------------------
(* Sequences of messages.                                                  *)

\* x is in s once, or twice, at the most.
Once(s, x)  == \A i, j \in 1..Len(s) : s[i] = x /\ s[j] = x => i = j
Twice(s, x) == \A i, j, k \in 1..Len(s) :
                  s[i] = x /\ s[j] = x /\ s[k] = x => i = j \/ j = k \/ i = k

\* A message is added at the end.
LEMMA AppendFacts ==
    ASSUME NEW s \in Seq(Message), NEW m \in Message, NEW x
    PROVE  /\ Append(s, m) \in Seq(Message)
           /\ Contains(Append(s, m), x) <=> Contains(s, x) \/ x = m
           /\ Last(Append(s, m)) = m
           /\ Once(s, x) /\ ~(x = m /\ Contains(s, x)) => Once(Append(s, m), x)
<1> DEFINE t == Append(s, m)
<1>1. /\ t \in Seq(Message) /\ Len(t) = Len(s) + 1 /\ Len(s) \in Nat
      /\ \A i \in 1..Len(s) : t[i] = s[i]
      /\ t[Len(s) + 1] = m
  OBVIOUS
<1>2. 1..Len(t) = 1..Len(s) \cup {Len(s) + 1} /\ Len(s) + 1 \notin 1..Len(s)
  BY <1>1
<1> HIDE DEF t
<1>3. Contains(t, x) <=> Contains(s, x) \/ x = m
  BY <1>1, <1>2 DEF Contains
<1>4. Last(t) = m
  BY <1>1 DEF Last
<1>5. Once(s, x) /\ ~(x = m /\ Contains(s, x)) => Once(t, x)
  <2> SUFFICES ASSUME Once(s, x), ~(x = m /\ Contains(s, x)),
                      NEW i \in 1..Len(t), NEW j \in 1..Len(t), t[i] = x, t[j] = x
               PROVE  i = j
    BY DEF Once
  <2> QED
    BY <1>1, <1>2 DEF Once, Contains
<1> QED
  BY <1>1, <1>3, <1>4, <1>5 DEF t

\* The places of two sequences, one after the other.
LEMMA Halves ==
    ASSUME NEW m \in Nat, NEW n \in Nat, NEW p, p = m + n
    PROVE  /\ \A i \in 1..m : i \in 1..p
           /\ \A i \in 1..n : m + i \in 1..p /\ m + i \notin 1..m
           /\ \A i \in 1..p : i \in 1..m \/ \E j \in 1..n : i = m + j
<1>1. \A i \in 1..p : i \in 1..m \/ (i - m \in 1..n /\ i = m + (i - m))
  OBVIOUS
<1>2. \A i \in 1..m : i \in 1..p
  OBVIOUS
<1>3. \A i \in 1..n : m + i \in 1..p /\ m + i \notin 1..m
  OBVIOUS
<1> QED
  BY <1>1, <1>2, <1>3

\* Two sequences, one after the other.
LEMMA ConcatFacts ==
    ASSUME NEW s \in Seq(Message), NEW t \in Seq(Message), NEW x
    PROVE  /\ s \o t \in Seq(Message)
           /\ Contains(s \o t, x) <=> Contains(s, x) \/ Contains(t, x)
           /\ Once(s, x) /\ Once(t, x) /\ ~(Contains(s, x) /\ Contains(t, x))
              => Once(s \o t, x)
           /\ Once(s \o t, x) => Once(s, x) /\ ~(Contains(s, x) /\ Contains(t, x))
           /\ Once(s, x) /\ Once(t, x) => Twice(s \o t, x)
           /\ Twice(s, x) /\ ~Contains(t, x) => Twice(s \o t, x)
<1> DEFINE u == s \o t
<1>1. /\ u \in Seq(Message) /\ Len(u) = Len(s) + Len(t) /\ Len(s) \in Nat /\ Len(t) \in Nat
      /\ \A i \in 1..Len(s) : u[i] = s[i]
      /\ \A i \in 1..Len(t) : u[Len(s) + i] = t[i]
  OBVIOUS
<1> HIDE DEF u
<1>2. /\ \A i \in 1..Len(s) : i \in 1..Len(u)
      /\ \A i \in 1..Len(t) : Len(s) + i \in 1..Len(u) /\ Len(s) + i \notin 1..Len(s)
      /\ \A i \in 1..Len(u) : i \in 1..Len(s) \/ \E j \in 1..Len(t) : i = Len(s) + j
  <2>1. Len(u) = Len(s) + Len(t) /\ Len(s) \in Nat /\ Len(t) \in Nat
    BY <1>1
  <2> QED
    BY Zenon, <2>1, Halves
<1>3. \A i \in 1..Len(u) : u[i] = x =>
          \/ i \in 1..Len(s) /\ s[i] = x
          \/ \E j \in 1..Len(t) : i = Len(s) + j /\ t[j] = x
  BY <1>1, <1>2
<1>4. Contains(u, x) <=> Contains(s, x) \/ Contains(t, x)
  BY <1>1, <1>2, <1>3 DEF Contains
<1>5. Once(s, x) /\ Once(t, x) /\ ~(Contains(s, x) /\ Contains(t, x)) => Once(u, x)
  BY <1>3 DEF Once, Contains
<1>6. Once(u, x) => Once(s, x) /\ ~(Contains(s, x) /\ Contains(t, x))
  BY <1>1, <1>2 DEF Once, Contains
<1>7. Once(s, x) /\ Once(t, x) => Twice(u, x)
  BY <1>3 DEF Once, Twice
<1>8. Twice(s, x) /\ ~Contains(t, x) => Twice(u, x)
  BY <1>3 DEF Twice, Contains
<1> QED
  BY <1>1, <1>4, <1>5, <1>6, <1>7, <1>8 DEF u

LEMMA ConcatAppend ==
    ASSUME NEW s \in Seq(Message), NEW t \in Seq(Message), NEW m \in Message
    PROVE  s \o Append(t, m) = Append(s \o t, m)
  OBVIOUS

LEMMA ConcatEmpty ==
    ASSUME NEW s \in Seq(Message)
    PROVE  s \o <<>> = s
  OBVIOUS

LEMMA PlacesOf ==
    ASSUME NEW s \in Seq(Message)
    PROVE  DOMAIN s = 1..Len(s)
  OBVIOUS

\* The two ways of counting.
Occurrences(s, x) == {i \in DOMAIN s : s[i] = x}

LEMMA OccurrenceFacts ==
    ASSUME NEW s \in Seq(Message), NEW x, NEW n, n = Cardinality(Occurrences(s, x))
    PROVE  /\ n \in Nat
           /\ Once(s, x) => n <= 1
           /\ Once(s, x) /\ Contains(s, x) => n = 1
           /\ Twice(s, x) => n <= 2
<1>1. PICK At : At = Occurrences(s, x)
  OBVIOUS
<1>2. /\ At \subseteq 1..Len(s) /\ (\A i \in At : s[i] = x) /\ Len(s) \in Nat
      /\ (Contains(s, x) => At # {})
  BY <1>1 DEF Occurrences, Contains
<1>3. IsFiniteSet(1..Len(s)) /\ At \in SUBSET (1..Len(s))
  BY <1>2, FS_Interval
<1>4. IsFiniteSet(At)
  BY <1>3, FS_Subset
<1>5. n = Cardinality(At) /\ n \in Nat
  BY <1>1, <1>4, FS_CardinalityType
<1>6. CASE At = {}
  <2>1. n = 0 /\ ~Contains(s, x)
    BY <1>2, <1>5, <1>6, FS_EmptySet
  <2> QED
    BY <2>1
<1>7. CASE At # {}
  <2>1. PICK i : i \in At
    BY <1>7
  <2>2. CASE At = {i}
    <3>1. n = 1
      BY <1>5, <2>2, FS_Singleton
    <3> QED
      BY <3>1
  <2>3. CASE At # {i}
    <3>1. PICK j : j \in At /\ j # i
      BY <2>1, <2>3
    <3>2. ~Once(s, x)
      BY <1>2, <2>1, <3>1 DEF Once
    <3>3. Twice(s, x) => At = {i} \cup {j}
      <4>1. Twice(s, x) => \A k \in At : k = i \/ k = j
        BY <1>2, <2>1, <3>1 DEF Twice
      <4> QED
        BY <2>1, <3>1, <4>1
    <3>4. IsFiniteSet({i}) /\ Cardinality({i}) = 1
      BY FS_Singleton
    <3>5. Cardinality({i} \cup {j}) = Cardinality({i}) + 1
      BY <3>1, <3>4, FS_AddElement
    <3>6. Twice(s, x) => n = 1 + 1
      BY <1>5, <3>3, <3>4, <3>5
    <3> QED
      BY <1>5, <3>2, <3>6
  <2> QED
    BY <2>2, <2>3
<1> QED
  BY <1>5, <1>6, <1>7

-----------------------------------------------------------------------------
(* What the steps of the program do to the chat.  The main goroutine is in *)
(* AddMessage only where it has something to say, and Send is three steps. *)

USE DEF requests

Speaking == {"new", "checking", "failed"}
Sent     == {"reset", "panic"}
Panicked == {"panic", "exit 2"}

\* Up to the first message of a check, and up to its last one.
Unannounced == {"initLogger", "execute", "new"}
Unfinished  == Unannounced \cup {"clients", "check", "checking"}

\* main is on its way to exit 1, and has said so.
FatalInv ==
    outcome = "fatal" =>
        /\ pc \in {"failed", "send", "post", "reset", "panic", "exit 1", "exit 2"}
        /\ pc # "failed" => Last(added) = <<"main", "error">>

\* What the main goroutine says next.
Spoken == IF pc = "new" THEN <<command[current], "start">>
          ELSE IF pc = "checking" THEN <<command[current], "end">>
          ELSE <<"main", "error">>

Quiet ==
    /\ UNCHANGED <<messages, writing, body, posted, room, refused, added>>
    /\ handler' = handler \/ (handler = "cancel" /\ handler' = "gone")
    /\ \/ UNCHANGED <<command, current, pc, outcome>>
       \/ /\ pc \in Speaking => writing["main"] = NotAdding
          /\ pc \notin Sent \cup {"post", "exit 2"} /\ pc' \notin Sent \cup {"post", "exit 0"}
          /\ pc' \in Unfinished \cup {"exit 1"} => pc \in Unfinished
          /\ pc' = "exit 1" => outcome' # "fatal"

Loads == /\ pc \in Speaking /\ pc' = pc
         /\ AddMessage("main", Spoken)
         /\ UNCHANGED <<added, command, current, handler>>

Stores == /\ pc \in Speaking
          /\ pc' \in {"clients", "return", "send"} /\ (pc' = "clients" => pc = "new")
          /\ MessageAdded("main")
          /\ added' = Append(added, Spoken)
          /\ pc = "failed" => outcome' = "fatal"
          /\ UNCHANGED <<command, current, handler>>

Reads  == pc = "send" /\ ReadMessages /\ pc' = "post" /\ UNCHANGED <<added, handler>>

Posts == /\ pc = "post" /\ Post /\ pc' \in Sent
         /\ pc' \notin Panicked => Accepted \/ Refused
         /\ room' \in {room, room \o body} /\ refused' \in {refused, refused \cup ToSet(body)}
         /\ UNCHANGED <<added, handler>>

Resets == /\ pc \in Sent /\ Reset /\ pc' \notin Sent \cup {"post"}
          /\ pc = "panic" => pc' = "exit 2"
          /\ UNCHANGED <<added, handler>>

Interrupts == (Signal \/ NoticeAdded) /\ UNCHANGED <<command, current, pc, outcome, added>>

LEMMA ChatStep ==
    ASSUME CommandInv, FatalInv, [Next]_vars
    PROVE  Quiet \/ Loads \/ Stores \/ Reads \/ Posts \/ Resets \/ Interrupts
<1> USE DEF flags, course, signal, chatwork, Sent, Speaking
<1>1. CASE InitLogger \/ Execute \/ ExecuteFails
  BY <1>1 DEF InitLogger, Execute, ExecuteFails, Quiet, Unfinished, Unannounced
<1>2. CASE New \/ CheckSays \/ Failed
  BY <1>2 DEF New, CheckSays, Failed, Say, Loads, Stores, Spoken
<1>3. CASE NoKeys \/ NewFails \/ NewReturns
  BY <1>3 DEF NoKeys, NewFails, NewReturns, Quiet, Unfinished, Unannounced
<1>4. CASE NewDies
  BY <1>4 DEF NewDies, FatalInv, Quiet, Unfinished, Unannounced
<1>5. CASE CheckBegins \/ CheckReturns
  BY <1>5 DEF CheckBegins, CheckReturns, Quiet, Unfinished, Unannounced
<1>6. CASE SendReads
  BY <1>6 DEF SendReads, Reads
<1>7. CASE SendPosts \/ SendFails
  BY <1>7 DEF SendPosts, SendFails, Posts, Panicked, Accepted, Refused, Unanswered, Post
<1>8. CASE SendPanics
  BY <1>8 DEF SendPanics, Resets
<1>9. CASE SendReturns
  <2>1. outcome \in {"nil", "error", "fatal"}
    BY <1>9 DEF SendReturns, CommandInv, Decided
  <2>2. pc' \in {"new", "exit 0", "exit 1", "failed"}
    BY <1>9, <2>1 DEF SendReturns
  <2> QED
    BY <1>9, <2>2 DEF SendReturns, Resets
<1>10. CASE Signal \/ NoticeAdded
  BY <1>10 DEF Signal, NoticeAdded, Interrupts
<1>11. CASE Cancel
  BY <1>11 DEF Cancel, Quiet
<1>12. CASE Done \/ UNCHANGED vars
  BY <1>12 DEF Done, vars, Quiet
<1> QED
  BY <1>1, <1>2, <1>3, <1>4, <1>5, <1>6, <1>7, <1>8, <1>9, <1>10, <1>11, <1>12
  DEF Next, Main, Handler

LEMMA FatalStep ==
    ASSUME FatalInv, CommandInv, added \in Seq(Message), Spoken \in Message, [Next]_vars
    PROVE  FatalInv'
<1> USE DEF FatalInv, course
<1>1. CASE InitLogger \/ Execute \/ ExecuteFails
  BY <1>1 DEF InitLogger, Execute, ExecuteFails
<1>2. CASE New \/ CheckSays
  BY <1>2 DEF New, CheckSays, Say
<1>3. CASE NoKeys \/ NewFails \/ NewDies \/ NewReturns
  BY <1>3 DEF NoKeys, NewFails, NewDies, NewReturns
<1>4. CASE CheckBegins \/ CheckReturns
  BY <1>4 DEF CheckBegins, CheckReturns
<1>5. CASE SendReads \/ SendPosts \/ SendFails \/ SendPanics
  BY <1>5 DEF SendReads, SendPosts, SendFails, SendPanics
<1>6. CASE SendReturns
  BY <1>6 DEF SendReturns, GoesOn
<1>7. CASE Failed
  <2>1. CASE pc' = "failed"
    BY <1>7, <2>1 DEF Failed
  <2>2. CASE pc' # "failed"
    <3>1. pc' = "send" /\ added' = Append(added, Spoken) /\ Spoken = <<"main", "error">>
      BY <1>7, <2>2 DEF Failed, Say, Spoken
    <3>2. Last(Append(added, Spoken)) = Spoken
      BY AppendFacts
    <3> QED
      BY <3>1, <3>2
  <2> QED
    BY <2>1, <2>2
<1>8. CASE Handler
  BY <1>8 DEF Handler, Signal, NoticeAdded, Cancel
<1>9. CASE Done \/ UNCHANGED vars
  BY <1>9 DEF Done, vars
<1> QED
  BY <1>1, <1>2, <1>3, <1>4, <1>5, <1>6, <1>7, <1>8, <1>9 DEF Next, Main

-----------------------------------------------------------------------------
(* Type correctness.                                                       *)

Busy == [adding : {TRUE}, message : Message, loaded : Seq(Message)]

\* The part of TypeOK that is about the chat.
ChatTyped ==
    /\ messages \in Seq(Message) /\ body \in Seq(Message)
    /\ posted \in Seq(Message) /\ room \in Seq(Message) /\ refused \subseteq Message
    /\ added \in Seq(Message)
    /\ writing \in [Goroutines -> {NotAdding} \cup Busy]

\* What the command line sets, and where the goroutines are.
LineTyped ==
    /\ command \in Commands /\ line \in Lines
    /\ options \in [logLevel : {"info", "debug", "error"}, debug : BOOLEAN, noDnsCheck : BOOLEAN]
    /\ logLevel \in {"unset", "info", "debug", "error"}
    /\ skipsDns \in {"unset", "skip", "check"}

PlaceTyped ==
    /\ pc \in Places
    /\ outcome \in {"none", "nil", "error", "fatal"}
    /\ handler \in {"waiting", "writing", "cancel", "gone"}

SignalTyped == ctxDone \in BOOLEAN /\ doomed \in BOOLEAN

LEMMA CommandFacts ==
    ASSUME NEW c \in Commands
    PROVE  /\ c \in Seq(Checks) /\ DOMAIN c = 1..Len(c) /\ Len(c) \in Nat \ {0}
           /\ \A i \in 1..Len(c) : c[i] \in Checks
           /\ \A i, j \in 1..Len(c) : c[i] = c[j] => i = j
<1>1. c \in Seq(Checks) \ {<<>>} /\ IsInjective(c)
  BY CommandsAssumption
<1> QED
  BY <1>1 DEF IsInjective

LEMMA TypedParts ==
    ASSUME CommandInv
    PROVE  TypeOK <=> ChatTyped /\ LineTyped /\ PlaceTyped /\ SignalTyped
<1>1. command \in Commands => current \in DOMAIN command /\ passed \in 0..current
  <2> SUFFICES ASSUME command \in Commands
               PROVE  current \in DOMAIN command /\ passed \in 0..current
    OBVIOUS
  <2>1. DOMAIN command = 1..Len(command) /\ Len(command) \in Nat
    BY CommandFacts
  <2>2. current \in 1..Len(command)
    BY DEF CommandInv
  <2>3. passed = current \/ passed = current - 1
    BY DEF CommandInv, PassedSoFar
  <2> QED
    BY <2>1, <2>2, <2>3
<1> QED
  BY <1>1 DEF TypeOK, ChatTyped, LineTyped, PlaceTyped, SignalTyped, Busy

LEMMA SpokenIsAMessage ==
    ASSUME command \in Commands, CommandInv
    PROVE  Spoken \in Message /\ Notice \in Message /\ Mangled \in Message
<1>1. command[current] \in Checks
  BY CommandFacts DEF CommandInv
<1> QED
  BY <1>1 DEF Spoken, Message, Notice, Mangled

LEMMA ChatTypedStep ==
    ASSUME ChatTyped, command \in Commands, CommandInv, FatalInv, [Next]_vars
    PROVE  ChatTyped'
<1>1. Spoken \in Message /\ Notice \in Message /\ <<Mangled>> \in Seq(Message)
      /\ <<>> \in Seq(Message)
  BY SpokenIsAMessage
<1>2. \A g \in Goroutines : writing[g] # NotAdding =>
          /\ writing[g].message \in Message /\ writing[g].loaded \in Seq(Message)
          /\ Append(writing[g].loaded, writing[g].message) \in Seq(Message)
  <2> SUFFICES ASSUME NEW g \in Goroutines, writing[g] # NotAdding
               PROVE  /\ writing[g].message \in Message /\ writing[g].loaded \in Seq(Message)
                      /\ Append(writing[g].loaded, writing[g].message) \in Seq(Message)
    OBVIOUS
  <2>1. PICK w \in Busy : writing[g] = w
    BY DEF ChatTyped
  <2>2. w.message \in Message /\ w.loaded \in Seq(Message)
    BY DEF Busy
  <2>3. Append(w.loaded, w.message) \in Seq(Message)
    BY <2>2
  <2> QED
    BY <2>1, <2>2, <2>3
<1>3. ASSUME NEW g \in Goroutines, NEW m \in Message, AddMessage(g, m), added' = added
      PROVE  ChatTyped'
  <2>1. [adding |-> TRUE, message |-> m, loaded |-> messages] \in Busy
    BY DEF ChatTyped, Busy
  <2> QED
    BY <1>3, <2>1 DEF AddMessage, ChatTyped
<1>4. ASSUME NEW g \in Goroutines, MessageAdded(g), added' \in Seq(Message)
      PROVE  ChatTyped'
  BY <1>1, <1>2, <1>4 DEF MessageAdded, ChatTyped
<1>5. CASE Quiet
  BY <1>5 DEF Quiet, ChatTyped
<1>6. CASE Loads
  BY <1>1, <1>3, <1>6 DEF Loads, Goroutines
<1>7. CASE Stores
  <2>1. added' \in Seq(Message)
    BY <1>1, <1>7 DEF Stores, ChatTyped
  <2> QED
    BY <1>4, <1>7, <2>1 DEF Stores, Goroutines
<1>8. CASE Reads
  BY <1>1, <1>8 DEF Reads, ReadMessages, ChatTyped
<1>9. CASE Posts
  <2>1. ToSet(body) \subseteq Message
    BY DEF ChatTyped, ToSet
  <2>2. posted \o body \in Seq(Message) /\ room \o body \in Seq(Message)
    BY DEF ChatTyped
  <2> QED
    BY <1>9, <2>1, <2>2 DEF Posts, Post, ChatTyped
<1>10. CASE Resets
  BY <1>1, <1>10 DEF Resets, Reset, ChatTyped
<1>11. CASE Interrupts
  BY <1>1, <1>3, <1>4, <1>11 DEF Interrupts, Signal, NoticeAdded, ChatTyped, Goroutines
<1> QED
  BY <1>5, <1>6, <1>7, <1>8, <1>9, <1>10, <1>11, ChatStep

LEMMA LineTypedStep ==
    ASSUME LineTyped, [Next]_vars
    PROVE  LineTyped'
<1> USE DEF flags, course
<1> DEFINE Kept == UNCHANGED <<command, line, options, logLevel, skipsDns>>
<1>1. CASE Kept
  BY <1>1 DEF LineTyped
<1>2. CASE InitLogger
  BY <1>2 DEF InitLogger, LineTyped
<1>3. CASE Execute
  <2>1. Parsed(line) \in [logLevel : {"info", "debug", "error"}, debug : BOOLEAN,
                          noDnsCheck : BOOLEAN]
    BY LinesAssumption DEF LineTyped, Parsed, LogLevels
  <2> QED
    BY <1>3, <2>1 DEF Execute, LineTyped
<1>4. CASE NewReturns
  BY <1>4 DEF NewReturns, SkipsDns, LineTyped
<1>5. ExecuteFails \/ NoKeys \/ NewFails \/ NewDies => Kept
  BY DEF ExecuteFails, NoKeys, NewFails, NewDies
<1>6. New \/ CheckBegins \/ CheckSays \/ CheckReturns \/ Failed => Kept
  BY DEF New, CheckBegins, CheckSays, CheckReturns, Failed
<1>7. SendReads \/ SendPosts \/ SendFails \/ SendPanics \/ SendReturns => Kept
  BY DEF SendReads, SendPosts, SendFails, SendPanics, SendReturns
<1>8. Handler \/ Done \/ UNCHANGED vars => Kept
  BY DEF Handler, Signal, NoticeAdded, Cancel, Done, vars
<1> QED
  BY <1>1, <1>2, <1>3, <1>4, <1>5, <1>6, <1>7, <1>8 DEF Next, Main

LEMMA PlaceTypedStep ==
    ASSUME PlaceTyped, CommandInv, [Next]_vars
    PROVE  PlaceTyped'
<1> USE DEF PlaceTyped, Places, Exits, course, signal
<1>1. CASE InitLogger \/ Execute \/ ExecuteFails
  BY <1>1 DEF InitLogger, Execute, ExecuteFails
<1>2. CASE New \/ CheckSays \/ Failed
  BY <1>2 DEF New, CheckSays, Failed, Say
<1>3. CASE NoKeys \/ NewFails \/ NewDies \/ NewReturns
  BY <1>3 DEF NoKeys, NewFails, NewDies, NewReturns
<1>4. CASE CheckBegins \/ CheckReturns
  BY <1>4 DEF CheckBegins, CheckReturns
<1>5. CASE SendReads \/ SendPosts \/ SendFails \/ SendPanics
  BY <1>5 DEF SendReads, SendPosts, SendFails, SendPanics
<1>6. CASE SendReturns
  <2>1. outcome \in {"nil", "error", "fatal"}
    BY <1>6 DEF SendReturns, CommandInv, Decided
  <2> QED
    BY <1>6, <2>1 DEF SendReturns
<1>7. CASE Handler
  BY <1>7 DEF Handler, Signal, NoticeAdded, Cancel
<1>8. CASE Done \/ UNCHANGED vars
  BY <1>8 DEF Done, vars
<1> QED
  BY <1>1, <1>2, <1>3, <1>4, <1>5, <1>6, <1>7, <1>8 DEF Next, Main

LEMMA SignalTypedStep ==
    ASSUME SignalTyped, [Next]_vars
    PROVE  SignalTyped'
<1> USE DEF course, signal
<1>1. CASE UNCHANGED <<ctxDone, doomed>>
  BY <1>1 DEF SignalTyped
<1>2. CASE CheckBegins
  BY <1>2 DEF CheckBegins, SignalTyped
<1>3. CASE Cancel
  BY <1>3 DEF Cancel, SignalTyped
<1>4. InitLogger \/ Execute \/ ExecuteFails \/ NoKeys \/ NewFails \/ NewDies \/ NewReturns
      => UNCHANGED <<ctxDone, doomed>>
  BY DEF InitLogger, Execute, ExecuteFails, NoKeys, NewFails, NewDies, NewReturns
<1>5. New \/ CheckSays \/ CheckReturns \/ Failed => UNCHANGED <<ctxDone, doomed>>
  BY DEF New, CheckSays, CheckReturns, Failed
<1>6. SendReads \/ SendPosts \/ SendFails \/ SendPanics \/ SendReturns
      => UNCHANGED <<ctxDone, doomed>>
  BY DEF SendReads, SendPosts, SendFails, SendPanics, SendReturns
<1>7. Signal \/ NoticeAdded \/ Done \/ UNCHANGED vars => UNCHANGED <<ctxDone, doomed>>
  BY DEF Signal, NoticeAdded, Done, vars
<1> QED
  BY <1>1, <1>2, <1>3, <1>4, <1>5, <1>6, <1>7 DEF Next, Main, Handler

LEMMA TypeStep ==
    ASSUME TypeOK, CommandInv, FatalInv, [Next]_vars
    PROVE  TypeOK' /\ CommandInv' /\ FatalInv'
<1>1. ChatTyped /\ LineTyped /\ PlaceTyped /\ SignalTyped
  BY TypedParts
<1>2. ChatTyped' /\ LineTyped' /\ PlaceTyped' /\ SignalTyped'
  BY <1>1, ChatTypedStep, LineTypedStep, PlaceTypedStep, SignalTypedStep DEF LineTyped
<1>3. CommandInv'
  BY InvStep
<1>4. FatalInv'
  BY <1>1, FatalStep, SpokenIsAMessage DEF ChatTyped, LineTyped
<1> QED
  BY <1>2, <1>3, <1>4, TypedParts, PTL

\* What the invariants to come rest on.
Base == TypeOK /\ CommandInv /\ FatalInv

LEMMA BaseInvariance == Spec => []Base
<1>1. ASSUME Init PROVE Base
  <2>1. CommandInv
    BY <1>1, InitInv
  <2>2. ChatTyped
    BY <1>1 DEF Init, NewChatwork, ChatTyped
  <2>3. LineTyped
    BY <1>1 DEF Init, LineTyped, Defaults
  <2>4. PlaceTyped /\ SignalTyped
    BY <1>1 DEF Init, PlaceTyped, SignalTyped, Places
  <2>5. FatalInv
    BY <1>1 DEF Init, FatalInv
  <2> QED
    BY <2>1, <2>2, <2>3, <2>4, <2>5, TypedParts DEF Base
<1>2. Base /\ [Next]_vars => Base'
  BY TypeStep DEF Base
<1> QED
  BY <1>1, <1>2, PTL DEF Spec

(***************************************************************************)
(* Command is type correct: whatever a data race does to it, the buffer    *)
(* holds messages of the program, or mangled ones.                         *)
(***************************************************************************)
THEOREM CommandTyped == Spec => []TypeOK
<1>1. Base => TypeOK
  BY DEF Base
<1> QED
  BY <1>1, BaseInvariance, PTL

-----------------------------------------------------------------------------
(* Who is writing, and what has been written.                              *)

LEMMA BusyFacts ==
    ASSUME ChatTyped, NEW g \in Goroutines, writing[g] # NotAdding
    PROVE  writing[g].message \in Message /\ writing[g].loaded \in Seq(Message)
<1>1. PICK w \in Busy : writing[g] = w
  BY DEF ChatTyped
<1>2. w.message \in Message /\ w.loaded \in Seq(Message)
  BY DEF Busy
<1> QED
  BY <1>1, <1>2

WriterInv ==
    /\ writing["main"] # NotAdding => pc \in Speaking /\ writing["main"].message = Spoken
    /\ writing["signal"] # NotAdding => handler = "writing" /\ writing["signal"].message = Notice

LEMMA WriterStep ==
    ASSUME ChatTyped, CommandInv, FatalInv, WriterInv, [Next]_vars
    PROVE  WriterInv'
<1>1. writing \in [Goroutines -> {NotAdding} \cup Busy]
  BY DEF ChatTyped
<1> USE DEF WriterInv, Goroutines
<1>2. CASE Quiet
  BY <1>2 DEF Quiet, Spoken
<1>3. CASE Loads
  BY <1>1, <1>3 DEF Loads, AddMessage, Spoken
<1>4. CASE Stores
  BY <1>1, <1>4 DEF Stores, MessageAdded
<1>5. CASE Reads
  BY <1>5 DEF Reads, ReadMessages, Speaking
<1>6. CASE Posts
  BY <1>6 DEF Posts, Post, Speaking
<1>7. CASE Resets
  BY <1>7 DEF Resets, Reset, Speaking, Sent
<1>8. CASE Interrupts
  BY <1>1, <1>8 DEF Interrupts, Signal, NoticeAdded, AddMessage, MessageAdded, Spoken
<1> QED
  BY <1>2, <1>3, <1>4, <1>5, <1>6, <1>7, <1>8, ChatStep

\* The program goes through the checks of its command, and fails once.
LEMMA Onward ==
    ASSUME CommandInv, FatalInv, [Next]_vars
    PROVE  /\ command' = command
           /\ \/ /\ current' = current
                 /\ pc \notin Unannounced => pc' \notin Unannounced
                 /\ pc \notin Unfinished => pc' \notin Unfinished
              \/ current' = current + 1
           /\ outcome = "fatal" /\ pc # "failed" => outcome' = "fatal" /\ pc' # "failed"
<1> USE DEF FatalInv, course, Unannounced, Unfinished
<1>1. CASE InitLogger \/ Execute \/ ExecuteFails
  BY <1>1 DEF InitLogger, Execute, ExecuteFails
<1>2. CASE New \/ CheckSays \/ Failed
  BY <1>2 DEF New, CheckSays, Failed, Say
<1>3. CASE NoKeys \/ NewFails \/ NewDies \/ NewReturns
  BY <1>3 DEF NoKeys, NewFails, NewDies, NewReturns
<1>4. CASE CheckBegins \/ CheckReturns
  BY <1>4 DEF CheckBegins, CheckReturns
<1>5. CASE SendReads \/ SendPosts \/ SendFails \/ SendPanics
  BY <1>5 DEF SendReads, SendPosts, SendFails, SendPanics
<1>6. CASE SendReturns
  <2>1. outcome \in {"nil", "error", "fatal"}
    BY <1>6 DEF SendReturns, CommandInv, Decided
  <2> QED
    BY <1>6, <2>1 DEF SendReturns, GoesOn
<1>7. CASE Handler
  BY <1>7 DEF Handler, Signal, NoticeAdded, Cancel
<1>8. CASE Done \/ UNCHANGED vars
  BY <1>8 DEF Done, vars
<1> QED
  BY <1>1, <1>2, <1>3, <1>4, <1>5, <1>6, <1>7, <1>8 DEF Next, Main

\* x may have been written by the main goroutine.
SaidBefore(x) ==
    \/ \E i \in 1..current : x = <<command[i], "start">> /\ (i = current => pc \notin Unannounced)
    \/ \E i \in 1..current : x = <<command[i], "end">> /\ (i = current => pc \notin Unfinished)
    \/ x = <<"main", "error">> /\ outcome = "fatal" /\ pc # "failed"

AddedInv == \A x : Once(added, x) /\ (Contains(added, x) => SaidBefore(x))

\* No message of the main goroutine is said twice, or looks like the others.
LEMMA Fresh ==
    ASSUME CommandInv, command \in Commands
    PROVE  /\ pc \in Speaking => ~SaidBefore(Spoken)
           /\ pc \in Speaking => Spoken \notin {Notice, Mangled}
           /\ \A x : SaidBefore(x) => x \notin {Notice, Mangled}
<1>1. /\ current \in 1..Len(command) /\ Len(command) \in Nat
      /\ \A i \in 1..current : i \in 1..Len(command)
  BY UpTo DEF CommandInv
<1>2. /\ \A i \in 1..current : command[i] \in Checks
      /\ \A i \in 1..current : command[i] = command[current] => i = current
      /\ command[current] \in Checks
  BY <1>1, CommandFacts
<1> USE DEF Spoken, Checks
<1>3. pc \in Speaking => ~SaidBefore(Spoken)
  BY <1>2 DEF SaidBefore, Speaking, Unannounced, Unfinished
<1>4. Spoken \notin {Notice, Mangled}
  BY <1>2 DEF Notice, Mangled
<1>5. \A x : SaidBefore(x) => x \notin {Notice, Mangled}
  BY <1>2 DEF SaidBefore, Notice, Mangled
<1> QED
  BY <1>3, <1>4, <1>5

LEMMA SaidOn ==
    ASSUME CommandInv, FatalInv, [Next]_vars, NEW x
    PROVE  /\ SaidBefore(x) => SaidBefore(x)'
           /\ Stores /\ x = Spoken => SaidBefore(x)'
<1>1. current \in Nat /\ current \in 1..current
  BY UpTo DEF CommandInv
<1>2. current' = current + 1 =>
          \A i \in 1..current : i \in 1..current' /\ i # current'
  BY <1>1
<1>3. SaidBefore(x) => SaidBefore(x)'
  BY <1>2, Onward DEF SaidBefore
<1>4. ASSUME Stores, x = Spoken
      PROVE  SaidBefore(x)'
  <2>1. /\ pc \in Speaking /\ UNCHANGED <<command, current>>
        /\ pc' \in {"clients", "return", "send"} /\ (pc' = "clients" => pc = "new")
        /\ pc = "failed" => outcome' = "fatal"
    BY <1>4 DEF Stores
  <2> QED
    BY <1>1, <1>4, <2>1 DEF SaidBefore, Spoken, Speaking, Unannounced, Unfinished
<1> QED
  BY <1>3, <1>4

LEMMA AddedStep ==
    ASSUME AddedInv, ChatTyped, command \in Commands, CommandInv, FatalInv, [Next]_vars
    PROVE  AddedInv'
<1> SUFFICES ASSUME NEW x PROVE (Once(added, x) /\ (Contains(added, x) => SaidBefore(x)))'
  BY DEF AddedInv
<1>1. Once(added, x) /\ (Contains(added, x) => SaidBefore(x))
  BY DEF AddedInv
<1>2. PICK s : s = added'
  OBVIOUS
<1>3. Once(s, x) /\ (Contains(s, x) => Contains(added, x) \/ (Stores /\ x = Spoken))
  <2>1. CASE s = added
    BY <1>1, <2>1
  <2>2. CASE Stores
    <3>1. added \in Seq(Message) /\ Spoken \in Message
      BY SpokenIsAMessage DEF ChatTyped
    <3>2. ~(x = Spoken /\ Contains(added, x))
      BY <1>1, <2>2, Fresh DEF Stores
    <3>3. s = Append(added, Spoken)
      BY <1>2, <2>2 DEF Stores
    <3> QED
      BY <1>1, <2>2, <3>1, <3>2, <3>3, AppendFacts
  <2> QED
    BY <1>2, <2>1, <2>2, ChatStep DEF Quiet, Loads, Reads, Posts, Resets, Interrupts
<1> QED
  BY <1>1, <1>2, <1>3, SaidOn

-----------------------------------------------------------------------------
(* Without a signal: what is written is posted, in order.                  *)

\* Before its last message a check has not said how it ended.
NothingEnded == \A c \in Checks : ~Contains(messages, <<c, "end">>)

OrderInv ==
    handler = "waiting" =>
        /\ posted \o NotPosted = added
        /\ writing["main"] # NotAdding => writing["main"].loaded = messages
        /\ pc = "post" => body = messages
        /\ pc \in {"exit 0", "exit 1"} /\ ~Dead => messages = <<>>
        /\ pc \in Unfinished \/ Dead => NothingEnded

\* The main goroutine alone adds to what it finds.
LEMMA OrderStores ==
    ASSUME Base, WriterInv, OrderInv, handler = "waiting", Stores
    PROVE  OrderInv'
<1>1. /\ messages \in Seq(Message) /\ posted \in Seq(Message)
      /\ writing \in [Goroutines -> {NotAdding} \cup Busy]
  BY TypedParts DEF Base, ChatTyped
<1>2. Spoken \in Message
  BY SpokenIsAMessage DEF Base, TypeOK
<1>3. ~Raced("main") /\ writing["main"].loaded = messages /\ writing["main"].message = Spoken
  BY DEF Stores, MessageAdded, Raced, WriterInv, OrderInv, Goroutines
<1>4. messages' = Append(messages, Spoken) /\ writing'["main"] = NotAdding /\ posted' = posted
  BY <1>1, <1>3 DEF Stores, MessageAdded, Goroutines
<1>5. /\ pc \notin Sent /\ pc' \notin Sent \cup {"post", "exit 0", "exit 1"}
      /\ added' = Append(added, Spoken)
  BY DEF Stores, Speaking, Sent
<1>6. posted' \o NotPosted' = added'
  <2>1. posted \o messages = added
    BY <1>5 DEF OrderInv, NotPosted, Sent
  <2>2. NotPosted' = messages'
    BY <1>5 DEF NotPosted, Sent
  <2>3. posted \o Append(messages, Spoken) = Append(posted \o messages, Spoken)
    BY <1>1, <1>2, ConcatAppend
  <2> QED
    BY <1>4, <1>5, <2>1, <2>2, <2>3
<1>7. pc' \in Unfinished => NothingEnded'
  <2> SUFFICES ASSUME pc' \in Unfinished, NEW c \in Checks
               PROVE  ~Contains(messages', <<c, "end">>)
    BY DEF NothingEnded
  <2>1. pc = "new" /\ Spoken = <<command[current], "start">>
    BY DEF Stores, Unfinished, Unannounced, Spoken
  <2>2. ~Contains(messages, <<c, "end">>) /\ <<c, "end">> # Spoken
    BY <2>1 DEF OrderInv, Unfinished, Unannounced, NothingEnded
  <2>3. ~Contains(Append(messages, Spoken), <<c, "end">>)
    BY <1>1, <1>2, <2>2, AppendFacts
  <2> QED
    BY <1>4, <2>3
<1> QED
  BY <1>4, <1>5, <1>6, <1>7 DEF OrderInv, Dead

LEMMA OrderStep ==
    ASSUME Base, WriterInv, OrderInv, [Next]_vars
    PROVE  OrderInv'
<1>1. SUFFICES ASSUME handler' = "waiting" PROVE OrderInv'
  BY DEF OrderInv
<1>2. Quiet \/ Loads \/ Stores \/ Reads \/ Posts \/ Resets \/ Interrupts
  BY ChatStep DEF Base
<1>3. handler = "waiting" /\ ~Interrupts
  BY <1>1, <1>2 DEF Quiet, Loads, Stores, Reads, Posts, Resets, Interrupts, Signal, NoticeAdded
<1>4. /\ messages \in Seq(Message) /\ posted \in Seq(Message) /\ body \in Seq(Message)
      /\ writing \in [Goroutines -> {NotAdding} \cup Busy]
  BY TypedParts DEF Base, ChatTyped
<1>5. /\ posted \o NotPosted = added
      /\ writing["main"] # NotAdding => writing["main"].loaded = messages
      /\ pc = "post" => body = messages
      /\ pc \in {"exit 0", "exit 1"} /\ ~Dead => messages = <<>>
      /\ pc \in Unfinished \/ Dead => NothingEnded
  BY <1>3 DEF OrderInv
<1> USE DEF NotPosted, Dead, Unfinished, Unannounced, Sent
<1>6. CASE Quiet
  BY <1>5, <1>6 DEF Quiet, OrderInv, NothingEnded
<1>7. CASE Loads
  BY <1>4, <1>5, <1>7 DEF Loads, AddMessage, Speaking, Goroutines, OrderInv, NothingEnded
<1>8. CASE Stores
  BY <1>3, <1>8, OrderStores
<1>9. CASE Reads
  <2>1. body' = messages /\ UNCHANGED <<messages, writing, posted>>
    BY <1>3, <1>9 DEF Reads, ReadMessages, WriterInv
  <2> QED
    BY <1>5, <1>9, <2>1 DEF Reads, OrderInv, NothingEnded
<1>10. CASE Posts
  <2>1. posted' = posted \o messages /\ NotPosted' = <<>> /\ UNCHANGED <<messages, writing, added>>
    BY <1>5, <1>10 DEF Posts, Post
  <2>2. posted \o messages = added
    BY <1>5, <1>10 DEF Posts
  <2>3. posted' \o NotPosted' = added'
    BY <1>4, <2>1, <2>2, ConcatFacts, ConcatEmpty
  <2> QED
    BY <1>5, <1>10, <2>1, <2>3 DEF Posts, OrderInv
<1>11. CASE Resets
  <2>1. messages' = <<>> /\ NotPosted = <<>> /\ NotPosted' = <<>> /\ UNCHANGED <<posted, added>>
    BY <1>11 DEF Resets, Reset
  <2>2. writing' = writing /\ writing["main"] = NotAdding
    BY <1>11 DEF Resets, Reset, WriterInv, Speaking
  <2>3. NothingEnded'
    BY <2>1 DEF NothingEnded, Contains
  <2> QED
    BY <1>5, <1>11, <2>1, <2>2, <2>3 DEF Resets, OrderInv
<1> QED
  BY <1>2, <1>3, <1>6, <1>7, <1>8, <1>9, <1>10, <1>11

ChatInv == Base /\ WriterInv /\ AddedInv /\ OrderInv

LEMMA ChatInvariance == Spec => []ChatInv
<1>1. ASSUME Init PROVE WriterInv /\ AddedInv /\ OrderInv
  <2>1. WriterInv
    BY <1>1 DEF Init, NewChatwork, WriterInv, Goroutines
  <2>2. AddedInv
    BY <1>1 DEF Init, AddedInv, Once, Contains
  <2>3. OrderInv
    <3>1. /\ messages = <<>> /\ posted = <<>> /\ added = <<>> /\ pc = "initLogger"
          /\ writing["main"] = NotAdding /\ outcome = "none"
      BY <1>1 DEF Init, NewChatwork, Goroutines
    <3>2. posted \o NotPosted = added
      BY <3>1, ConcatEmpty DEF NotPosted
    <3> QED
      BY <3>1, <3>2 DEF OrderInv, Dead, NothingEnded, Contains
  <2> QED
    BY <2>1, <2>2, <2>3
<1>2. ASSUME ChatInv, Base', [Next]_vars PROVE ChatInv'
  <2>1. ChatTyped /\ command \in Commands /\ CommandInv /\ FatalInv
    BY <1>2, TypedParts DEF ChatInv, Base, LineTyped
  <2> QED
    BY <1>2, <2>1, WriterStep, AddedStep, OrderStep DEF ChatInv
<1> QED
  BY <1>1, <1>2, BaseInvariance, PTL DEF Spec, ChatInv

(***************************************************************************)
(* As long as no signal arrives, Send loses and repeats nothing: what was  *)
(* posted, and what is in the buffer yet, is what was written.             *)
(***************************************************************************)
THEOREM NothingIsLost == Spec => []PostedInOrder
<1>1. ChatInv => PostedInOrder
  BY DEF ChatInv, OrderInv, PostedInOrder
<1> QED
  BY <1>1, ChatInvariance, PTL

\* As long as every request has been answered, what was posted is in the room or
\* was refused.
RoomInv ==
    pc \notin Panicked =>
        /\ \A x : Contains(posted, x) => Contains(room, x) \/ x \in refused
        /\ refused = {} => room = posted

LEMMA RoomStep ==
    ASSUME ChatTyped, CommandInv, FatalInv, RoomInv, [Next]_vars
    PROVE  RoomInv'
<1> SUFFICES ASSUME pc' \notin Panicked
             PROVE  /\ \A x : Contains(posted', x) => Contains(room', x) \/ x \in refused'
                    /\ refused' = {} => room' = posted'
  BY DEF RoomInv
<1>1. CASE Posts
  <2>1. /\ posted \in Seq(Message) /\ room \in Seq(Message) /\ body \in Seq(Message)
        /\ posted' = posted \o body /\ (Accepted \/ Refused) /\ pc \notin Panicked
    BY <1>1 DEF Posts, Post, ChatTyped, Panicked
  <2>2. \A x : Contains(posted \o body, x) <=> Contains(posted, x) \/ Contains(body, x)
    BY <2>1, ConcatFacts
  <2>3. \A x : Contains(room \o body, x) <=> Contains(room, x) \/ Contains(body, x)
    BY <2>1, ConcatFacts
  <2>4. /\ \A x : Contains(posted, x) => Contains(room, x) \/ x \in refused
        /\ refused = {} => room = posted
    BY <2>1 DEF RoomInv
  <2>5. CASE Accepted
    BY <2>1, <2>2, <2>3, <2>4, <2>5 DEF Accepted
  <2>6. CASE Refused
    <3>1. room' = room /\ refused' = refused \cup ToSet(body)
      BY <2>6 DEF Refused
    <3>2. \A x : Contains(body, x) => x \in ToSet(body)
      BY <2>1 DEF Contains, ToSet
    <3>3. refused' = {} => body = <<>>
      <4>1. Len(body) \in Nat /\ DOMAIN body = 1..Len(body) /\ (Len(body) = 0 => body = <<>>)
        BY <2>1
      <4>2. Len(body) # 0 => body[1] \in ToSet(body)
        BY <4>1 DEF ToSet
      <4> QED
        BY <3>1, <4>1, <4>2
    <3>4. body = <<>> => posted \o body = posted
      BY <2>1
    <3> QED
      BY <2>1, <2>2, <2>4, <3>1, <3>2, <3>3, <3>4
  <2> QED
    BY <2>1, <2>5, <2>6
<1>2. CASE ~Posts
  <2>1. UNCHANGED requests
    BY <1>2, ChatStep DEF Quiet, Loads, Stores, Reads, Resets, Interrupts, Signal, NoticeAdded,
                          AddMessage, MessageAdded, ReadMessages, Reset
  <2>2. pc \notin Panicked
    BY <1>2, ChatStep DEF Quiet, Loads, Stores, Reads, Resets, Interrupts,
                          Speaking, Sent, Panicked
  <2> QED
    BY <2>1, <2>2 DEF RoomInv
<1> QED
  BY <1>1, <1>2

LEMMA RoomInvariance == Spec => []RoomInv
<1>1. Init => RoomInv
  BY DEF Init, NewChatwork, RoomInv, Contains
<1>2. Base /\ RoomInv /\ [Next]_vars => RoomInv'
  BY RoomStep, TypedParts DEF Base
<1> QED
  BY <1>1, <1>2, BaseInvariance, PTL DEF Spec

(***************************************************************************)
(* The room hears of every run that ends by itself, but for the requests   *)
(* that it answers with an error: nothing that was written is lost on the  *)
(* way, and main's error comes last if the run fails.                      *)
(***************************************************************************)
THEOREM EveryExitIsTold == Spec => []ExitIsTold
<1>1. ChatInv /\ RoomInv => ExitIsTold
  <2> SUFFICES ASSUME ChatInv, RoomInv,
                      pc \in {"exit 0", "exit 1"}, ~Dead, handler = "waiting"
               PROVE  /\ \A i \in DOMAIN added : Contains(room, added[i]) \/ added[i] \in refused
                      /\ refused = {} => room = added
                      /\ pc = "exit 1" => Last(added) = <<"main", "error">>
    BY DEF ExitIsTold
  <2>1. posted \in Seq(Message)
    BY TypedParts DEF ChatInv, Base, ChatTyped
  <2>2. posted \o <<>> = added
    BY DEF ChatInv, OrderInv, NotPosted
  <2>3. pc = "exit 1" => Last(added) = <<"main", "error">>
    BY DEF ChatInv, Base, FatalInv, Dead
  <2>4. posted = added
    BY <2>1, <2>2, ConcatEmpty
  <2>5. /\ \A x : Contains(posted, x) => Contains(room, x) \/ x \in refused
        /\ refused = {} => room = posted
    BY DEF RoomInv, Panicked
  <2>6. \A i \in DOMAIN added : Contains(posted, added[i])
    <3>1. DOMAIN posted = 1..Len(posted)
      BY <2>1, PlacesOf
    <3>2. SUFFICES ASSUME NEW i \in DOMAIN added PROVE Contains(posted, added[i])
      OBVIOUS
    <3>3. i \in 1..Len(posted) /\ posted[i] = added[i]
      BY <2>4, <3>1
    <3> QED
      BY <3>3 DEF Contains
  <2> QED
    BY <2>3, <2>4, <2>5, <2>6
<1> QED
  BY <1>1, ChatInvariance, RoomInvariance, PTL

-----------------------------------------------------------------------------
(* With a signal: what the handler puts back is posted twice at the most.  *)

\* What the main goroutine may still post, but for what the handler puts back.
Kept(x) ==
    \/ Contains(NotPosted, x)
    \/ writing["main"] # NotAdding /\ Contains(writing["main"].loaded, x)
    \/ pc = "post" /\ Contains(body, x)

Present(x) ==
    \/ Contains(posted, x) \/ Contains(messages, x) \/ Contains(body, x)
    \/ \E g \in Goroutines : writing[g] # NotAdding /\ Contains(writing[g].loaded, x)

Single(x) ==
    /\ Once(messages, x) /\ Once(body, x)
    /\ \A g \in Goroutines : writing[g] # NotAdding => Once(writing[g].loaded, x)

\* The handler has put nothing back yet.
Early == handler \in {"waiting", "writing"}

Traced(x) ==
    /\ Present(x) => Contains(added, x) \/ x = Notice
    /\ x = Notice /\ Early => ~Present(x)
    /\ Single(x)
    /\ Once(posted, x) \/ (Twice(posted, x) /\ ~Early /\ x # Notice /\ ~Kept(x))
    /\ Early \/ x = Notice => ~(Contains(posted, x) /\ Kept(x))

TracedInv == \A x \in Message \ {Mangled} : Traced(x)

LEMMA ShortFacts ==
    ASSUME NEW x
    PROVE  /\ ~Contains(<<>>, x) /\ Once(<<>>, x)
           /\ Once(<<Mangled>>, x) /\ (x # Mangled => ~Contains(<<Mangled>>, x))
  BY DEF Contains, Once

\* What a store leaves in the buffer was loaded, or is the message, or is lost.
LEMMA MessageAddedTo ==
    ASSUME ChatTyped, NEW g \in Goroutines, MessageAdded(g), NEW x \in Message \ {Mangled},
           Once(writing[g].loaded, x),
           ~(x = writing[g].message /\ Contains(writing[g].loaded, x))
    PROVE  /\ Once(messages', x)
           /\ Contains(messages', x) => Contains(writing[g].loaded, x) \/ x = writing[g].message
           /\ UNCHANGED <<body, posted>> /\ writing' = [writing EXCEPT ![g] = NotAdding]
<1>1. writing[g].loaded \in Seq(Message) /\ writing[g].message \in Message
  BY BusyFacts DEF MessageAdded
<1>2. PICK l \in Seq(Message) : l = writing[g].loaded
  BY <1>1
<1>3. PICK m \in Message : m = writing[g].message
  BY <1>1
<1>4. /\ Once(Append(l, m), x)
      /\ Contains(Append(l, m), x) => Contains(l, x) \/ x = m
  BY <1>2, <1>3, AppendFacts
<1>5. messages' = Append(l, m) \/ messages' = <<Mangled>>
  BY <1>2, <1>3 DEF MessageAdded
<1>6. UNCHANGED <<body, posted>> /\ writing' = [writing EXCEPT ![g] = NotAdding]
  BY DEF MessageAdded
<1> QED
  BY <1>2, <1>3, <1>4, <1>5, <1>6, ShortFacts

LEMMA TracedStores ==
    ASSUME ChatInv, NEW x \in Message \ {Mangled}, Traced(x), Stores
    PROVE  Traced(x)'
<1>1. ChatTyped /\ command \in Commands /\ CommandInv
  BY TypedParts DEF ChatInv, Base, LineTyped
<1>2. /\ pc \in Speaking /\ pc \notin Sent /\ pc' \notin Sent \cup {"post"}
      /\ MessageAdded("main") /\ writing["main"] # NotAdding /\ writing["main"].message = Spoken
      /\ added' = Append(added, Spoken) /\ handler' = handler
  BY DEF Stores, MessageAdded, ChatInv, WriterInv, Speaking, Sent
<1>3. x = Spoken => ~Contains(added, x) /\ x # Notice
  BY <1>1, <1>2, Fresh DEF ChatInv, AddedInv
<1>4. x = Spoken => ~Present(x)
  BY <1>3 DEF Traced
<1>5. /\ Once(writing["main"].loaded, x)
      /\ Contains(writing["main"].loaded, x) => Present(x) /\ Kept(x)
  BY <1>2 DEF Traced, Single, Present, Kept, Goroutines
<1>6. /\ Once(messages', x)
      /\ Contains(messages', x) => Contains(writing["main"].loaded, x) \/ x = Spoken
      /\ UNCHANGED <<body, posted>> /\ writing' = [writing EXCEPT !["main"] = NotAdding]
  BY <1>1, <1>2, <1>4, <1>5, MessageAddedTo DEF Goroutines
<1>7. Contains(added', x) <=> Contains(added, x) \/ x = Spoken
  <2>1. added \in Seq(Message) /\ Spoken \in Message
    BY <1>1, SpokenIsAMessage DEF ChatTyped
  <2>2. Contains(Append(added, Spoken), x) <=> Contains(added, x) \/ x = Spoken
    BY <2>1, AppendFacts
  <2> QED
    BY <1>2, <2>2
<1>8. /\ writing'["main"] = NotAdding /\ writing'["signal"] = writing["signal"]
  BY <1>1, <1>6 DEF ChatTyped, Goroutines
<1>9. Present(x)' => Present(x) \/ x = Spoken
  BY <1>5, <1>6, <1>8 DEF Present, Goroutines
<1>10. Kept(x)' => Kept(x) \/ x = Spoken
  BY <1>2, <1>5, <1>6, <1>8 DEF Kept, NotPosted, Sent
<1>11. Single(x)'
  BY <1>6, <1>8 DEF Traced, Single, Goroutines
<1>12. /\ Present(x) => Contains(added, x) \/ x = Notice
       /\ x = Notice /\ Early => ~Present(x)
       /\ Once(posted, x) \/ (Twice(posted, x) /\ ~Early /\ x # Notice /\ ~Kept(x))
       /\ Early \/ x = Notice => ~(Contains(posted, x) /\ Kept(x))
  BY DEF Traced
<1>13. x = Spoken => Once(posted, x) /\ ~Contains(posted, x)
  BY <1>4 DEF Present, Once, Contains
<1>14. Early' <=> Early
  BY <1>2 DEF Early
<1> QED
  BY <1>3, <1>6, <1>7, <1>9, <1>10, <1>11, <1>12, <1>13, <1>14 DEF Traced

LEMMA TracedNotice ==
    ASSUME ChatInv, NEW x \in Message \ {Mangled}, Traced(x), NoticeAdded
    PROVE  Traced(x)'
<1>1. ChatTyped
  BY TypedParts DEF ChatInv, Base
<1>2. /\ MessageAdded("signal") /\ writing["signal"] # NotAdding
      /\ writing["signal"].message = Notice
      /\ Early /\ ~Early' /\ UNCHANGED <<pc, added>>
  BY DEF NoticeAdded, MessageAdded, ChatInv, WriterInv, Early
<1>3. /\ Present(x) => Contains(added, x) \/ x = Notice
      /\ x = Notice => ~Present(x)
      /\ Once(posted, x)
  BY <1>2 DEF Traced
<1>4. /\ Once(writing["signal"].loaded, x)
      /\ Contains(writing["signal"].loaded, x) => Present(x)
  BY <1>2 DEF Traced, Single, Present, Goroutines
<1>5. /\ Once(messages', x)
      /\ Contains(messages', x) => Contains(writing["signal"].loaded, x) \/ x = Notice
      /\ UNCHANGED <<body, posted>> /\ writing' = [writing EXCEPT !["signal"] = NotAdding]
  BY <1>1, <1>2, <1>3, <1>4, MessageAddedTo DEF Goroutines
<1>6. /\ writing'["signal"] = NotAdding /\ writing'["main"] = writing["main"]
  BY <1>1, <1>5 DEF ChatTyped, Goroutines
<1>7. Present(x)' => Present(x) \/ x = Notice
  BY <1>4, <1>5, <1>6 DEF Present, Goroutines
<1>8. Single(x)'
  BY <1>5, <1>6 DEF Traced, Single, Goroutines
<1>9. x = Notice => ~Contains(posted, x)
  BY <1>3 DEF Present
<1> QED
  BY <1>2, <1>3, <1>5, <1>7, <1>8, <1>9 DEF Traced

\* Steps that post nothing and only pass on, or drop, what was there.
LEMMA TracedFlow ==
    ASSUME NEW x, Traced(x), UNCHANGED <<posted, added>>, Early' => Early, Early => Early',
           Present(x)' => Present(x), Kept(x)' => Kept(x), Single(x)'
    PROVE  Traced(x)'
  BY DEF Traced

LEMMA TracedPosts ==
    ASSUME ChatInv, NEW x \in Message \ {Mangled}, Traced(x), Posts
    PROVE  Traced(x)'
<1>1. posted \in Seq(Message) /\ body \in Seq(Message)
  BY TypedParts DEF ChatInv, Base, ChatTyped
<1>2. /\ pc = "post" /\ pc' \in Sent /\ posted' = posted \o body
      /\ UNCHANGED <<messages, writing, body, added, handler>>
  BY DEF Posts, Post
<1>3. PICK s \in Seq(Message) : s = posted'
  BY <1>1, <1>2, ConcatFacts
<1>4. writing["main"] = NotAdding
  BY <1>2 DEF ChatInv, WriterInv, Speaking
<1>5. ~Kept(x)'
  BY <1>2, <1>4, ShortFacts DEF Kept, NotPosted, Sent
<1>6. Once(body, x) /\ (Contains(body, x) => Kept(x))
  BY <1>2 DEF Traced, Single, Kept
<1>7. /\ Contains(s, x) => Contains(posted, x) \/ Contains(body, x)
      /\ Once(posted, x) /\ ~(Contains(posted, x) /\ Contains(body, x)) => Once(s, x)
      /\ Once(posted, x) => Twice(s, x)
      /\ Twice(posted, x) /\ ~Contains(body, x) => Twice(s, x)
  BY <1>1, <1>2, <1>3, <1>6, ConcatFacts
<1>8. Early \/ x = Notice => Once(s, x)
  BY <1>6, <1>7 DEF Traced
<1>9. Twice(s, x)
  BY <1>6, <1>7 DEF Traced
<1>10. /\ Present(x)' => Present(x)
       /\ Single(x)'
       /\ Early' => Early
       /\ Early => Early'
  BY <1>2, <1>3, <1>7 DEF Traced, Present, Single, Early
<1> QED
  BY <1>2, <1>3, <1>5, <1>8, <1>9, <1>10 DEF Traced

LEMMA TracedStep ==
    ASSUME ChatInv, TracedInv, [Next]_vars
    PROVE  TracedInv'
<1> SUFFICES ASSUME NEW x \in Message \ {Mangled} PROVE Traced(x)'
  BY DEF TracedInv, Message, Notice, Mangled
<1>1. Traced(x)
  BY DEF TracedInv
<1>2. writing \in [Goroutines -> {NotAdding} \cup Busy]
  BY TypedParts DEF ChatInv, Base, ChatTyped
<1>3. /\ Once(messages, x) /\ Once(body, x)
      /\ \A g \in Goroutines : writing[g] # NotAdding => Once(writing[g].loaded, x)
  BY <1>1 DEF Traced, Single
<1>4. CASE Quiet
  <2>1. UNCHANGED <<messages, writing, body, posted, added>>
    BY <1>4 DEF Quiet
  <2>2. (Early' => Early) /\ (Early => Early')
    BY <1>4 DEF Quiet, Early
  <2>3. Kept(x)' => Kept(x)
    BY <1>4 DEF Quiet, Kept, NotPosted, Sent
  <2>4. (Present(x)' => Present(x)) /\ Single(x)'
    BY <1>3, <2>1 DEF Present, Single
  <2> QED
    BY <1>1, <2>1, <2>2, <2>3, <2>4, TracedFlow
<1>5. CASE Loads
  <2>1. /\ UNCHANGED <<messages, body, posted, added, handler, pc>> /\ pc \notin Sent
        /\ writing'["main"].loaded = messages /\ writing'["signal"] = writing["signal"]
    BY <1>2, <1>5 DEF Loads, AddMessage, Goroutines, Speaking, Sent
  <2>2. (Early' => Early) /\ (Early => Early')
    BY <2>1 DEF Early
  <2>3. Kept(x)' => Kept(x)
    BY <2>1 DEF Kept, NotPosted, Sent
  <2>4. (Present(x)' => Present(x)) /\ Single(x)'
    BY <1>3, <2>1 DEF Present, Single, Goroutines
  <2> QED
    BY <1>1, <2>1, <2>2, <2>3, <2>4, TracedFlow
<1>6. CASE Stores
  BY <1>1, <1>6, TracedStores
<1>7. CASE Reads
  <2>1. /\ UNCHANGED <<messages, writing, posted, added, handler>>
        /\ pc = "send" /\ pc' = "post" /\ (body' = messages \/ body' = <<Mangled>>)
    BY <1>7 DEF Reads, ReadMessages
  <2>2. (Early' => Early) /\ (Early => Early')
    BY <2>1 DEF Early
  <2>3. Kept(x)' => Kept(x)
    BY <2>1, ShortFacts DEF Kept, NotPosted, Sent
  <2>4. (Present(x)' => Present(x)) /\ Single(x)'
    BY <1>3, <2>1, ShortFacts DEF Present, Single
  <2> QED
    BY <1>1, <2>1, <2>2, <2>3, <2>4, TracedFlow
<1>8. CASE Posts
  BY <1>1, <1>8, TracedPosts
<1>9. CASE Resets
  <2>1. /\ UNCHANGED <<writing, posted, added, handler>>
        /\ pc \in Sent /\ pc' \notin Sent \cup {"post"} /\ messages' = <<>> /\ body' = <<>>
    BY <1>9 DEF Resets, Reset
  <2>2. (Early' => Early) /\ (Early => Early')
    BY <2>1 DEF Early
  <2>3. Kept(x)' => Kept(x)
    BY <2>1, ShortFacts DEF Kept, NotPosted, Sent
  <2>4. (Present(x)' => Present(x)) /\ Single(x)'
    BY <1>3, <2>1, ShortFacts DEF Present, Single
  <2> QED
    BY <1>1, <2>1, <2>2, <2>3, <2>4, TracedFlow
<1>10. CASE Signal /\ UNCHANGED <<pc, added>>
  <2>1. /\ UNCHANGED <<messages, body, posted, added, pc>> /\ Early /\ Early'
        /\ writing'["signal"].loaded = messages /\ writing'["main"] = writing["main"]
    BY <1>2, <1>10 DEF Signal, AddMessage, Goroutines, Early
  <2>2. Kept(x)' => Kept(x)
    BY <2>1 DEF Kept, NotPosted, Sent
  <2>3. (Present(x)' => Present(x)) /\ Single(x)'
    BY <1>3, <2>1 DEF Present, Single, Goroutines
  <2> QED
    BY <1>1, <2>1, <2>2, <2>3, TracedFlow
<1>11. CASE NoticeAdded
  BY <1>1, <1>11, TracedNotice
<1> QED
  BY <1>4, <1>5, <1>6, <1>7, <1>8, <1>9, <1>10, <1>11, ChatStep
  DEF ChatInv, Base, Interrupts

LEMMA TracedInvariance == Spec => []TracedInv
<1>1. ASSUME Init PROVE TracedInv
  <2> SUFFICES ASSUME NEW x \in Message \ {Mangled} PROVE Traced(x)
    BY DEF TracedInv
  <2>1. /\ messages = <<>> /\ body = <<>> /\ posted = <<>> /\ pc = "initLogger"
        /\ \A g \in Goroutines : writing[g] = NotAdding
    BY <1>1 DEF Init, NewChatwork, Goroutines
  <2>2. ~Present(x) /\ Single(x) /\ Once(posted, x) /\ ~Contains(posted, x)
    BY <2>1, ShortFacts DEF Present, Single
  <2> QED
    BY <2>2 DEF Traced
<1> QED
  BY <1>1, TracedStep, ChatInvariance, PTL DEF Spec

(***************************************************************************)
(* However the handler's write falls among those of the main goroutine,    *)
(* the notice is posted once at the most and no message more than twice.   *)
(***************************************************************************)
THEOREM NoMessageThrice == Spec => []RarelyTwice
<1>1. ChatInv /\ TracedInv => RarelyTwice
  <2> SUFFICES ASSUME ChatInv, TracedInv PROVE RarelyTwice
    OBVIOUS
  <2>1. ChatTyped /\ command \in Commands /\ CommandInv
    BY TypedParts DEF ChatInv, Base, LineTyped
  <2>2. posted \in Seq(Message) /\ added \in Seq(Message)
    BY <2>1 DEF ChatTyped
  <2>3. \A x \in Message \ {Mangled} :
            /\ Once(posted, x) \/ Twice(posted, x)
            /\ handler = "waiting" \/ x = Notice => Once(posted, x)
    BY DEF TracedInv, Traced, Early
  <2>4. ASSUME NEW x \in Message \ {Mangled}
        PROVE  /\ Times(x) \in Nat /\ Times(x) <= 2
               /\ handler = "waiting" \/ x = Notice => Times(x) <= 1
    <3>1. Times(x) = Cardinality(Occurrences(posted, x))
      BY DEF Times, Occurrences
    <3>2. /\ Times(x) \in Nat
          /\ Once(posted, x) => Times(x) <= 1
          /\ Twice(posted, x) => Times(x) <= 2
      BY <2>2, <3>1, OccurrenceFacts
    <3> QED
      BY <2>3, <3>2
  <2>5. Times(Notice) <= 1
    BY <2>4 DEF Message, Notice, Mangled
  <2>6. ASSUME NEW i \in DOMAIN added
        PROVE  Times(added[i]) <= IF handler = "waiting" THEN 1 ELSE 2
    <3>1. added[i] \in Message /\ Contains(added, added[i])
      BY <2>2 DEF Contains
    <3>2. added[i] # Mangled
      BY <2>1, <3>1, Fresh DEF ChatInv, AddedInv
    <3> QED
      BY <2>4, <3>1, <3>2
  <2> QED
    BY <2>5, <2>6 DEF RarelyTwice
<1> QED
  BY <1>1, ChatInvariance, TracedInvariance, PTL

-----------------------------------------------------------------------------
(* The program with the contract of its checks in it.                      *)

(***************************************************************************)
(* A run of Session is a run of Command: what was shown of the program     *)
(* whatever its checks do holds of the program with these checks.          *)
(***************************************************************************)
THEOREM SessionsAreRuns == SessionSpec => Spec
<1>1. SessionInit => Init
  BY DEF SessionInit
<1>2. [SessionNext]_sessionVars => [Next]_vars
  <2>1. Begin => Next
    BY DEF Begin, Next, Main
  <2>2. Work => UNCHANGED vars
    BY DEF Work
  <2>3. Says => Next
    BY DEF Says, Next, Main
  <2>4. Returns => Next
    BY DEF Returns, Next, Main
  <2>5. Elsewhere => Next
    BY DEF Elsewhere, Next, Main
  <2>6. UNCHANGED sessionVars => UNCHANGED vars
    BY DEF sessionVars
  <2> QED
    BY <2>1, <2>2, <2>3, <2>4, <2>5, <2>6 DEF SessionNext
<1> QED
  BY <1>1, <1>2, PTL DEF SessionSpec, Spec

\* Between Check() and its return.
InCheck == pc \in {"checking", "return"}

\* The contract of the current check, what it has said, and the history.
SessionInv ==
    /\ ~InCheck => phase = "running" /\ verdict = "none"
    /\ verdict = "pass" => terms.due \subseteq owned
    /\ Contract!Accounts
    /\ pc = "return" => phase = "over" /\ {current} \X told \subseteq said
    /\ left \subseteq said /\ hollow = {}

\* A check that has returned has said how it ended.
EndsSaid ==
    /\ pc = "return" => Contains(added, End(current))
    /\ \A l \in left : l[1] \in DOMAIN command /\ Contains(added, End(l[1]))

LEMMA SessionInitInv == SessionInit => SessionInv /\ EndsSaid
  BY DEF SessionInit, Init, SessionInv, EndsSaid, InCheck, Contract!Accounts

\* The calls of the check, its clean-up and the cluster.
LEMMA WorkStep ==
    ASSUME SessionInv, Work
    PROVE  SessionInv'
<1>1. phase # "over" /\ pc # "return" /\ InCheck
  BY DEF Work, SessionInv, InCheck
<1>2. UNCHANGED <<pc, left, said, hollow>> /\ Contract!Accounts'
  BY DEF Work, vars, session
<1>3. verdict' = "pass" => terms'.due \subseteq owned'
  <2>1. ASSUME NEW o \in Objects, Contract!Acquire(o)
        PROVE  verdict' = "pass" => terms'.due \subseteq owned'
    BY <2>1 DEF SessionInv, Contract!Acquire, Contract!Decide
  <2>2. ASSUME NEW o \in Objects, Contract!Arrive(o)
        PROVE  verdict' = "pass" => terms'.due \subseteq owned'
    BY <2>2 DEF SessionInv, Contract!Arrive
  <2>3. CASE Contract!Conclude
    BY <2>3 DEF SessionInv, Contract!Conclude, Contract!Decide
  <2>4. CASE Contract!CleanUp \/ Contract!Vanish
    BY <2>4 DEF SessionInv, Contract!CleanUp, Contract!Vanish
  <2> QED
    BY <2>1, <2>2, <2>3, <2>4 DEF Work
<1> QED
  BY <1>1, <1>2, <1>3 DEF SessionInv, InCheck

\* The program turns to the next check after a Send only.
LEMMA Stays ==
    ASSUME [Next]_vars, pc # "reset"
    PROVE  current' = current
<1> USE DEF course
<1>1. InitLogger \/ Execute \/ ExecuteFails \/ NoKeys \/ NewFails \/ NewDies \/ NewReturns
      => current' = current
  BY DEF InitLogger, Execute, ExecuteFails, NoKeys, NewFails, NewDies, NewReturns
<1>2. New \/ CheckBegins \/ CheckSays \/ CheckReturns \/ Failed => current' = current
  BY DEF New, CheckBegins, CheckSays, CheckReturns, Failed
<1>3. SendReads \/ SendPosts \/ SendFails \/ SendPanics => current' = current
  BY DEF SendReads, SendPosts, SendFails, SendPanics
<1>4. ~SendReturns
  BY DEF SendReturns
<1>5. Handler \/ Done \/ UNCHANGED vars => current' = current
  BY DEF Handler, Signal, NoticeAdded, Cancel, Done, vars
<1> QED
  BY <1>1, <1>2, <1>3, <1>4, <1>5 DEF Next, Main

\* Only a check that returns leaves something behind, and what is said stays said.
LEMMA EndsStep ==
    ASSUME EndsSaid, Base, [Next]_vars,
           \A l \in left' : l \in left \/ (l[1] = current /\ pc = "return")
    PROVE  EndsSaid'
<1>1. /\ ChatTyped /\ command \in Commands /\ CommandInv /\ FatalInv
      /\ current \in DOMAIN command
  BY TypedParts DEF Base, LineTyped, TypeOK
<1>2. \A x : Contains(added, x) => Contains(added', x)
  <2>1. CASE Stores
    <3>1. added \in Seq(Message) /\ Spoken \in Message
      BY <1>1, SpokenIsAMessage DEF ChatTyped
    <3> QED
      BY <2>1, <3>1, AppendFacts DEF Stores
  <2>2. CASE ~Stores
    BY <1>1, <2>2, ChatStep DEF Quiet, Loads, Reads, Posts, Resets, Interrupts
  <2> QED
    BY <2>1, <2>2
<1>3. command' = command
  BY <1>1, Onward
<1>4. pc' = "return" => Contains(added', End(current)) /\ current' = current
  <2>1. CASE pc = "return"
    <3>1. Contains(added', End(current))
      BY <1>2, <2>1 DEF EndsSaid
    <3>2. pc' = "return" => current' = current
      BY <2>1, Stays
    <3> QED
      BY <3>1, <3>2
  <2>2. CASE pc # "return" /\ pc' = "return"
    <3>1. CASE CheckSays
      <4>1. added' = Append(added, End(current)) /\ current' = current
        BY <2>2, <3>1 DEF CheckSays, Say, End, course
      <4>2. added \in Seq(Message) /\ End(current) \in Message
        <5>1. command[current] \in Checks
          BY <1>1, CommandFacts DEF CommandInv
        <5> QED
          BY <1>1, <5>1 DEF ChatTyped, End, Message
      <4> QED
        BY <4>1, <4>2, AppendFacts
    <3>2. ~CheckSays => FALSE
      <4>1. ~(InitLogger \/ Execute \/ ExecuteFails \/ New \/ NoKeys \/ NewFails)
        BY <2>2 DEF InitLogger, Execute, ExecuteFails, New, Say, NoKeys, NewFails
      <4>2. ~(NewDies \/ NewReturns \/ CheckBegins \/ CheckReturns \/ Failed)
        BY <2>2 DEF NewDies, NewReturns, CheckBegins, CheckReturns, Failed, Say
      <4>3. ~(SendReads \/ SendPosts \/ SendFails \/ SendPanics)
        BY <2>2 DEF SendReads, SendPosts, SendFails, SendPanics
      <4>4. ~SendReturns
        <5>1. SendReturns => outcome \in {"nil", "error", "fatal"}
          BY <1>1 DEF SendReturns, CommandInv, Decided
        <5> QED
          BY <2>2, <5>1 DEF SendReturns
      <4>5. ~(Handler \/ Done \/ UNCHANGED vars)
        BY <2>2 DEF Handler, Signal, NoticeAdded, Cancel, Done, vars
      <4> QED
        BY <4>1, <4>2, <4>3, <4>4, <4>5 DEF Next, Main
    <3> QED
      BY <3>1, <3>2
  <2> QED
    BY <2>1, <2>2
<1>5. ASSUME NEW l \in left'
      PROVE  l[1] \in DOMAIN command /\ Contains(added', End(l[1]))
  BY <1>1, <1>2, <1>5 DEF EndsSaid
<1> QED
  BY <1>3, <1>4, <1>5 DEF EndsSaid, End

\* The rest of the program neither begins a check nor ends one.
LEMMA ElsewhereStep ==
    ASSUME SessionInv, CommandInv, Elsewhere
    PROVE  SessionInv'
<1>1. UNCHANGED <<contract, session>>
  BY DEF Elsewhere
<1>2. (InCheck => InCheck') /\ (pc' = "return" => pc = "return")
  <2>1. CASE InitLogger \/ Execute \/ ExecuteFails
    BY <2>1 DEF InCheck, InitLogger, Execute, ExecuteFails
  <2>2. CASE New
    BY <2>2 DEF InCheck, New, Say
  <2>3. CASE NoKeys \/ NewFails \/ NewDies \/ NewReturns
    BY <2>3 DEF InCheck, NoKeys, NewFails, NewDies, NewReturns
  <2>4. CASE SendReads \/ SendPosts \/ SendFails \/ SendPanics
    BY <2>4 DEF InCheck, SendReads, SendPosts, SendFails, SendPanics
  <2>5. CASE SendReturns
    <3>1. outcome \in {"nil", "error", "fatal"}
      BY <2>5 DEF SendReturns, CommandInv, Decided
    <3> QED
      BY <2>5, <3>1 DEF InCheck, SendReturns
  <2>6. CASE Failed
    BY <2>6 DEF InCheck, Failed, Say
  <2>7. CASE Handler
    BY <2>7 DEF InCheck, Handler, Signal, NoticeAdded, Cancel
  <2>8. CASE Done
    BY <2>8 DEF InCheck, Done, vars
  <2> QED
    BY <2>1, <2>2, <2>3, <2>4, <2>5, <2>6, <2>7, <2>8 DEF Elsewhere
<1>3. pc' = "return" => current' = current
  BY <1>2, Stays DEF Elsewhere, Next, Main
<1> QED
  BY <1>1, <1>2, <1>3 DEF SessionInv, contract, session, Contract!Accounts, Contract!Excused

LEMMA SessionStep ==
    ASSUME SessionInv, EndsSaid, Base, [SessionNext]_sessionVars
    PROVE  SessionInv' /\ EndsSaid'
<1>1. CASE Begin
  <2>1. UNCHANGED <<phase, verdict, loose, told, astray, left, said, hollow>>
        /\ phase = "running" /\ verdict = "none" /\ pc' = "checking"
    BY <1>1 DEF Begin, CheckBegins, SessionInv, InCheck, session
  <2>2. SessionInv'
    BY <2>1 DEF SessionInv, InCheck, Contract!Accounts
  <2>3. [Next]_vars
    BY <1>1 DEF Begin, Next, Main
  <2> QED
    BY <2>1, <2>2, <2>3, EndsStep
<1>2. CASE Work
  <2>1. UNCHANGED <<vars, left>>
    BY <1>2 DEF Work, session
  <2> QED
    BY <1>2, <2>1, WorkStep, EndsStep
<1>3. CASE Says
  <2>1. UNCHANGED <<contract, left, hollow, current>> /\ phase = "over" /\ pc = "checking"
        /\ pc' \in {"checking", "return"}
        /\ said' = (IF pc' = "return" THEN said \cup ({current} \X told) ELSE said)
    BY <1>3 DEF Says, DeferredLast, CheckSays, Say, course
  <2>2. SessionInv'
    BY <2>1 DEF SessionInv, InCheck, contract, Contract!Accounts, Contract!Excused
  <2>3. [Next]_vars
    BY <1>3 DEF Says, Next, Main
  <2> QED
    BY <2>1, <2>2, <2>3, EndsStep
<1>4. CASE Returns
  <2>1. /\ phase = "over" /\ {current} \X told \subseteq said /\ pc = "return"
        /\ left' = left \cup ({current} \X IF terms.keep THEN {} ELSE loose \ Contract!Excused)
        /\ said' = said /\ phase' = "running" /\ verdict' = "none" /\ pc' = "send"
    BY <1>4 DEF Returns, CheckReturns, SessionInv
  <2>2. (IF terms.keep THEN {} ELSE loose \ Contract!Excused) \subseteq told
    BY <2>1 DEF SessionInv, Contract!Accounts
  <2>3. left' \subseteq said'
    BY <2>1, <2>2 DEF SessionInv
  <2>4. hollow' = {}
    BY <1>4 DEF Returns, Outcome, SessionInv
  <2>5. SessionInv'
    BY <2>1, <2>3, <2>4 DEF SessionInv, InCheck, Contract!Accounts
  <2>6. [Next]_vars
    BY <1>4 DEF Returns, Next, Main
  <2>7. \A l \in left' : l \in left \/ l[1] = current
    BY <2>1
  <2> QED
    BY <2>1, <2>5, <2>6, <2>7, EndsStep
<1>5. CASE Elsewhere
  <2>1. [Next]_vars /\ left' = left
    BY <1>5 DEF Elsewhere, Next, Main, session
  <2> QED
    BY <1>5, <2>1, ElsewhereStep, EndsStep DEF Base
<1>6. CASE UNCHANGED sessionVars
  <2>1. UNCHANGED <<vars, contract, session>>
    BY <1>6 DEF sessionVars
  <2>2. SessionInv'
    BY <2>1 DEF vars, course, contract, session, SessionInv, InCheck, Contract!Accounts,
                Contract!Excused
  <2> QED
    BY <2>1, <2>2, EndsStep DEF session
<1> QED
  BY <1>1, <1>2, <1>3, <1>4, <1>5, <1>6 DEF SessionNext

LEMMA SessionInvariance == SessionSpec => [](SessionInv /\ EndsSaid)
  BY SessionInitInv, SessionStep, SessionsAreRuns, BaseInvariance, PTL DEF SessionSpec

(***************************************************************************)
(* With 0 the program says that every check of the sub-command was run,    *)
(* and created all that it was due to create.                              *)
(***************************************************************************)
THEOREM ExitZeroIsEarned == SessionSpec => []ExitZeroMeansDone
<1>1. SessionInv => ExitZeroMeansDone
  BY DEF SessionInv, ExitZeroMeansDone
<1> QED
  BY <1>1, SessionInvariance, PTL

(***************************************************************************)
(* When the program exits by itself, what a check may have left, and was   *)
(* not told to keep, is told of in a message that is in the room, or was   *)
(* in a request that the room answered with an error.                      *)
(***************************************************************************)
THEOREM LeaksAreTold == SessionSpec => []LeaksReachTheRoom
<1>1. SessionInv /\ EndsSaid /\ ChatInv /\ RoomInv => LeaksReachTheRoom
  <2> SUFFICES ASSUME SessionInv, EndsSaid, ChatInv, RoomInv,
                      pc \in {"exit 0", "exit 1"}, handler = "waiting", NEW l \in left
               PROVE  l \in said /\ (Contains(room, End(l[1])) \/ End(l[1]) \in refused)
    BY DEF LeaksReachTheRoom
  <2>1. l \in said /\ l[1] \in DOMAIN command /\ Contains(added, End(l[1]))
    BY DEF SessionInv, EndsSaid
  <2>2. posted \in Seq(Message) /\ messages \in Seq(Message) /\ command \in Commands
    BY TypedParts DEF ChatInv, Base, ChatTyped, LineTyped
  <2>3. posted \o messages = added
    BY DEF ChatInv, OrderInv, NotPosted
  <2>4. ~Contains(messages, End(l[1]))
    <3>1. command[l[1]] \in Checks
      BY <2>1, <2>2, CommandFacts
    <3> QED
      BY <3>1, ShortFacts DEF ChatInv, OrderInv, NothingEnded, End
  <2>5. Contains(posted, End(l[1]))
    BY <2>1, <2>2, <2>3, <2>4, ConcatFacts
  <2> QED
    BY <2>1, <2>5 DEF RoomInv, Panicked
<1> QED
  BY <1>1, SessionInvariance, SessionsAreRuns, ChatInvariance, RoomInvariance, PTL

ContractTyped ==
    /\ terms \in Contract!Terms /\ phase \in {"running", "closing", "over"}
    /\ owned \subseteq Objects /\ loose \subseteq Objects /\ told \subseteq Objects
    /\ astray \subseteq Objects

\* The history is that of the checks so far.
HistoryTyped == left \cup said \subseteq (1..current) \X Objects

LEMMA ContractTypedStep ==
    ASSUME ContractTyped, Base, [SessionNext]_sessionVars
    PROVE  ContractTyped'
<1> USE DEF ContractTyped, contract, session, Contract!Terms
<1>1. CASE Begin
  <2>1. options.debug \in BOOLEAN
    BY DEF Base, TypeOK
  <2> QED
    BY <1>1, <2>1 DEF Begin
<1>2. CASE Work
  <2>1. UNCHANGED session
    BY <1>2 DEF Work
  <2>2. ASSUME NEW o \in Objects, Contract!Acquire(o) \/ Contract!Arrive(o)
        PROVE  ContractTyped'
    BY <2>1, <2>2 DEF Contract!Acquire, Contract!Arrive, Contract!Decide
  <2>3. CASE Contract!Conclude \/ Contract!CleanUp \/ Contract!Vanish
    BY <2>1, <2>3 DEF Contract!Conclude, Contract!CleanUp, Contract!Vanish, Contract!Decide
  <2> QED
    BY <1>2, <2>2, <2>3 DEF Work
<1>3. CASE Says
  BY <1>3 DEF Says
<1>4. CASE Returns
  BY <1>4 DEF Returns, None
<1>5. CASE Elsewhere \/ UNCHANGED sessionVars
  BY <1>5 DEF Elsewhere, sessionVars
<1> QED
  BY <1>1, <1>2, <1>3, <1>4, <1>5 DEF SessionNext

LEMMA HistoryTypedStep ==
    ASSUME ContractTyped, HistoryTyped, Base, [Next]_vars, [SessionNext]_sessionVars
    PROVE  HistoryTyped'
<1>1. current \in Nat /\ current \in 1..current
  BY UpTo DEF Base, CommandInv
<1>2. current' = current \/ current' = current + 1
  BY Onward DEF Base
<1>3. \A i \in 1..current : i \in 1..current'
  BY <1>1, <1>2
<1>4. left' \cup said' \subseteq left \cup said \cup ({current} \X Objects)
  <2>1. CASE Says
    BY <2>1 DEF Says, ContractTyped
  <2>2. CASE Returns
    BY <2>2 DEF Returns, ContractTyped
  <2>3. CASE Begin \/ Work \/ Elsewhere \/ UNCHANGED sessionVars
    BY <2>3 DEF Begin, Work, Elsewhere, session, sessionVars
  <2> QED
    BY <2>1, <2>2, <2>3 DEF SessionNext
<1> QED
  BY <1>1, <1>3, <1>4 DEF HistoryTyped

(***************************************************************************)
(* The program with its checks is type correct: the contract of each check *)
(* is handed back as the next one needs to find it.                        *)
(***************************************************************************)
THEOREM SessionTyped == SessionSpec => []SessionTypeOK
<1>1. SessionInit => ContractTyped /\ HistoryTyped
  BY DEF SessionInit, ContractTyped, HistoryTyped, Contract!Terms, None
<1>2. TypeOK /\ ContractTyped /\ HistoryTyped /\ SessionInv => SessionTypeOK
  BY DEF ContractTyped, HistoryTyped, SessionInv, SessionTypeOK
<1>3. Base => TypeOK
  BY DEF Base
<1> QED
  BY <1>1, <1>2, <1>3, ContractTypedStep, HistoryTypedStep, SessionInvariance,
     SessionsAreRuns, BaseInvariance, PTL DEF SessionSpec, Spec
=============================================================================
