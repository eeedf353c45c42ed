------------------------------ MODULE Session ------------------------------
(***************************************************************************)
(* The program with its checks in it: a run of Command, in which the       *)
(* current check, between its first and its last message, takes the steps  *)
(* of CheckContract instead of guessing its outcome.  Check implements     *)
(* CheckContract, and so what holds here holds of the program with the     *)
(* checks of module Check.                                                 *)
(***************************************************************************)
EXTENDS Command

CONSTANTS Objects, Detached     \* as in CheckContract

ASSUME ObjectsAssumption == Detached \subseteq Objects

VARIABLES
    terms, phase, verdict, owned, loose, told, astray,   \* of the current check
    left,        \* history: <<check, object>>: loose when the check returned
    said,        \* history: <<check, object>>: told in the check's last message
    hollow       \* history: checks that returned nil without all they were due

contract == <<terms, phase, verdict, owned, loose, told, astray>>
session  == <<left, said, hollow>>
sessionVars == <<vars, contract, session>>

Contract == INSTANCE CheckContract WITH cancelled <- ctxDone

\* Between two checks there are no terms.
None == [keep |-> FALSE, fresh |-> TRUE, due |-> {}]

SessionInit ==
    /\ Init
    /\ terms = None /\ phase = "running" /\ verdict = "none"
    /\ owned = {} /\ loose = {} /\ told = {} /\ astray = {}
    /\ left = {} /\ said = {} /\ hollow = {}

-----------------------------------------------------------------------------
\* Check() of the current check; debug comes with the Checker, and
\* RESOURCE_NAMESPACE may name a used namespace for the fluent check.
Begin ==
    /\ CheckBegins
    /\ terms' \in [keep  : {options.debug},
                   fresh : IF command[current] = "fluent" THEN BOOLEAN ELSE {TRUE},
                   due   : SUBSET Objects]
    /\ UNCHANGED <<phase, verdict, owned, loose, told, astray, session>>

\* Its calls, its clean-up, and what becomes of its objects meanwhile.
Work ==
    /\ pc \in {"checking", "return"} /\ writing["main"] = NotAdding
    /\ phase # "over"
    /\ \/ \E o \in Objects : Contract!Acquire(o) \/ Contract!Arrive(o)
       \/ Contract!Conclude \/ Contract!CleanUp \/ Contract!Vanish
    /\ Contract!Accounts'
    /\ UNCHANGED <<vars, session>>

\* Mutant: the clean-up is deferred before Send, and so runs after it.
DeferredFirst == phase \in {"closing", "over"}

\* Send is deferred before the clean-up, and so runs after it.
DeferredLast == phase = "over"

\* What the check and its clean-up have to say.
Says ==
    /\ DeferredLast
    /\ CheckSays
    /\ said' = IF pc' = "return" THEN said \cup ({current} \X told) ELSE said
    /\ UNCHANGED <<contract, left, hollow>>

\* Mutant: Check() drops the error of createResources.
ErrorDropped == IF doomed THEN "error" ELSE "nil"

\* A check that was begun with the context cancelled fails; see DoomedFails.
Outcome == IF verdict = "pass" /\ ~doomed THEN "nil" ELSE "error"

Returns ==
    /\ phase = "over"
    /\ CheckReturns
    /\ outcome' = Outcome
    /\ left' = left \cup ({current} \X IF terms.keep THEN {} ELSE loose \ Contract!Excused)
    /\ hollow' = IF outcome' = "nil" /\ ~(terms.due \subseteq owned)
                 THEN hollow \cup {current} ELSE hollow
    /\ terms' = None /\ phase' = "running" /\ verdict' = "none"
    /\ owned' = {} /\ loose' = {} /\ told' = {} /\ astray' = {}
    /\ UNCHANGED said

Elsewhere ==
    /\ \/ InitLogger \/ Execute \/ ExecuteFails
       \/ New \/ NoKeys \/ NewFails \/ NewDies \/ NewReturns
       \/ SendReads \/ SendPosts \/ SendFails \/ SendPanics \/ SendReturns \/ Failed
       \/ Handler \/ Done
    /\ UNCHANGED <<contract, session>>

SessionNext == Begin \/ Work \/ Says \/ Returns \/ Elsewhere

SessionSpec == SessionInit /\ [][SessionNext]_sessionVars

-----------------------------------------------------------------------------
SessionTypeOK ==
    /\ TypeOK
    /\ terms \in Contract!Terms /\ phase \in {"running", "closing", "over"}
    /\ owned \subseteq Objects /\ loose \subseteq Objects /\ told \subseteq Objects
    /\ astray \subseteq Objects
    /\ left \cup said \subseteq (1..current) \X Objects
    /\ hollow \subseteq 1..current

(***************************************************************************)
(* When the program exits by itself, without a signal, every object that a *)
(* check may have left in the cluster, and was not told to keep, is named  *)
(* in a message that is in the room, unless the request it was in was      *)
(* answered with an error: through the order of the deferred calls, the    *)
(* one buffer of all checks, and the ways out of "test all".  Not so what  *)
(* an abandoned request revives in a used namespace: see LeakIsReported.   *)
(***************************************************************************)
End(i) == <<command[i], "end">>

LeaksReachTheRoom ==
    pc \in {"exit 0", "exit 1"} /\ handler = "waiting" =>
        \A l \in left : l \in said /\ (Contains(room, End(l[1])) \/ End(l[1]) \in refused)

(***************************************************************************)
(* Exit code 0 says that no check of the sub-command has passed without    *)
(* all that it was due to create, with a signal at any time.               *)
(***************************************************************************)
ExitZeroMeansDone == pc = "exit 0" => hollow = {}
=============================================================================
