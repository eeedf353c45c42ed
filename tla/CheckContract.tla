--------------------------- MODULE CheckContract ---------------------------
(***************************************************************************)
(* What a check promises to whoever runs it, whatever calls it makes: it   *)
(* reaches one verdict; it passes only when everything it is due to create *)
(* was created; when it is over, whatever it may have left in the cluster  *)
(* is told of, except what a request it gave up brought back in a          *)
(* namespace that was used before; and a cancelled check starts nothing    *)
(* new.                                                                    *)
(* Module Check implements it (module CheckRefinement).                    *)
(***************************************************************************)
CONSTANTS Objects,    \* the objects a check may create
          Detached    \* those it may still update once it is cancelled

VARIABLES
    terms,      \* what was agreed at the start; never changes
    phase,      \* "running", "closing" (it cleans up) or "over"
    verdict,    \* "none", "pass" or "fail"
    cancelled,  \* the run was cancelled
    owned,      \* objects it has created or updated
    loose,      \* objects of its own that are, or may yet become, live
    told,       \* objects it says it could not delete
    astray      \* objects of requests it gave up, to be applied by the cluster
                \*   or applied behind its clean-up

vars == <<terms, phase, verdict, cancelled, owned, loose, told, astray>>

\* keep: leave everything in place (debug).  fresh: the namespace is new.  due:
\* what must exist to pass.
Terms == [keep : BOOLEAN, fresh : BOOLEAN, due : SUBSET Objects]

Init ==
    /\ terms \in Terms
    /\ phase = "running" /\ verdict = "none" /\ cancelled \in BOOLEAN
    /\ owned = {} /\ loose = {} /\ told = {} /\ astray = {}

\* What a check that is over answers for is told of.
Excused  == IF terms.fresh THEN {} ELSE astray
Accounts == phase = "over" => terms.keep \/ loose \subseteq told \cup Excused

\* The verdict; the clean-up may be left out only by a check that owns nothing.
Decide ==
    /\ verdict' \in {"pass", "fail"}
    /\ verdict' = "pass" => terms.due \subseteq owned'
    /\ \/ phase' = "closing"
       \/ phase' = "over" /\ owned' \cup loose' = {}

\* A request for an object: its last, perhaps, and answered or not.
Acquire(o) ==
    /\ phase = "running"
    /\ cancelled => o \in Detached
    /\ owned' \in {owned, owned \cup {o}}
    /\ loose' \in {loose, loose \cup {o}}
    /\ astray' \in {astray, astray \cup {o}}
    /\ Decide \/ UNCHANGED <<phase, verdict>>
    /\ UNCHANGED <<terms, cancelled, told>>

Conclude ==
    /\ phase = "running"
    /\ UNCHANGED <<terms, cancelled, owned, loose, told, astray>>
    /\ Decide

CleanUp ==
    /\ phase = "closing"
    /\ loose' \in SUBSET loose
    /\ told' \in SUBSET Objects /\ told \subseteq told'
    /\ phase' \in {"closing", "over"}
    /\ UNCHANGED <<terms, verdict, cancelled, owned, astray>>

\* The cluster applies an abandoned request, or refuses it, or lets an object go.
Arrive(o) ==
    /\ o \in astray
    /\ owned' = owned \cup {o}
    /\ astray' \in {astray, astray \ {o}}
    /\ UNCHANGED <<terms, phase, verdict, cancelled, loose, told>>

Vanish ==
    /\ loose' \in SUBSET loose
    /\ astray' \in SUBSET astray
    /\ UNCHANGED <<terms, phase, verdict, cancelled, owned, told>>

Cancel ==
    /\ ~cancelled
    /\ cancelled' = TRUE
    /\ UNCHANGED <<terms, phase, verdict, owned, loose, told, astray>>

Next == /\ \/ \E o \in Objects : Acquire(o) \/ Arrive(o)
           \/ Conclude \/ CleanUp \/ Vanish \/ Cancel
        /\ Accounts'

Spec == Init /\ [][Next]_vars
=============================================================================
