------------------------------- MODULE MCJob -------------------------------
(***************************************************************************)
(* An instance of Job for TLC: the fluent check with RESOURCE_NAMESPACE    *)
(* set, the only check whose namespace a Job can fix.                      *)
(***************************************************************************)
EXTENDS Job

JobConfs == {[steps |-> Fluent.steps, undo |-> Fluent.undo, debug |-> debug, fresh |-> FALSE] :
                debug \in BOOLEAN}
=============================================================================
