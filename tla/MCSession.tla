----------------------------- MODULE MCSession -----------------------------
(***************************************************************************)
(* Instance of Session for TLC.                                            *)
(***************************************************************************)
EXTENDS Session

\* "test all" and a command of one check.
MCCommands == {TestAll, <<"ingress">>}

DebugOrNot == [logLevel : {"absent"}, debug : BOOLEAN, noDnsCheck : {"absent"}]

\* The bound: nothing is left, told or refused in a run with a signal.  What is
\* said of those is said of runs without one.
SignalOrIncident ==
    handler = "waiting" \/ (left = {} /\ said = {} /\ refused = {} /\ told = {})
=============================================================================
