----------------------------- MODULE MCCommand -----------------------------
(***************************************************************************)
(* Instance of Command for TLC.                                           *)
(***************************************************************************)
EXTENDS Command

\* "test all" and two of the commands that run one check.
MCCommands == {TestAll, <<"ingress">>, <<"datadog-agent">>}

NoFlags == {[logLevel |-> "absent", debug |-> FALSE, noDnsCheck |-> "absent"]}
=============================================================================
