---------------------------- MODULE MCFluentLogs ----------------------------
(***************************************************************************)
(* Instance of FluentLogs for TLC.                                         *)
(***************************************************************************)
EXTENDS FluentLogs

MCNames == 1..2
=============================================================================
