-------------------------- MODULE MCDatadogMetrics --------------------------
(***************************************************************************)
(* Instance of DatadogMetrics for TLC.                                    *)
(***************************************************************************)
EXTENDS DatadogMetrics

Both(k) == [api |-> k, app |-> k]

\* Good keys in the client and bad ones in the environment, the other way round,
\* and a client without one of the two where the environment has both.
MCLogins == {[client |-> Both("good"), env |-> Both("bad")],
             [client |-> Both("bad"), env |-> Both("good")],
             [client |-> [api |-> "good", app |-> "absent"], env |-> Both("good")]}
=============================================================================
