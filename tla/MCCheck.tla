------------------------------ MODULE MCCheck ------------------------------
(***************************************************************************)
(* Instances of Check for TLC: the five checks with the settings that      *)
(* change their course.                                                    *)
(***************************************************************************)
EXTENDS CheckRefinement

Setting(program, debug, fresh) ==
    [steps |-> program.steps, undo |-> program.undo, debug |-> debug, fresh |-> fresh]

\* INGRESS_CLASS_NAME "alb" (the default) or another, --no-dns-check, and the
\* NoHTTPCheck field.
IngressVariants == {Ingress(TRUE, FALSE, FALSE), Ingress(FALSE, TRUE, FALSE),
                    Ingress(TRUE, TRUE, TRUE)}

Programs == {ClusterAutoscaler, Fluent, CertManager, DatadogAgent} \cup IngressVariants

\* Every check in a namespace of its own.
FreshConfs == {Setting(p, debug, TRUE) : p \in Programs, debug \in BOOLEAN}

\* The checks whose namespace can be fixed, after an earlier run.
ReusedConfs == {Setting(p, debug, FALSE) :
                    p \in {Fluent, Ingress(TRUE, TRUE, TRUE)}, debug \in BOOLEAN}

AllConfs == FreshConfs \cup ReusedConfs

\* For liveness: every check, with its clean-up.
LiveConfs == {Setting(p, FALSE, TRUE) : p \in Programs}
=============================================================================
