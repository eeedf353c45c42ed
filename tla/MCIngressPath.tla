--------------------------- MODULE MCIngressPath ---------------------------
(***************************************************************************)
(* Instance of IngressPath for TLC: every setting.                         *)
(***************************************************************************)
EXTENDS IngressPath

AllSettings == {s \in [alb : BOOLEAN, noDnsCheck : BOOLEAN,
                       noHTTPCheck : BOOLEAN, endpoint : BOOLEAN] : s.endpoint => ~s.alb}
=============================================================================
