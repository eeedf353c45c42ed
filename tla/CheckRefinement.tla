-------------------------- MODULE CheckRefinement --------------------------
(***************************************************************************)
(* Check implements CheckContract, whatever its calls are.                 *)
(***************************************************************************)
EXTENDS Check

Checking == pc \in {"step", "update", "select", "probe"}

\* Live, or about to be stored by the server.
Loose(o) == objects[o] = "live" \/ o \in inflight

\* The objects of this check, and those of them that are, or may yet become,
\* live.
Own      == applied \cup inflight \cup delayed
Dangling == {o \in Own : Loose(o)}

\* Objects of given-up requests that may yet arrive, or came behind the clean-up.
Abandoned == inflight \cup delayed \cup revived

\* What a check must have applied to pass.  In a namespace of an earlier run
\* it can pass without: see CreateActsAsApply.
Due(c) == IF c.fresh THEN Created(c) ELSE {}

Phase == IF Checking THEN "running" ELSE IF pc = "cleanup" THEN "closing" ELSE "over"

Verdict == IF result = "none" THEN "none" ELSE IF result = "nil" THEN "pass" ELSE "fail"

Contract == INSTANCE CheckContract WITH
    Detached  <- {"namespace"},
    terms     <- [keep |-> conf.debug, fresh |-> conf.fresh, due |-> Due(conf)],
    phase     <- Phase,
    verdict   <- Verdict,
    cancelled <- ctxDone,
    owned     <- applied,
    loose     <- Dangling,
    told      <- reported,
    astray    <- Abandoned

(***************************************************************************)
(* Every check keeps the contract: createResources, the waits, the         *)
(* deferred clean-up and Send, under every failure of the cluster and with *)
(* a signal at any time, are steps of CheckContract or change nothing it   *)
(* can see.                                                                *)
(***************************************************************************)
KeepsContract == Contract!Spec
=============================================================================
