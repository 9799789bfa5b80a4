----------------------------- MODULE MCCheckRun -----------------------------
(***************************************************************************)
(* CheckRun for TLC: up to two invocations of one plan.                    *)
(***************************************************************************)
EXTENDS CheckRun

CONSTANTS p1, p2
=============================================================================
