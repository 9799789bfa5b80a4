----------------------------- MODULE MCApprovals -----------------------------
(***************************************************************************)
(* Approvals for TLC: two runs of different plans, a confirm   *)
(* and two requests.                                                       *)
(***************************************************************************)
EXTENDS Approvals, TLC

CONSTANTS first, other, w1, w2

MCPairOf == [r \in {first, other} |-> IF r = other THEN 2 ELSE 1]
MCDecisionOf == [r \in {first, other} |-> IF r = first THEN "HOLD" ELSE "GO"]

Symmetry == Permutations({w1, w2})
=============================================================================
