----------------------------- MODULE MCRunStore -----------------------------
(***************************************************************************)
(* Store for TLC: two runs of one plan, two clients that open a store of   *)
(* any earlier schema and call it in any order, two reports, a lease of    *)
(* two ticks.                                                              *)
(***************************************************************************)
EXTENDS Store, TLC

CONSTANTS r1, r2, c1, c2, go, hold

MCHeld == [r \in {go, hold, NoReport} |-> hold]

Symmetry == Permutations({r1, r2}) \cup Permutations({c1, c2})

\* Bound: the table is used once both clients have opened the store.  One that
\* opens it later reads the version that OpenedIsUsable states, and changes
\* nothing.
UsedByBoth == Opened = Openers \/ UNCHANGED vars
=============================================================================
