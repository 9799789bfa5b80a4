------------------------------ MODULE MCEngine ------------------------------
(***************************************************************************)
(* Engine for TLC: five plans that between them take every branch.         *)
(***************************************************************************)
EXTENDS Engine

MCPlans ==
  {[gates |-> {"recovery", "candidate", "git", "optional"}, observes |-> FALSE, metrics |-> <<>>],
   [gates |-> {"recovery", "check", "expected", "drift"},   observes |-> FALSE, metrics |-> <<>>],
   [gates |-> {"recovery", "fleet"}, observes |-> TRUE, metrics |-> <<>>],
   [gates |-> {"recovery", "expected", "fleet"}, observes |-> TRUE, metrics |-> <<>>],
   [gates |-> {"recovery", "fleet"}, observes |-> TRUE, metrics |-> <<TRUE, FALSE>>]}
=============================================================================
