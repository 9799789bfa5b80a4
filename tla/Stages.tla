------------------------------- MODULE Stages -------------------------------
(***************************************************************************)
(* The stages of a run, and which of them Store.update accepts after       *)
(* which.  A run starts at "checking"; only Abandon reaches "abandoned".   *)
(***************************************************************************)
ActiveStages   == {"checking", "observing", "finalizing"}
TerminalStages == {"completed", "abandoned"}

\* Seeded bug: a resumed run may go back to its gates.
AllowedBackwards(stage) ==
  CASE stage = "checking"   -> {"checking", "observing", "finalizing"}
    [] stage = "observing"  -> {"checking", "observing", "finalizing"}
    [] stage = "finalizing" -> {"finalizing", "completed"}
    [] OTHER                -> {}

Allowed(stage) ==
  CASE stage = "checking"   -> {"checking", "observing", "finalizing"}
    [] stage = "observing"  -> {"observing", "finalizing"}
    [] stage = "finalizing" -> {"finalizing", "completed"}
    [] OTHER                -> {}
=============================================================================
