------------------------------- MODULE Engine -------------------------------
(***************************************************************************)
(* internal/guard: RunWithProgress, ResumeObservation and observe, the     *)
(* engine that turns a plan into a report, with every checkpoint it saves  *)
(* and every place where an interruption can strike; and the one process   *)
(* at a time that drives it (cmd/releaseguard), which reruns the plan      *)
(* until the run is completed.  Several processes at once are CheckRun's.  *)
(*                                                                         *)
(* A result keeps its gate and why it failed: "none" is a pass, "release"  *)
(* and "unreadable" are the release's fault, "cancel" is a gate that was   *)
(* cut short by a signal, "store" a save that was refused.                 *)
(***************************************************************************)
EXTENDS Naturals, Sequences, SequencesExt, Stages

CONSTANTS
  Plans,       \* the plans considered
  MaxSamples,  \* bound: samples after which only the deadline is left
  MaxFaults,   \* bound: faults in a behaviour
  Faults       \* kinds of fault that happen

FaultKinds == {"signal", "crash", "store"}

GateOrder == <<"recovery", "candidate", "git", "candidateGit", "expected",
               "links", "check", "optional", "drift", "fleet", "baseline",
               "optionalBaseline">>

Gates == Range(GateOrder)

\* Gates that a plan does not name.
Implied == {"candidateGit", "links", "baseline", "optionalBaseline"}

\* What ValidatePlan lets through: a recovery check and something to verify,
\* a candidate only with a repository, metrics only with an observation, and
\* an observation only with a fleet.
ValidPlan(p) ==
  /\ p.gates \subseteq Gates \ Implied
  /\ "recovery" \in p.gates
  /\ p.gates \ {"recovery"} # {}
  /\ "candidate" \in p.gates => "git" \in p.gates
  /\ p.metrics # <<>> => p.observes
  /\ p.observes => "fleet" \in p.gates

\* A metric is whether the plan requires it.
ASSUME PlansAssumption ==
  \A p \in Plans : /\ DOMAIN p = {"gates", "observes", "metrics"}
                   /\ p.observes \in BOOLEAN
                   /\ p.metrics \in Seq(BOOLEAN)
                   /\ ValidPlan(p)
ASSUME FaultsAssumption == Faults \subseteq FaultKinds
ASSUME BoundsAssumption == MaxSamples \in Nat \ {0, 1} /\ MaxFaults \in Nat

VARIABLES
  plan,
  saved,    \* the run's row: its stage and report
  file,     \* the published report
  pc,       \* where the engine is
  r,        \* the report in memory
  at,       \* position of the next gate, or of the next metric
  resumed,  \* ResumeObservation rather than RunWithProgress
  verdict,  \* why observe failed, "none" if it passed
  ctx,      \* ctx.Err() # nil
  exit,     \* how the last invocation ended
  faults

vars == <<plan, saved, file, pc, r, at, resumed, verdict, ctx, exit, faults>>

-----------------------------------------------------------------------------
NoReport == [results |-> <<>>, status |-> "absent", decision |-> "none",
             samples |-> <<>>]

\* Seeded bug: Decision is left at its zero value.
NewReportUndecided == [results |-> <<>>, status |-> "none", decision |-> "",
                       samples |-> <<>>]

\* What RunWithProgress starts from.
NewReport == [results |-> <<>>, status |-> "none", decision |-> "GO",
              samples |-> <<>>]

Entry(gate, cause) == [gate |-> gate, cause |-> cause]

Optional == {"optional", "optionalBaseline", "optionalComparison"}

With(report, gate, cause) ==
  [report EXCEPT !.results = Append(@, Entry(gate, cause))]

Failed(report, gates) ==
  {i \in DOMAIN report.results : /\ report.results[i].cause # "none"
                                 /\ report.results[i].gate \in gates}

AllGates == Gates \cup {"window", "comparison", "optionalComparison", "coverage", "save"}

Required == AllGates \ Optional

\* Seeded bug: an optional failure does not hold a release back.
DecideLeniently(report) ==
  [report EXCEPT !.decision =
     IF Failed(report, Required) # {} THEN "NO-GO" ELSE "GO"]

\* decide: any required failure is NO-GO, any other failure HOLD.
Decide(report) ==
  [report EXCEPT !.decision =
     IF Failed(report, Required) # {} THEN "NO-GO"
     ELSE IF Failed(report, AllGates) # {} THEN "HOLD"
     ELSE "GO"]

Hold(report) == [report EXCEPT !.decision = "HOLD"]

Passed(report, gate) ==
  \E i \in DOMAIN report.results : report.results[i] = Entry(gate, "none")

-----------------------------------------------------------------------------
(***************************************************************************)
(* The progress function: the store's transition check, and its failures.  *)
(***************************************************************************)
Fault(kind) ==
  /\ kind \in Faults
  /\ faults < MaxFaults
  /\ faults' = faults + 1

\* Save the report at a stage; ok is what the engine is told.
Save(stage, report, ok) ==
  LET row == [stage |-> stage, report |-> report]
  IN \/ /\ ok
        /\ stage \in Allowed(saved.stage)
        /\ saved' = row
        /\ UNCHANGED faults
     \/ /\ ~ok
        /\ stage \notin Allowed(saved.stage)
        /\ UNCHANGED <<saved, faults>>
     \/ /\ ~ok
        /\ Fault("store")
        /\ \/ UNCHANGED saved
           \/ stage \in Allowed(saved.stage) /\ saved' = row

\* A save whose outcome the engine ignores.
SaveAnyway(stage, report) == \E ok \in BOOLEAN : Save(stage, report, ok)

\* checkpoint(): leave when interrupted or not saved, else go on at `next`.
Checkpoint(report, next) ==
  IF ctx
  THEN /\ SaveAnyway("checking", Hold(report))
       /\ r' = Hold(report)
       /\ pc' = "returned"
  ELSE \E ok \in BOOLEAN :
         /\ Save("checking", Hold(report), ok)
         /\ r'  = IF ok THEN report ELSE Decide(With(report, "save", "store"))
         /\ pc' = IF ok THEN next ELSE "returned"

-----------------------------------------------------------------------------
Planned(gate) ==
  \/ gate \in plan.gates
  \/ gate = "candidateGit" /\ "candidate" \in plan.gates
  \/ gate = "links" /\ "expected" \in plan.gates
  \/ gate = "baseline" /\ TRUE \in Range(plan.metrics)
  \/ gate = "optionalBaseline" /\ FALSE \in Range(plan.metrics)

Init ==
  /\ plan \in Plans
  /\ saved   = [stage |-> "checking", report |-> NoReport]
  /\ file    = NoReport
  /\ pc      = "idle"
  /\ r       = NoReport
  /\ at      = 1
  /\ resumed = FALSE
  /\ verdict = "none"
  /\ ctx     = FALSE
  /\ exit    = "none"
  /\ faults  = 0

\* A new invocation of a run at "checking": every gate, from the start.
Run ==
  /\ pc = "idle" /\ saved.stage = "checking"
  /\ r' = NewReport
  /\ at' = 1
  /\ resumed' = FALSE
  /\ ctx' = FALSE
  /\ pc' = "begin"
  /\ UNCHANGED <<plan, saved, file, verdict, exit, faults>>

\* The checkpoint before the first gate.
Begin ==
  /\ pc = "begin"
  /\ Checkpoint(r, "gates")
  /\ UNCHANGED <<plan, file, at, resumed, verdict, ctx, exit>>

\* Seeded bug: a resumed observation starts its sample list afresh.
ResumedForgetful == [saved.report EXCEPT !.samples = <<>>]

\* ResumeObservation and observe keep the results and samples of the record.
Resumed == saved.report

\* A new invocation of a run at "observing".
Resume ==
  /\ pc = "idle" /\ saved.stage = "observing"
  /\ r' = Resumed
  /\ resumed' = TRUE
  /\ ctx' = FALSE
  /\ pc' = "watch"
  /\ UNCHANGED <<plan, saved, file, at, verdict, exit, faults>>

\* A new invocation of a run at "finalizing": its report as it was saved.
Refinalize ==
  /\ pc = "idle" /\ saved.stage = "finalizing"
  /\ r' = saved.report
  /\ ctx' = FALSE
  /\ pc' = "returned"
  /\ UNCHANGED <<plan, saved, file, at, resumed, verdict, exit, faults>>

-----------------------------------------------------------------------------
\* The cross-checks run only when both sides could be loaded.
Due(gate) ==
  /\ Planned(gate)
  /\ gate = "candidateGit" =>
       ~\E i \in DOMAIN r.results : r.results[i] = Entry("candidate", "unreadable")
  /\ gate = "links" => Passed(r, "expected")

\* How a gate can end; only an interrupted context cuts one short.
Outcomes(gate) ==
  {"none", "release"} \cup (IF gate = "candidate" THEN {"unreadable"} ELSE {})
                      \cup (IF ctx THEN {"cancel"} ELSE {})

\* The positions of the gates that are due and have not run.
Left == {i \in at .. Len(GateOrder) : Due(GateOrder[i])}

\* The next gate that is due; a baseline stands for those of all metrics that
\* are required, or of all that are not.
RunGate ==
  /\ pc = "gates"
  /\ \E i \in Left :
       /\ \A j \in Left : i <= j
       /\ \E cause \in Outcomes(GateOrder[i]) :
            Checkpoint(With(r, GateOrder[i], cause), "gates")
       /\ at' = i + 1
  /\ UNCHANGED <<plan, file, resumed, verdict, ctx, exit>>

\* The gates are done: open the window, or go on to the coverage.
GatesDone ==
  /\ pc = "gates" /\ Left = {}
  /\ IF plan.observes
     THEN LET opened == [Hold(r) EXCEPT !.status = "observing"]
          IN \E ok \in BOOLEAN :
               /\ Save("observing", opened, ok)
               /\ r'  = IF ok THEN opened ELSE Decide(With(opened, "save", "store"))
               /\ pc' = IF ok THEN "watch" ELSE "returned"
     ELSE pc' = "coverage" /\ UNCHANGED <<saved, r, faults>>
  /\ UNCHANGED <<plan, file, at, resumed, verdict, ctx, exit>>

-----------------------------------------------------------------------------
\* Where check() leads after a sample: the order of its tests.
AfterSample(ok, good, deadline) ==
  IF ~ok \/ ~good THEN "observed" ELSE IF deadline THEN "compare" ELSE "watching"

(***************************************************************************)
(* observe's check(): one fleet sample, saved before it is judged.  The    *)
(* first sample of an invocation and the one at the deadline are both      *)
(* taken, so a window never ends on its first sample.                      *)
(***************************************************************************)
Sample ==
  /\ pc \in {"watch", "watching"}
  /\ \E good, deadline, ok \in BOOLEAN :
       LET more == [r EXCEPT !.samples = Append(@, good)]
           next == AfterSample(ok, good, deadline)
       IN /\ pc = "watch" => ~deadline
          /\ pc = "watching" => deadline \/ Len(r.samples) < MaxSamples
          /\ ctx => ~good
          /\ Save("observing", more, ok)
          /\ r' = more
          /\ verdict' = IF ~ok THEN "store"
                        ELSE IF good THEN "none"
                        ELSE IF ctx THEN "cancel" ELSE "release"
          /\ pc' = next
          /\ at' = IF next = "compare" THEN 1 ELSE at
  /\ UNCHANGED <<plan, file, resumed, ctx, exit>>

\* select: ctx.Done between two samples.
Cancelled ==
  /\ pc = "watching" /\ ctx
  /\ verdict' = "cancel"
  /\ pc' = "observed"
  /\ UNCHANGED <<plan, saved, file, r, at, resumed, ctx, exit, faults>>

\* After the deadline sample: each metric's comparison goes into the results,
\* up to the first required one that fails.
Compare ==
  /\ pc = "compare" /\ at <= Len(plan.metrics)
  /\ LET gate == IF plan.metrics[at] THEN "comparison" ELSE "optionalComparison"
     IN \E cause \in Outcomes(gate) :
          /\ r' = With(r, gate, cause)
          /\ IF plan.metrics[at] /\ cause # "none"
             THEN pc' = "observed" /\ verdict' = cause
             ELSE UNCHANGED <<pc, verdict>>
  /\ at' = at + 1
  /\ UNCHANGED <<plan, saved, file, resumed, ctx, exit, faults>>

\* No metric is left: observe has passed.
Compared ==
  /\ pc = "compare" /\ at > Len(plan.metrics)
  /\ pc' = "observed"
  /\ UNCHANGED <<plan, saved, file, r, at, resumed, verdict, ctx, exit, faults>>

\* observe has returned: keep the run observing when interrupted, else record
\* the verdict.
Observed ==
  /\ pc = "observed"
  /\ IF ctx
     THEN LET held == [Hold(r) EXCEPT !.status = "observing"]
          IN /\ SaveAnyway("observing", held)
             /\ r' = held
             /\ pc' = "returned"
     ELSE /\ r' = [With(r, "window", verdict) EXCEPT
                     !.status = IF resumed THEN "completed" ELSE @]
          /\ pc' = "coverage"
          /\ UNCHANGED <<saved, faults>>
  /\ UNCHANGED <<plan, file, at, resumed, verdict, ctx, exit>>

-----------------------------------------------------------------------------
\* finalizeChangeCoverage, when the declaration was loaded; only the first
\* invocation saves a checkpoint after it.
Coverage ==
  /\ pc = "coverage"
  /\ IF ~Passed(r, "expected")
     THEN pc' = "decide" /\ UNCHANGED <<saved, r, faults>>
     ELSE \E cause \in Outcomes("coverage") :
            IF resumed
            THEN /\ r' = With(r, "coverage", cause)
                 /\ pc' = "decide"
                 /\ UNCHANGED <<saved, faults>>
            ELSE Checkpoint(With(r, "coverage", cause), "decide")
  /\ UNCHANGED <<plan, file, at, resumed, verdict, ctx, exit>>

\* Seeded bug: the observation of a final report still says "observing".
FinalObserving(report) == Decide(report)

\* decide, and the observation is over.
Final(report) ==
  [Decide(report) EXCEPT !.status = IF @ = "observing" THEN "completed" ELSE @]

\* The last progress call; the caller saves it as "finalizing".
Finalize ==
  /\ pc = "decide"
  /\ \E ok \in BOOLEAN :
       /\ Save("finalizing", Final(r), ok)
       /\ r' = IF ok THEN Final(r) ELSE Decide(With(Final(r), "save", "store"))
  /\ pc' = "returned"
  /\ UNCHANGED <<plan, file, at, resumed, verdict, ctx, exit>>

-----------------------------------------------------------------------------
(***************************************************************************)
(* check after the engine, in one step: CheckRun has its interleavings.    *)
(***************************************************************************)
\* Seeded bug: only the report is looked at before publishing.
ExitThreeIfObserving == r.status = "observing"

\* Exit 3 instead of publishing.
ExitThree == ctx \/ r.status = "observing"

Conclude ==
  /\ pc = "returned"
  /\ pc' = "idle"
  /\ IF ExitThree
     THEN exit' = "interrupted" /\ UNCHANGED <<file, saved>>
     ELSE IF file \notin {NoReport, r}
     THEN exit' = "fatal" /\ UNCHANGED <<file, saved>>
     ELSE /\ file' = r
          /\ IF saved.stage = "finalizing"
             THEN /\ saved' = [stage |-> "completed", report |-> r]
                  /\ exit' = r.decision
             ELSE exit' = "fatal" /\ UNCHANGED saved
  /\ UNCHANGED <<plan, r, at, resumed, verdict, ctx, faults>>

Interrupt ==
  /\ pc # "idle" /\ ~ctx
  /\ Fault("signal")
  /\ ctx' = TRUE
  /\ UNCHANGED <<plan, saved, file, pc, r, at, resumed, verdict, exit>>

Crash ==
  /\ pc # "idle"
  /\ Fault("crash")
  /\ pc' = "idle"
  /\ exit' = "crashed"
  /\ UNCHANGED <<plan, saved, file, r, at, resumed, verdict, ctx>>

Done == saved.stage = "completed" /\ pc = "idle" /\ UNCHANGED vars

Progress ==
  \/ Run \/ Begin \/ Resume \/ Refinalize
  \/ RunGate \/ GatesDone
  \/ Sample \/ Cancelled \/ Compare \/ Compared \/ Observed
  \/ Coverage \/ Finalize \/ Conclude

Next == Progress \/ Interrupt \/ Crash \/ Done

Spec == Init /\ [][Next]_vars

\* The engine runs and the operator reruns an unfinished plan.
FairSpec == Spec /\ WF_vars(Progress)

-----------------------------------------------------------------------------
Causes == {"none", "release", "unreadable", "cancel", "store"}

Report == [results  : Seq([gate : AllGates, cause : Causes]),
           status   : {"absent", "none", "observing", "completed"},
           decision : {"none", "GO", "HOLD", "NO-GO"},
           samples  : Seq(BOOLEAN)]

\* The type invariant.
TypeOK ==
  /\ plan \in Plans
  /\ saved \in [stage : ActiveStages \cup {"completed"}, report : Report]
  /\ {r, file} \subseteq Report
  /\ pc \in {"idle", "begin", "gates", "watch", "watching", "compare", "observed",
             "coverage", "decide", "returned"}
  /\ at \in Nat \ {0}
  /\ verdict \in Causes
  /\ {resumed, ctx} \subseteq BOOLEAN
  /\ exit \in {"none", "GO", "HOLD", "NO-GO", "interrupted", "fatal", "crashed"}
  /\ faults \in 0 .. MaxFaults

Decided == saved.stage \in {"finalizing", "completed"}

\* Everything the plan asks for.
Demands ==
  {g \in Gates : Planned(g)}
  \cup (IF plan.observes THEN {"window"} ELSE {})
  \cup (IF TRUE \in Range(plan.metrics) THEN {"comparison"} ELSE {})
  \cup (IF FALSE \in Range(plan.metrics) THEN {"optionalComparison"} ELSE {})
  \cup (IF "expected" \in plan.gates THEN {"coverage"} ELSE {})

\* A GO or a HOLD of the tool means that every required gate of the plan was
\* run and passed, in whatever invocations, cross-checks that were skipped
\* included; GO means that the optional ones passed too.
DecisionSound ==
  Decided /\ saved.report.decision # "NO-GO" =>
    \A g \in Demands :
      g \in Required \/ saved.report.decision = "GO" => Passed(saved.report, g)

\* README.md: a rerun only executes the rest of the window.  From the first
\* saved sample on, no result and no sample is lost or taken again.
ObservationOnlyGrows ==
  [][saved.stage = "observing" =>
       /\ IsPrefix(saved.report.results, saved'.report.results)
       /\ IsPrefix(saved.report.samples, saved'.report.samples)]_vars

\* The report says of itself that it could not be saved.
Unsaved(report) ==
  \E i \in DOMAIN report.results : report.results[i].cause = "store"

\* What is on disk is the report of the run, at "finalizing" or "completed",
\* unless it reports a failed save: no HOLD of a live run, no verdict of a run
\* that can still be resumed.
PublishedIsSaved ==
  file # NoReport /\ ~Unsaved(file) => Decided /\ saved.report = file

\* Interrupted, crashed or refused a save wherever it may be, a plan that is
\* rerun is decided in the end (operations.md: an interrupted run "remains
\* resumable"), unless the report of a failed save has taken its --out path.
EventuallyDecided == <>(saved.stage = "completed" \/ Unsaved(file))

-----------------------------------------------------------------------------
(***************************************************************************)
(* Two statements of the documentation that the code does not keep.        *)
(***************************************************************************)

\* operations.md, exit table: NO-GO means that a required check failed.  An
\* interruption alone is no reason for one.
NoGoIsTheReleases ==
  Decided /\ saved.report.decision = "NO-GO" =>
    \E i \in DOMAIN saved.report.results :
      saved.report.results[i].cause \in {"release", "unreadable"}

\* "observation window passed with %d samples" (evidence.go): a passed window
\* counts no sample that failed.
PassedWindowHasNoBadSample ==
  Decided /\ Passed(saved.report, "window") =>
    \A i \in DOMAIN saved.report.samples : saved.report.samples[i]
=============================================================================
