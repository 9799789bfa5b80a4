--------------------------- MODULE ChangeCoverage ---------------------------
(***************************************************************************)
(* internal/guard/changes.go, and where RunWithProgress and                *)
(* ResumeObservation call it: the declared changes of a release, the       *)
(* changes observed in the InfraScout artifact and at the fleet center,    *)
(* and the coverage that correlates the two.  Every checkpoint in between  *)
(* may be interrupted or refused and the process may die; the next         *)
(* invocation starts over, or resumes the saved observation.               *)
(*                                                                         *)
(* `key` stands for action and resource id, `detail` for resource type and *)
(* fingerprint.  A coverage whose `declared` is empty is the nil pointer:  *)
(* a document that loads has a declaration.  Other gates are Engine's.     *)
(***************************************************************************)
EXTENDS Naturals, Sequences, Stages

CONSTANTS
  Plans,         \* what a plan says of changes: see PlanOK
  Declarations,  \* declared changes
  Documents,     \* expected-changes files: [ours, changes]
  DriftFiles,    \* InfraScout artifacts: sequences of items
  FleetAnswers,  \* answers of GET /api/v1/changes: sequences of items
  Any            \* an optional selector that is left empty

\* What ValidatePlan lets through: metrics need an observation, and an
\* observation a fleet.
PlanOK(p) ==
  /\ DOMAIN p = {"checks", "metrics", "nodes", "drift", "drifts", "observes", "migrations"}
  /\ {p.drift, p.observes, p.migrations} \subseteq BOOLEAN
  /\ p.observes => p.nodes # {}
  /\ p.metrics # {} => p.observes

ASSUME PlansAssumption == \A p \in Plans : PlanOK(p)
ASSUME DocumentsAssumption == \A d \in Documents : d.changes \in Seq(Declarations)

VARIABLES
  plan,
  saved,    \* the run's row: its stage, and the report while it is observing
  report,   \* the report in memory: its coverage and the gates that failed
  pc,
  resumed,  \* ResumeObservation rather than RunWithProgress
  used      \* correlateChanges: the observations already used

vars == <<plan, saved, report, pc, resumed, used>>

-----------------------------------------------------------------------------
EmptyCoverage(declared) ==
  [declared |-> declared, observed |-> <<>>, sources |-> <<>>,
   correlations |-> <<>>, unexpected |-> {},
   matched |-> 0, missingRequired |-> 0, missingOptional |-> 0]

NewReport == [coverage |-> EmptyCoverage(<<>>), failed |-> {}]

Available(r) == r.coverage.declared # <<>>

With(r, gate, passed) ==
  IF passed THEN r ELSE [r EXCEPT !.failed = @ \cup {gate}]

\* append(coverage.Observed, ...) and append(coverage.Sources, ...).
Joined(c, source, items) ==
  [c EXCEPT !.observed = @ \o items,
            !.sources = Append(@, [source |-> source, items |-> Len(items)])]

\* A document of this release and version, its ids and its selectors unique.
Valid(document) ==
  LET changes == document.changes
      Selector(i) == <<changes[i].source, changes[i].key, changes[i].detail,
                       changes[i].node>>
  IN /\ document.ours
     /\ changes # <<>>
     /\ \A i, j \in DOMAIN changes :
          i # j => /\ changes[i].id # changes[j].id
                   /\ Selector(i) # Selector(j)

OfFleet(e) == e.source \in {"fleet", "topology"}

\* Seeded bug: a database change needs no verification check.
LinkedUnverified(p, e) ==
  /\ OfFleet(e) => e.node # Any \/ e.affected # {}
  /\ e.checks \subseteq p.checks
  /\ e.metrics \subseteq p.metrics
  /\ e.affected \subseteq p.nodes

\* What validateExpectedChangeLinks asks of one declaration.
Linked(p, e) ==
  /\ e.source = "database" => e.checks # {}
  /\ OfFleet(e) => e.node # Any \/ e.affected # {}
  /\ e.checks \subseteq p.checks
  /\ e.metrics \subseteq p.metrics
  /\ e.affected \subseteq p.nodes

LinksValid(p, declared) ==
  /\ \A i \in DOMAIN declared : Linked(p, declared[i])
  /\ p.migrations => \E i \in DOMAIN declared : declared[i].source = "database"

\* changedFields: added, removed or with another value.
ChangedFields(before, after) ==
  {k \in DOMAIN before \cup DOMAIN after :
     k \in DOMAIN before \cap DOMAIN after => before[k] # after[k]}

\* loadInfraObservedChanges: the items of the artifact, as observations.
InfraObserved(items) ==
  [i \in DOMAIN items |->
     [source |-> IF items[i].database THEN "database" ELSE "infrascout",
      key |-> items[i].key, detail |-> items[i].detail, node |-> "",
      fields |-> ChangedFields(items[i].before, items[i].after),
      class |-> items[i].class]]

\* checkDrift: every item with an id is among the plan's expected drifts.
DriftExpected(p, items) ==
  \A i \in DOMAIN items : items[i].key \in p.drifts \cup {""}

\* The changes of this release on the plan's nodes, as observations; `ours` is
\* a change of this release that was added, removed or changed.
FleetObserved(p, answer) ==
  LET Relevant(item) == item.ours /\ item.node \in p.nodes
      items == SelectSeq(answer, Relevant)
  IN [i \in DOMAIN items |->
        [source |-> items[i].source, key |-> items[i].key,
         detail |-> items[i].detail, node |-> items[i].node,
         fields |-> {}, class |-> items[i].class]]

\* changeMatches: a denied change fits no declaration.
Matches(e, o) ==
  /\ e.source = o.source
  /\ e.key = o.key
  /\ e.detail \in {Any, o.detail}
  /\ e.node \in {Any, o.node}
  /\ o.class # "denied"
  /\ e.fields \subseteq o.fields

-----------------------------------------------------------------------------
Init ==
  /\ plan \in Plans
  /\ saved = [stage |-> "checking", report |-> NewReport]
  /\ report = NewReport
  /\ pc = "load"
  /\ resumed = FALSE
  /\ used = {}

\* Seeded bug: any active run may be saved as checking again, coverage included.
CheckpointSavesAnyStage(r) ==
  saved' = IF saved.stage = "observing" THEN [saved EXCEPT !.report = r] ELSE saved

\* The store takes `checking` only from a run that is checking.  What it then
\* saves is never read: such a run starts over.
CheckpointSaves(r) ==
  /\ "checking" \in Allowed(saved.stage)
  /\ UNCHANGED saved

\* checkpoint() with report r: go on at `next`, or return, because the context
\* is done or because the save was refused or has failed.
Checkpoint(r, next) ==
  \/ /\ CheckpointSaves(r)
     /\ report' = r
     /\ pc' \in {next, "returned"}
  \/ /\ report' = r
     /\ pc' = "returned"
     /\ UNCHANGED saved

\* A failed or invalid document leaves the coverage nil.
LoadExpectedChanges ==
  /\ pc = "load"
  /\ \/ \E document \in Documents :
          LET r == IF Valid(document)
                   THEN [NewReport EXCEPT !.coverage = EmptyCoverage(document.changes)]
                   ELSE With(NewReport, "expected", FALSE)
          IN Checkpoint(r, IF Available(r) THEN "links" ELSE "drift")
     \/ Checkpoint(With(NewReport, "expected", FALSE), "drift")
  /\ UNCHANGED <<plan, resumed, used>>

ValidateLinks ==
  /\ pc = "links"
  /\ Checkpoint(With(report, "links", LinksValid(plan, report.coverage.declared)),
                "drift")
  /\ UNCHANGED <<plan, resumed, used>>

\* The InfraScout artifact joins the coverage, or checkDrift judges it alone.
DriftGate ==
  /\ pc = "drift"
  /\ LET next == IF plan.observes THEN "window" ELSE "finalize"
     IN \/ /\ plan.drift /\ Available(report)
           /\ \E items \in DriftFiles :
                Checkpoint([report EXCEPT
                              !.coverage = Joined(@, "infrascout", InfraObserved(items))],
                           next)
        \/ /\ plan.drift /\ ~Available(report)
           /\ \E items \in DriftFiles :
                Checkpoint(With(report, "drift", DriftExpected(plan, items)), next)
        \/ /\ plan.drift
           /\ Checkpoint(With(report, "drift", FALSE), next)
        \/ /\ ~plan.drift
           /\ Checkpoint(report, next)
  /\ UNCHANGED <<plan, resumed, used>>

\* The observation is saved and the window is watched: it passes or fails, or
\* an interruption leaves the saved observation to be resumed.
Window ==
  /\ pc = "window"
  /\ \/ /\ saved' = [stage |-> "observing", report |-> report]
        /\ \/ pc' = "finalize" /\ report' \in {report, With(report, "window", FALSE)}
           \/ pc' = "returned" /\ UNCHANGED report
     \/ /\ pc' = "returned"
        /\ UNCHANGED <<saved, report>>
  /\ UNCHANGED <<plan, resumed, used>>

-----------------------------------------------------------------------------
NeedsFleet(declared) == \E i \in DOMAIN declared : OfFleet(declared[i])

\* correlateChanges starts from nothing, whatever an earlier call has left.
Uncorrelated(c) ==
  [c EXCEPT !.correlations = <<>>, !.unexpected = {},
            !.matched = 0, !.missingRequired = 0, !.missingOptional = 0]

\* finalizeChangeCoverage, up to the correlation; a query that fails, or that
\* the plan has no fleet for, fails the gate with nothing correlated.
Finalize ==
  /\ pc = "finalize"
  /\ LET coverage == report.coverage
         Correlating(c) == /\ report' = [report EXCEPT !.coverage = Uncorrelated(c)]
                           /\ pc' = "correlate"
     IN \/ /\ Available(report) /\ ~NeedsFleet(coverage.declared)
           /\ Correlating(coverage)
        \/ /\ Available(report) /\ NeedsFleet(coverage.declared) /\ plan.nodes # {}
           /\ \E answer \in FleetAnswers :
                Correlating(Joined(coverage, "fleetscope", FleetObserved(plan, answer)))
        \/ /\ Available(report) /\ NeedsFleet(coverage.declared)
           /\ report' = With(report, "coverage", FALSE)
           /\ pc' = "checkpoint"
        \/ /\ ~Available(report)
           /\ UNCHANGED report
           /\ pc' = "decide"
  /\ used' = {}
  /\ UNCHANGED <<plan, saved, resumed>>

\* Seeded bug: an observation may explain several declarations.
CandidatesWithReuse(c, e) == {o \in DOMAIN c.observed : Matches(e, c.observed[o])}

\* The observations not yet used that fit declaration e.
Candidates(c, e) == {o \in DOMAIN c.observed \ used : Matches(e, c.observed[o])}

\* The correlation of declaration e with the observations found for it.
Correlation(e, found) ==
  IF \E o \in found : found = {o}
  THEN [status |-> "matched", observed |-> found]
  ELSE [status |-> IF found # {} THEN "ambiguous"
                   ELSE IF e.required THEN "missing" ELSE "optional-missing",
        observed |-> {}]

\* Seeded bug: the correlation is appended once per observation.
CountedPerObservation(c, e, correlation) ==
  [c EXCEPT !.correlations =
     IF correlation.status = "ambiguous" THEN @ \o <<correlation, correlation>>
     ELSE Append(@, correlation)]

\* The correlation joins the list, and the count its status belongs to.
Counted(c, e, correlation) ==
  LET counter == IF correlation.status = "matched" THEN "matched"
                 ELSE IF e.required THEN "missingRequired" ELSE "missingOptional"
  IN [c EXCEPT !.correlations = Append(@, correlation), ![counter] = @ + 1]

\* One turn of the loop over the declarations: all that fits is used up, also
\* when it is ambiguous.
CorrelateOne ==
  /\ pc = "correlate"
  /\ LET c    == report.coverage
         next == Len(c.correlations) + 1
     IN /\ next <= Len(c.declared)
        /\ LET e     == c.declared[next]
               found == Candidates(c, e)
           IN /\ report' = [report EXCEPT
                              !.coverage = Counted(c, e, Correlation(e, found))]
              /\ used' = used \cup found
  /\ UNCHANGED <<plan, saved, pc, resumed>>

\* Seeded bug: the verdict forgets the observations nobody declared.
CoveredForgetsUnexpected(c) == c.missingRequired = 0

\* Seeded bug: an optional change that did not happen fails the release.
CoveredOnlyIfAll(c) ==
  c.missingRequired = 0 /\ c.missingOptional = 0 /\ c.unexpected = {}

\* The coverage gate.
Covered(c) == c.missingRequired = 0 /\ c.unexpected = {}

\* What is left is unexpected, and the gate is judged.
JudgeCoverage ==
  /\ pc = "correlate"
  /\ Len(report.coverage.correlations) = Len(report.coverage.declared)
  /\ LET c == [report.coverage EXCEPT !.unexpected = DOMAIN report.coverage.observed \ used]
     IN report' = With([report EXCEPT !.coverage = c], "coverage", Covered(c))
  /\ pc' = "checkpoint"
  /\ UNCHANGED <<plan, saved, resumed, used>>

\* RunWithProgress has a checkpoint after the coverage, ResumeObservation none.
CoverageCheckpoint ==
  /\ pc = "checkpoint"
  /\ \/ ~resumed /\ Checkpoint(report, "decide")
     \/ resumed /\ pc' = "decide" /\ UNCHANGED <<saved, report>>
  /\ UNCHANGED <<plan, resumed, used>>

\* decide, and the final save, which may fail.
Decide ==
  /\ pc = "decide"
  /\ pc' = "returned"
  /\ \/ saved' = [stage |-> "finalizing", report |-> report]
     \/ UNCHANGED saved
  /\ UNCHANGED <<plan, report, resumed, used>>

\* The process dies with what it holds in memory.
Crash ==
  /\ pc # "returned"
  /\ pc' = "returned"
  /\ UNCHANGED <<plan, saved, report, resumed, used>>

\* The next invocation: over from the start, or resumed from the saved report.
Invoke ==
  /\ pc = "returned"
  /\ \/ /\ saved.stage = "checking"
        /\ pc' = "load"
        /\ resumed' = FALSE
        /\ report' = NewReport
     \/ /\ saved.stage = "observing"
        /\ pc' = "window"
        /\ resumed' = TRUE
        /\ report' = saved.report
  /\ used' = {}
  /\ UNCHANGED <<plan, saved>>

Next ==
  \/ LoadExpectedChanges
  \/ ValidateLinks
  \/ DriftGate
  \/ Window
  \/ Finalize
  \/ CorrelateOne
  \/ JudgeCoverage
  \/ CoverageCheckpoint
  \/ Decide
  \/ Crash
  \/ Invoke

Spec == Init /\ [][Next]_vars

-----------------------------------------------------------------------------
Coverages == {report.coverage, saved.report.coverage}

\* The type invariant: the shape of the coverages and of the loop's locals.
TypeOK ==
  /\ plan \in Plans
  /\ saved.stage \in {"checking", "observing", "finalizing"}
  /\ pc \in {"load", "links", "drift", "window", "finalize", "correlate",
             "checkpoint", "decide", "returned"}
  /\ resumed \in BOOLEAN
  /\ used \subseteq DOMAIN report.coverage.observed
  /\ \A c \in Coverages :
       /\ c.correlations \in
            Seq([status   : {"matched", "ambiguous", "missing", "optional-missing"},
                 observed : SUBSET DOMAIN c.observed])
       /\ Len(c.correlations) <= Len(c.declared)
       /\ {c.matched, c.missingRequired, c.missingOptional} \subseteq Nat

\* Declaration i has an observation that fits it.
Explained(c, i) ==
  \E o \in DOMAIN c.observed : /\ c.correlations[i].observed = {o}
                              /\ Matches(c.declared[i], c.observed[o])

\* A matched declaration has an observation that fits it, and no other
\* declaration is matched by the same one: one change cannot stand for two
\* declared ones (changes.go, the `used` of correlateChanges).
OwnObservation ==
  \A c \in Coverages :
    LET matched == {i \in DOMAIN c.correlations :
                      c.correlations[i].status = "matched"}
    IN /\ \A i \in matched : Explained(c, i)
       /\ \A i, j \in matched :
            i # j => c.correlations[i].observed # c.correlations[j].observed

\* The report that is saved as the final one, with none of its gates failed.
FinalPass == saved.stage = "finalizing" /\ saved.report.failed = {}

\* Nothing is left over in a passing coverage: every required declaration has
\* an observation of its own, and every observation fits a declaration that is
\* optional or has just that observation.
AccountsForAll(c) ==
  /\ \A i \in DOMAIN c.declared : c.declared[i].required => Explained(c, i)
  /\ \A o \in DOMAIN c.observed :
       \E i \in DOMAIN c.declared :
         /\ Matches(c.declared[i], c.observed[o])
         /\ c.declared[i].required => c.correlations[i].observed = {o}

\* A release passes only if its changes are all accounted for, whatever the
\* order of the declarations and however often the run was interrupted.
PassAccountsForAll == FinalPass => AccountsForAll(saved.report.coverage)

\* A change to a database that was observed in a release that passes has been
\* declared with a verification check, and the plan runs that check.
DatabaseChangesVerified ==
  FinalPass =>
    LET c == saved.report.coverage
    IN \A o \in DOMAIN c.observed :
         c.observed[o].source = "database" =>
           \E i \in DOMAIN c.declared :
             /\ Matches(c.declared[i], c.observed[o])
             /\ c.declared[i].checks # {}
             /\ c.declared[i].checks \subseteq plan.checks

Counts(c, source) == \E i \in DOMAIN c.sources : c.sources[i].source = source

\* Interrupted and resumed as often as it may be, a report counts no source
\* twice; and one that passes counts each source that the plan and the
\* declarations call for.
EachSourceOnce ==
  /\ \A c \in Coverages : \A i, j \in DOMAIN c.sources :
       i # j => c.sources[i].source # c.sources[j].source
  /\ FinalPass =>
       LET c == saved.report.coverage
       IN /\ plan.drift => Counts(c, "infrascout")
          /\ NeedsFleet(c.declared) => Counts(c, "fleetscope")

Fitting(c, i) == {o \in DOMAIN c.observed : Matches(c.declared[i], c.observed[o])}

\* No observation fits two declarations.
Undisputed(c) ==
  \A i, j \in DOMAIN c.declared : i # j => Fitting(c, i) \cap Fitting(c, j) = {}

\* Every required declaration has one observation and every observation a
\* declaration.
Complete(c) ==
  /\ \A i \in DOMAIN c.declared :
       c.declared[i].required => \E o \in Fitting(c, i) : Fitting(c, i) = {o}
  /\ \A o \in DOMAIN c.observed : \E i \in DOMAIN c.declared : o \in Fitting(c, i)

\* The loop has been through the declarations.
Correlated(c) == c.declared # <<>> /\ Len(c.correlations) = Len(c.declared)

\* No declaration fits two observations.
Unambiguous(c) ==
  \A i \in DOMAIN c.declared : \A o, p \in Fitting(c, i) : o = p

\* Where declarations do not compete, the gate never lets an incomplete coverage
\* pass, and a complete one fails only for an ambiguous declaration, however
\* the declarations and the observations are ordered (changes.go,
\* correlateChanges uses observations up).
VerdictIsExact ==
  LET c == report.coverage
  IN pc \in {"checkpoint", "decide"} /\ Correlated(c) /\ Undisputed(c) =>
       /\ "coverage" \notin report.failed => Complete(c)
       /\ Complete(c) /\ Unambiguous(c) => "coverage" \notin report.failed

\* README.md of the repository: what is missing, ambiguous, denied or extra is
\* kept as evidence "and blocks".  No release passes with an ambiguous
\* declaration.
AmbiguityBlocks ==
  FinalPass =>
    LET c == saved.report.coverage
    IN \A i \in DOMAIN c.correlations : c.correlations[i].status # "ambiguous"
=============================================================================
