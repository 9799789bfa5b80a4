---------------------------- MODULE EngineProofs ----------------------------
(***************************************************************************)
(* Theorems about Engine, for any valid plans, any number of samples and   *)
(* any number of faults.                                                   *)
(***************************************************************************)
EXTENDS Engine, SequenceTheorems, TLAPS

\* The report answers for a gate: it has a result of it, or it cannot be
\* anything but a NO-GO.
Doomed(report) == Failed(report, Required) # {}

Answered(report, gate) ==
  \E i \in DOMAIN report.results : report.results[i].gate = gate

Settled(report, gate) == Answered(report, gate) \/ Doomed(report)

\* Every deterministic gate is settled; and whatever the plan asks for.
Ready(report) == \A g \in Gates : Planned(g) => Settled(report, g)

Comparison(m) == IF plan.metrics[m] THEN "comparison" ELSE "optionalComparison"

ComparedUpTo(report, n) ==
  \A m \in 1 .. Len(plan.metrics) : m <= n => Settled(report, Comparison(m))

Complete(report) == \A g \in Demands : Settled(report, g)

\* Where the engine is after the gates.
Late == {"watch", "watching", "compare", "observed", "coverage", "decide"}

\* A verdict is saved by the last save of an invocation only.
StageInv ==
  /\ saved.stage = "finalizing" => pc \in {"idle", "returned"}
  /\ saved.stage = "completed" => pc = "idle"
  /\ pc \in {"begin", "gates"} => saved.stage = "checking"

\* What the report in memory has answered so far.
ProgressInv ==
  /\ pc = "begin" => at = 1
  /\ pc = "gates" => \A j \in 1 .. Len(GateOrder) :
                       j < at /\ Planned(GateOrder[j]) => Settled(r, GateOrder[j])
  /\ pc \in Late => Ready(r)
  /\ saved.stage = "observing" => Ready(saved.report)
  /\ pc = "compare" => verdict = "none" /\ ComparedUpTo(r, at - 1)
  /\ pc = "observed" /\ verdict = "none" => ComparedUpTo(r, Len(plan.metrics))
  /\ pc = "coverage" =>
       /\ ComparedUpTo(r, Len(plan.metrics))
       /\ plan.observes => Settled(r, "window")
  /\ pc = "decide" => Complete(r)

\* The report that is concluded is the saved one, or no release is at stake.
ConcludeInv ==
  /\ DecisionSound
  /\ pc = "returned" /\ saved.stage = "finalizing" =>
       r = saved.report \/ r.decision = "NO-GO"

\* A report is about to be published only if it is saved or says that it is not.
PublishInv ==
  /\ PublishedIsSaved
  /\ pc = "returned" /\ ~ctx /\ r.status # "observing" /\ ~Unsaved(r) =>
       saved.stage = "finalizing" /\ saved.report = r

Extends(s, t) == Len(s) <= Len(t) /\ \A i \in 1 .. Len(s) : s[i] = t[i]

Grows(a, b) == Extends(a.results, b.results) /\ Extends(a.samples, b.samples)

GrowthInv == saved.stage = "observing" /\ pc \in Late => Grows(saved.report, r)

Inv == TypeOK /\ StageInv /\ ProgressInv /\ ConcludeInv /\ PublishInv /\ GrowthInv

-----------------------------------------------------------------------------
LEMMA GatesFacts ==
  /\ Gates \subseteq AllGates /\ Required \subseteq AllGates
  /\ {"window", "comparison", "coverage", "save"} \subseteq Required
  /\ {"comparison", "optionalComparison", "coverage", "window", "save"} \subseteq AllGates
  /\ "expected" \in Required
  /\ Len(GateOrder) = 12
  /\ \A i \in 1 .. Len(GateOrder) : GateOrder[i] \in Gates
  /\ \A g \in Gates : \E i \in 1 .. Len(GateOrder) : GateOrder[i] = g
<1>1. DOMAIN GateOrder = 1 .. 12 /\ Len(GateOrder) = 12
  BY DEF GateOrder
<1>2. GateOrder[5] = "expected"
  BY DEF GateOrder
<1>3. Gates = {GateOrder[i] : i \in 1 .. 12}
  BY <1>1 DEF Gates, Range
<1> HIDE DEF Gates
<1>4. "expected" \in Gates
  BY <1>2, <1>3
<1> QED BY <1>1, <1>3, <1>4 DEF AllGates, Required, Optional

LEMMA WithFacts ==
  ASSUME NEW report \in Report, NEW gate \in AllGates, NEW cause \in Causes
  PROVE  LET w == With(report, gate, cause)
         IN /\ w \in Report
            /\ w.samples = report.samples /\ w.status = report.status
            /\ w.results = Append(report.results, Entry(gate, cause))
            /\ Len(w.results) = Len(report.results) + 1
            /\ w.results[Len(w.results)] = Entry(gate, cause)
            /\ \A i \in 1 .. Len(report.results) : w.results[i] = report.results[i]
            /\ DOMAIN w.results = 1 .. Len(w.results)
            /\ DOMAIN report.results = 1 .. Len(report.results)
            /\ Len(report.results) \in Nat
<1> DEFINE w == With(report, gate, cause)
           e == Entry(gate, cause)
           x == Append(report.results, e)
<1>1. e \in [gate : AllGates, cause : Causes]
  BY DEF Entry
<1>2. report.results \in Seq([gate : AllGates, cause : Causes])
  BY DEF Report
<1> HIDE DEF e
<1>3. /\ x \in Seq([gate : AllGates, cause : Causes])
      /\ Len(x) = Len(report.results) + 1 /\ Len(report.results) \in Nat
      /\ x[Len(x)] = e
      /\ \A i \in 1 .. Len(report.results) : x[i] = report.results[i]
      /\ DOMAIN x = 1 .. Len(x)
      /\ DOMAIN report.results = 1 .. Len(report.results)
  BY <1>1, <1>2
<1> HIDE DEF x
<1>4. /\ w \in Report /\ w.results = x
      /\ w.samples = report.samples /\ w.status = report.status
  BY <1>3 DEF With, Report, x, e
<1> QED BY <1>3, <1>4 DEF e, x

LEMMA WithSettles ==
  ASSUME NEW report \in Report, NEW gate \in AllGates, NEW cause \in Causes
  PROVE  LET w == With(report, gate, cause)
         IN /\ Settled(w, gate)
            /\ \A g : Settled(report, g) => Settled(w, g)
            /\ cause # "none" /\ gate \in Required => Doomed(w)
            /\ cause = "store" => Unsaved(w)
            /\ Grows(report, w)
<1> DEFINE w == With(report, gate, cause)
<1>1. /\ w.samples = report.samples
      /\ Len(w.results) = Len(report.results) + 1
      /\ w.results[Len(w.results)] = Entry(gate, cause)
      /\ \A i \in 1 .. Len(report.results) : w.results[i] = report.results[i]
      /\ DOMAIN w.results = 1 .. Len(w.results)
      /\ DOMAIN report.results = 1 .. Len(report.results)
      /\ Len(report.results) \in Nat
  BY WithFacts
<1>2. Entry(gate, cause).gate = gate /\ Entry(gate, cause).cause = cause
  BY DEF Entry
<1>3. report.samples \in Seq(BOOLEAN)
  BY DEF Report
<1> HIDE DEF w
<1>4. Len(w.results) \in DOMAIN w.results
  BY <1>1
<1>5. \A i \in DOMAIN report.results : i \in DOMAIN w.results /\ w.results[i] = report.results[i]
  BY <1>1
<1>6. Settled(w, gate)
  BY <1>1, <1>2, <1>4 DEF Settled, Answered
<1>7. ASSUME NEW g, Settled(report, g) PROVE Settled(w, g)
  <2>1. CASE Answered(report, g)
    BY <1>5, <2>1 DEF Settled, Answered
  <2>2. CASE Doomed(report)
    <3>1. PICK i \in DOMAIN report.results :
            report.results[i].cause # "none" /\ report.results[i].gate \in Required
      BY <2>2 DEF Doomed, Failed
    <3> QED BY <1>5, <3>1 DEF Settled, Doomed, Failed
  <2> QED BY <1>7, <2>1, <2>2 DEF Settled
<1>8. cause # "none" /\ gate \in Required => Doomed(w)
  BY <1>1, <1>2, <1>4 DEF Doomed, Failed
<1>9. cause = "store" => Unsaved(w)
  BY <1>1, <1>2, <1>4 DEF Unsaved
<1>10. Grows(report, w)
  BY <1>1, <1>3 DEF Grows, Extends
<1> QED BY <1>6, <1>7, <1>8, <1>9, <1>10 DEF w

LEMMA DecideFacts ==
  ASSUME NEW report \in Report
  PROVE  /\ Decide(report) \in Report /\ Hold(report) \in Report /\ Final(report) \in Report
         /\ Decide(report).results = report.results
         /\ Decide(report).status = report.status
         /\ Hold(report).results = report.results /\ Hold(report).samples = report.samples
         /\ Final(report).results = report.results /\ Final(report).samples = report.samples
         /\ Final(report).status # "observing"
         /\ Final(report).decision = Decide(report).decision
         /\ Doomed(report) => Decide(report).decision = "NO-GO"
         /\ Decide(report).decision # "NO-GO" => ~Doomed(report)
         /\ Decide(report).decision = "GO" => Failed(report, AllGates) = {}
<1>1. /\ Decide(report) \in Report
      /\ Decide(report).results = report.results
      /\ Decide(report).samples = report.samples
      /\ Decide(report).status = report.status
      /\ Decide(report).decision =
           IF Failed(report, Required) # {} THEN "NO-GO"
           ELSE IF Failed(report, AllGates) # {} THEN "HOLD" ELSE "GO"
  BY DEF Decide, Report
<1>2. /\ Hold(report) \in Report
      /\ Hold(report).results = report.results /\ Hold(report).samples = report.samples
  BY DEF Hold, Report
<1>3. /\ Final(report) \in Report
      /\ Final(report).results = report.results /\ Final(report).samples = report.samples
      /\ Final(report).status # "observing"
      /\ Final(report).decision = Decide(report).decision
  <2> DEFINE d == Decide(report)
  <2> HIDE DEF d
  <2>1. /\ d \in Report /\ d.results = report.results /\ d.samples = report.samples
    BY <1>1 DEF d
  <2>2. Final(report) = [d EXCEPT !.status = IF @ = "observing" THEN "completed" ELSE @]
    BY DEF Final, d
  <2>3. d.decision = Decide(report).decision
    BY DEF d
  <2> QED BY <2>1, <2>2, <2>3 DEF Report
<1> QED BY <1>1, <1>2, <1>3 DEF Doomed

\* What a report has answered, and how it grows, is a matter of its results
\* and its samples.
LEMMA SameResults ==
  ASSUME NEW a, NEW b, a.results = b.results
  PROVE  /\ \A g : Settled(a, g) <=> Settled(b, g)
         /\ Doomed(a) <=> Doomed(b)
         /\ Unsaved(a) <=> Unsaved(b)
BY DEF Settled, Answered, Doomed, Failed, Unsaved

LEMMA GrowsFacts ==
  ASSUME NEW a \in Report, NEW b \in Report, NEW c \in Report
  PROVE  /\ Grows(a, a)
         /\ Grows(a, b) /\ Grows(b, c) => Grows(a, c)
         /\ Grows(a, b) /\ c.results = b.results /\ c.samples = b.samples => Grows(a, c)
<1>1. \A x \in Report : Len(x.results) \in Nat /\ Len(x.samples) \in Nat
  BY DEF Report
<1> QED BY <1>1 DEF Grows, Extends

\* A result that is not a pass is a failure.
LEMMA AnsweredFacts ==
  ASSUME NEW report \in Report, NEW g \in AllGates
  PROVE  /\ Settled(report, g) /\ g \in Required /\ ~Passed(report, g) => Doomed(report)
         /\ Settled(report, g) /\ Failed(report, AllGates) = {} => Passed(report, g)
<1>1. ASSUME NEW gates, g \in gates, Answered(report, g), ~Passed(report, g)
      PROVE  Failed(report, gates) # {}
  <2>1. PICK i \in DOMAIN report.results : report.results[i].gate = g
    BY <1>1 DEF Answered
  <2> DEFINE x == report.results
             e == x[i]
             S == [gate : AllGates, cause : Causes]
  <2>2. x \in Seq(S)
    BY DEF Report
  <2> HIDE DEF x, S
  <2>3. e \in S
    <3>1. i \in DOMAIN x
      BY <2>1 DEF x
    <3> QED BY <2>2, <3>1
  <2>4. e \in [gate : AllGates, cause : Causes]
    BY <2>3 DEF S
  <2>5. e # Entry(g, "none") /\ e.gate = g
    BY <1>1, <2>1 DEF Passed, x
  <2> HIDE DEF e
  <2>6. e.cause # "none"
    BY <2>4, <2>5 DEF Entry
  <2> QED BY <1>1, <2>1, <2>5, <2>6 DEF Failed, e, x
<1>2. Doomed(report) => Failed(report, AllGates) # {}
  BY GatesFacts DEF Doomed, Failed
<1> QED BY <1>1, <1>2 DEF Settled, Doomed

LEMMA PlanFacts ==
  ASSUME TypeOK
  PROVE  /\ plan.gates \subseteq Gates \ Implied
         /\ plan.observes \in BOOLEAN
         /\ plan.metrics \in Seq(BOOLEAN) /\ Len(plan.metrics) \in Nat
         /\ ~plan.observes => plan.metrics = <<>>
BY PlansAssumption DEF TypeOK, ValidPlan

-----------------------------------------------------------------------------
(***************************************************************************)
(* Saves.                                                                  *)
(***************************************************************************)
LEMMA AllowedStages ==
  ASSUME NEW s
  PROVE  /\ Allowed(s) \subseteq ActiveStages \cup {"completed"}
         /\ "checking" \in Allowed(s) => s = "checking"
         /\ "observing" \in Allowed(s) => s \in {"checking", "observing"}
BY DEF Allowed, ActiveStages

LEMMA SaveFacts ==
  ASSUME TypeOK, NEW stage \in ActiveStages, NEW report \in Report, NEW ok \in BOOLEAN,
         Save(stage, report, ok)
  PROVE  /\ saved' = saved \/ (saved' = [stage |-> stage, report |-> report]
                               /\ stage \in Allowed(saved.stage))
         /\ ok => saved' = [stage |-> stage, report |-> report]
         /\ saved' \in [stage : ActiveStages \cup {"completed"}, report : Report]
         /\ faults' \in 0 .. MaxFaults
<1>1. saved' = saved \/ (saved' = [stage |-> stage, report |-> report]
                         /\ stage \in Allowed(saved.stage))
  BY DEF Save
<1>2. ok => saved' = [stage |-> stage, report |-> report]
  BY DEF Save
<1>3. saved' \in [stage : ActiveStages \cup {"completed"}, report : Report]
  BY <1>1 DEF TypeOK
<1>4. faults' \in 0 .. MaxFaults
  BY BoundsAssumption DEF Save, Fault, TypeOK
<1> QED BY <1>1, <1>2, <1>3, <1>4

LEMMA NoReportTyped == NoReport \in Report
BY DEF NoReport, Report

\* A failed save ends the report with a NO-GO that says so.
LEMMA UnsavedFacts ==
  ASSUME NEW report \in Report
  PROVE  LET u == Decide(With(report, "save", "store"))
         IN u \in Report /\ Unsaved(u) /\ u.decision = "NO-GO" /\ Grows(report, u)
<1> DEFINE w == With(report, "save", "store")
<1>1. "save" \in AllGates /\ "save" \in Required /\ "store" \in Causes
  BY GatesFacts DEF Causes
<1>2. w \in Report /\ Doomed(w) /\ Unsaved(w) /\ Grows(report, w)
  BY <1>1, WithFacts, WithSettles
<1> HIDE DEF w
<1>3. /\ Decide(w) \in Report /\ Decide(w).results = w.results
      /\ Decide(w).decision = "NO-GO"
  BY <1>2, DecideFacts
<1>4. Unsaved(Decide(w))
  BY <1>2, <1>3, SameResults
<1>5. Decide(w).samples = w.samples
  BY <1>2 DEF Decide, Report
<1>6. Grows(report, Decide(w))
  BY <1>2, <1>3, <1>5, GrowsFacts
<1> QED BY <1>3, <1>4, <1>6 DEF w

\* The engine is in its work, and nothing is decided.
LEMMA UndecidedFacts ==
  ASSUME Inv, pc \notin {"idle", "returned"}
  PROVE  /\ saved.stage \in {"checking", "observing"} /\ ~Decided
         /\ file = NoReport \/ Unsaved(file)
BY DEF Inv, TypeOK, StageInv, Decided, PublishInv, PublishedIsSaved, ActiveStages

LEMMA CheckpointFacts ==
  ASSUME Inv, pc \notin {"idle", "returned"}, NEW report \in Report, NEW next,
         Checkpoint(report, next)
  PROVE  /\ saved' = saved \/ (saved.stage = "checking" /\ saved'.stage = "checking")
         /\ saved' \in [stage : ActiveStages \cup {"completed"}, report : Report]
         /\ saved'.stage = saved.stage
         /\ faults' \in 0 .. MaxFaults
         /\ r' \in Report
         /\ \/ pc' = next /\ r' = report
            \/ pc' = "returned" /\ (ctx \/ Unsaved(r'))
<1>1. Hold(report) \in Report /\ "checking" \in ActiveStages
  BY DecideFacts DEF ActiveStages
<1>2. PICK ok \in BOOLEAN : Save("checking", Hold(report), ok)
  BY DEF Checkpoint, SaveAnyway
<1>3. /\ saved' = saved \/ (saved' = [stage |-> "checking", report |-> Hold(report)]
                            /\ "checking" \in Allowed(saved.stage))
      /\ saved' \in [stage : ActiveStages \cup {"completed"}, report : Report]
      /\ faults' \in 0 .. MaxFaults
  BY <1>1, <1>2, SaveFacts DEF Inv
<1>4. saved' = saved \/ (saved.stage = "checking" /\ saved'.stage = "checking")
  BY <1>3, AllowedStages
<1>5. CASE ctx
  BY <1>1, <1>3, <1>4, <1>5 DEF Checkpoint
<1>6. CASE ~ctx
  <2> DEFINE u == Decide(With(report, "save", "store"))
  <2>1. u \in Report /\ Unsaved(u)
    BY UnsavedFacts
  <2> HIDE DEF u
  <2>2. (pc' = next /\ r' = report) \/ (pc' = "returned" /\ r' = u)
    BY <1>6 DEF Checkpoint, u
  <2> QED BY <1>3, <1>4, <2>1, <2>2
<1> QED BY <1>5, <1>6

-----------------------------------------------------------------------------
(***************************************************************************)
(* The steps of the engine.                                                *)
(***************************************************************************)

\* A step in the engine's work decides nothing and publishes nothing.
LEMMA WorkStep ==
  ASSUME Inv, pc \notin {"idle", "returned"}, pc' # "idle",
         UNCHANGED <<plan, file>>, TypeOK', saved'.stage \in {"checking", "observing"},
         pc' \in {"begin", "gates"} => saved'.stage = "checking",
         pc' = "returned" => ctx' \/ r'.status = "observing" \/ Unsaved(r'),
         ProgressInv', GrowthInv'
  PROVE  Inv'
<1>1. file = NoReport \/ Unsaved(file)
  BY UndecidedFacts
<1>2. ~Decided'
  BY DEF Decided
<1>3. StageInv'
  BY DEF StageInv
<1>4. ConcludeInv'
  BY <1>2 DEF ConcludeInv, DecisionSound, Decided
<1>5. PublishInv'
  BY <1>1 DEF PublishInv, PublishedIsSaved, Unsaved
<1> QED BY <1>3, <1>4, <1>5 DEF Inv

\* From one state to the next, an observation keeps what it has.
Kept == saved.stage = "observing" => Grows(saved.report, saved'.report)

LEMMA UnchangedKept == Inv /\ saved' = saved => Kept
<1> SUFFICES ASSUME Inv, saved' = saved PROVE Kept
  OBVIOUS
<1>1. saved.report \in Report
  BY DEF Inv, TypeOK
<1> QED BY <1>1, GrowsFacts DEF Kept

\* What Checkpoint leads to, when it is the engine's step.
LEMMA CheckpointStep ==
  ASSUME Inv, pc \notin {"idle", "returned"}, NEW report \in Report, NEW next,
         Checkpoint(report, next), next \in {"gates", "decide"},
         next = "gates" => saved.stage = "checking",
         UNCHANGED <<plan, file, resumed, verdict, ctx, exit>>, at' \in Nat \ {0},
         saved.stage = "observing" => pc \in Late /\ Grows(r, report),
         next = "gates" => \A j \in 1 .. Len(GateOrder) :
           j < at' /\ Planned(GateOrder[j]) => Settled(report, GateOrder[j]),
         next = "decide" => Complete(report) /\ Ready(report)
  PROVE  Inv' /\ Kept
<1>1. /\ saved' = saved \/ (saved.stage = "checking" /\ saved'.stage = "checking")
      /\ saved' \in [stage : ActiveStages \cup {"completed"}, report : Report]
      /\ saved'.stage = saved.stage
      /\ faults' \in 0 .. MaxFaults
      /\ r' \in Report
      /\ \/ pc' = next /\ r' = report
         \/ pc' = "returned" /\ (ctx \/ Unsaved(r'))
  BY CheckpointFacts
<1>2. TypeOK'
  BY <1>1 DEF Inv, TypeOK
<1>3. saved.stage \in {"checking", "observing"}
  BY UndecidedFacts
<1>4. saved'.stage = "observing" => Ready(saved.report) /\ saved' = saved
  BY <1>1 DEF Inv, ProgressInv
<1>5. \A g : Planned(g)' <=> Planned(g)
  BY DEF Planned
<1>6. ProgressInv'
  <2>1. saved'.stage = "observing" => Ready(saved.report)' /\ saved' = saved
    BY <1>4, <1>5 DEF Ready, Settled, Answered, Doomed, Failed
  <2>2. CASE pc' = "returned"
    BY <2>1, <2>2 DEF ProgressInv, Late
  <2>3. CASE pc' = "gates" /\ r' = report /\ next = "gates"
    BY <1>5, <2>1, <2>3 DEF ProgressInv, Late, Settled, Answered, Doomed, Failed
  <2>4. CASE pc' = "decide" /\ r' = report /\ next = "decide"
    <3>1. Ready(r)'
      BY <1>5, <2>4 DEF Ready, Settled, Answered, Doomed, Failed
    <3>2. Complete(r)'
      BY <1>5, <2>4 DEF Complete, Demands, Settled, Answered, Doomed, Failed
    <3> QED BY <2>1, <2>4, <3>1, <3>2 DEF ProgressInv
  <2> QED BY <1>1, <2>2, <2>3, <2>4
<1>7. GrowthInv'
  <2> SUFFICES ASSUME saved'.stage = "observing", pc' \in Late
               PROVE  Grows(saved'.report, r')
    BY DEF GrowthInv, Grows, Extends
  <2>1. saved' = saved /\ r' = report
    BY <1>1 DEF Late
  <2>2. Grows(saved.report, r) /\ Grows(r, report)
    BY <2>1 DEF Inv, GrowthInv
  <2>3. saved.report \in Report /\ r \in Report
    BY DEF Inv, TypeOK
  <2> QED BY <2>1, <2>2, <2>3, GrowsFacts
<1>8. Kept
  BY <1>1, UnchangedKept DEF Kept
<1> QED BY <1>1, <1>2, <1>3, <1>6, <1>7, <1>8, WorkStep

LEMMA BeginInv == Inv /\ Begin => Inv' /\ Kept
<1> SUFFICES ASSUME Inv, Begin PROVE Inv' /\ Kept
  OBVIOUS
<1>1. /\ pc = "begin" /\ Checkpoint(r, "gates")
      /\ UNCHANGED <<plan, file, at, resumed, verdict, ctx, exit>>
  BY DEF Begin
<1>2. at = 1 /\ r \in Report /\ at' \in Nat \ {0} /\ saved.stage = "checking"
  BY <1>1 DEF Inv, ProgressInv, TypeOK, StageInv
<1>3. \A j \in 1 .. Len(GateOrder) : ~(j < at')
  BY <1>1, <1>2, GatesFacts
<1> QED BY <1>1, <1>2, <1>3, CheckpointStep

\* A gate that is passed over is settled: what it is checked against failed.
LEMMA SkippedSettled ==
  ASSUME Inv, pc = "gates", NEW j \in 1 .. Len(GateOrder), Planned(GateOrder[j]),
         ~Due(GateOrder[j]), at <= j, \A k \in Left : j < k
  PROVE  Settled(r, GateOrder[j])
<1>1. r \in Report /\ at \in Nat \ {0} /\ TypeOK
  BY DEF Inv, TypeOK
<1>2. CASE GateOrder[j] = "candidateGit"
  <2>1. PICK i \in DOMAIN r.results : r.results[i] = Entry("candidate", "unreadable")
    BY <1>2 DEF Due
  <2>2. r.results[i].cause = "unreadable" /\ r.results[i].gate = "candidate"
    BY <2>1 DEF Entry
  <2>3. "candidate" \in Required
    <3>1. GateOrder[2] = "candidate"
      BY DEF GateOrder
    <3> QED BY <3>1, GatesFacts DEF Required, Optional, AllGates
  <2> QED BY <2>1, <2>2, <2>3 DEF Settled, Doomed, Failed
<1>3. CASE GateOrder[j] = "links"
  <2>1. ~Passed(r, "expected")
    BY <1>3 DEF Due
  <2>2. "expected" \in plan.gates
    BY <1>1, <1>3, PlanFacts DEF Planned, Implied
  <2>3. GateOrder[5] = "expected" /\ 5 < j /\ 5 \in 1 .. Len(GateOrder)
    BY <1>3 DEF GateOrder
  <2>4. Due("expected") /\ Planned("expected")
    BY <2>2 DEF Due, Planned
  <2>5. ~(at <= 5)
    <3> SUFFICES ASSUME at <= 5 PROVE FALSE
      OBVIOUS
    <3>1. 5 \in Left
      BY <1>1, <2>3, <2>4 DEF Left
    <3> QED BY <2>3, <3>1
  <2>6. Settled(r, "expected")
    BY <1>1, <2>3, <2>4, <2>5 DEF Inv, ProgressInv
  <2> QED BY <1>1, <2>1, <2>6, GatesFacts, AnsweredFacts DEF Settled
<1> QED BY <1>2, <1>3 DEF Due

LEMMA RunGateInv == Inv /\ RunGate => Inv' /\ Kept
<1> SUFFICES ASSUME Inv, RunGate PROVE Inv' /\ Kept
  OBVIOUS
<1>1. PICK i \in Left :
        /\ \A j \in Left : i <= j
        /\ \E cause \in Outcomes(GateOrder[i]) :
             Checkpoint(With(r, GateOrder[i], cause), "gates")
        /\ at' = i + 1
  BY DEF RunGate
<1>2. PICK cause \in Outcomes(GateOrder[i]) :
        Checkpoint(With(r, GateOrder[i], cause), "gates")
  BY <1>1
<1>3. pc = "gates" /\ UNCHANGED <<plan, file, resumed, verdict, ctx, exit>>
  BY DEF RunGate
<1>4. r \in Report /\ at \in Nat \ {0} /\ saved.stage = "checking"
  BY <1>3 DEF Inv, TypeOK, StageInv
<1>5. Len(GateOrder) = 12 /\ i \in at .. Len(GateOrder) /\ i \in 1 .. Len(GateOrder)
  BY <1>4, GatesFacts DEF Left
<1>6. GateOrder[i] \in AllGates /\ cause \in Causes
  BY <1>5, GatesFacts DEF Outcomes, Causes
<1> DEFINE w == With(r, GateOrder[i], cause)
<1>7. w \in Report
  BY <1>4, <1>6, WithFacts
<1>8. Settled(w, GateOrder[i]) /\ \A g : Settled(r, g) => Settled(w, g)
  BY <1>4, <1>6, WithSettles
<1> HIDE DEF w
<1>9. ASSUME NEW j \in 1 .. Len(GateOrder), j < at', Planned(GateOrder[j])
      PROVE  Settled(w, GateOrder[j])
  <2>1. CASE j < at
    BY <1>3, <1>8, <1>9, <2>1 DEF Inv, ProgressInv
  <2>2. CASE j = i
    BY <1>8, <2>2
  <2>3. CASE at <= j /\ j < i
    <3>1. ~Due(GateOrder[j])
      BY <1>1, <1>4, <1>5, <2>3 DEF Left
    <3>2. \A k \in Left : j < k
      BY <1>1, <1>4, <1>5, <2>3 DEF Left
    <3> QED BY <1>3, <1>8, <1>9, <2>3, <3>1, <3>2, SkippedSettled
  <2> QED BY <1>1, <1>4, <1>5, <1>9, <2>1, <2>2, <2>3
<1>10. at' \in Nat \ {0}
  BY <1>1, <1>4, <1>5
<1>11. Checkpoint(w, "gates")
  BY <1>2 DEF w
<1> QED BY <1>3, <1>4, <1>7, <1>9, <1>10, <1>11, CheckpointStep

\* What a plan asks for does not change.
LEMMA SamePlan ==
  ASSUME plan' = plan
  PROVE  /\ \A report : Ready(report) => \A g \in Gates : Planned(g)' => Settled(report, g)
         /\ Demands' = Demands
<1>1. \A g : Planned(g)' <=> Planned(g)
  BY DEF Planned
<1> QED BY <1>1 DEF Ready, Demands

\* A save at "observing", of a report that has its gates settled.
LEMMA ObservingSave ==
  ASSUME Inv, pc \notin {"idle", "returned"}, NEW report \in Report, NEW ok \in BOOLEAN,
         Save("observing", report, ok), plan' = plan, Ready(report),
         saved.stage = "observing" => Grows(saved.report, report)
  PROVE  /\ saved' \in [stage : ActiveStages \cup {"completed"}, report : Report]
         /\ faults' \in 0 .. MaxFaults
         /\ saved'.stage \in {"checking", "observing"}
         /\ ok => saved'.stage = "observing" /\ saved'.report = report
         /\ saved'.stage = "observing" => Ready(saved.report)' /\ Grows(saved'.report, report)
         /\ saved.stage = "observing" => Grows(saved.report, saved'.report)
<1> DEFINE row == [stage |-> "observing", report |-> report]
<1>1. /\ saved' = saved \/ saved' = row
      /\ ok => saved' = row
      /\ saved' \in [stage : ActiveStages \cup {"completed"}, report : Report]
      /\ faults' \in 0 .. MaxFaults
  BY SaveFacts DEF Inv, ActiveStages
<1>2. row.stage = "observing" /\ row.report = report
  OBVIOUS
<1> HIDE DEF row
<1>3. saved.stage \in {"checking", "observing"} /\ saved.report \in Report
  BY UndecidedFacts DEF Inv, TypeOK
<1>4. Grows(report, report) /\ Grows(saved.report, saved.report)
  BY <1>3, GrowsFacts
<1>5. saved'.stage = "observing" => Ready(saved'.report)
  <2>1. saved.stage = "observing" => Ready(saved.report)
    BY DEF Inv, ProgressInv
  <2> QED BY <1>1, <1>2, <2>1
<1>6. Ready(saved'.report) => Ready(saved.report)'
  <2>1. Ready(saved'.report) => \A g \in Gates : Planned(g)' => Settled(saved'.report, g)
    BY SamePlan
  <2> QED BY <2>1 DEF Ready, Settled, Answered, Doomed, Failed
<1> QED BY <1>1, <1>2, <1>3, <1>4, <1>5, <1>6

LEMMA GatesDoneInv == Inv /\ GatesDone => Inv' /\ Kept
<1> SUFFICES ASSUME Inv, GatesDone PROVE Inv' /\ Kept
  OBVIOUS
<1>1. /\ pc = "gates" /\ Left = {}
      /\ UNCHANGED <<plan, file, at, resumed, verdict, ctx, exit>>
  BY DEF GatesDone
<1>2. r \in Report /\ at \in Nat \ {0} /\ saved.stage = "checking" /\ TypeOK
  BY <1>1 DEF Inv, TypeOK, StageInv
<1>3. Ready(r)
  <2> SUFFICES ASSUME NEW j \in 1 .. Len(GateOrder), Planned(GateOrder[j])
               PROVE  Settled(r, GateOrder[j])
    BY GatesFacts DEF Ready
  <2>1. CASE j < at
    BY <1>1, <2>1 DEF Inv, ProgressInv
  <2>2. CASE at <= j
    <3>1. j \in at .. Len(GateOrder)
      BY <1>2, <2>2, GatesFacts
    <3>2. ~Due(GateOrder[j])
      BY <1>1, <3>1 DEF Left
    <3> QED BY <1>1, <2>2, <3>2, SkippedSettled
  <2> QED BY <1>2, <2>1, <2>2, GatesFacts
<1>4. CASE plan.observes
  <2> DEFINE opened == [Hold(r) EXCEPT !.status = "observing"]
             u == Decide(With(opened, "save", "store"))
  <2>1. opened \in Report /\ opened.results = r.results
    <3>1. Hold(r) \in Report /\ Hold(r).results = r.results
      BY <1>2, DecideFacts
    <3> QED BY <3>1 DEF Report
  <2> HIDE DEF opened
  <2>2. u \in Report /\ Unsaved(u)
    BY <2>1, UnsavedFacts
  <2> HIDE DEF u
  <2>3. PICK ok \in BOOLEAN :
          /\ Save("observing", opened, ok)
          /\ r' = IF ok THEN opened ELSE u
          /\ pc' = IF ok THEN "watch" ELSE "returned"
    BY <1>4 DEF GatesDone, opened, u
  <2>4. Ready(opened)
    BY <1>3, <2>1, SameResults DEF Ready
  <2>5. /\ saved' \in [stage : ActiveStages \cup {"completed"}, report : Report]
        /\ faults' \in 0 .. MaxFaults
        /\ saved'.stage \in {"checking", "observing"}
        /\ ok => saved'.stage = "observing" /\ saved'.report = opened
        /\ saved'.stage = "observing" => Ready(saved.report)' /\ Grows(saved'.report, opened)
        /\ Kept
    BY <1>1, <1>2, <2>1, <2>3, <2>4, ObservingSave DEF Kept
  <2>6. TypeOK'
    BY <1>1, <1>2, <2>1, <2>2, <2>3, <2>5 DEF TypeOK
  <2>7. ok => Ready(r)' /\ Grows(saved.report, r)'
    <3>1. ok => r' = opened /\ saved'.report = opened
      BY <2>3, <2>5
    <3>2. ok => Ready(saved.report)' /\ Grows(saved'.report, r')
      BY <2>3, <2>5
    <3> QED BY <3>1, <3>2 DEF Ready, Settled, Answered, Doomed, Failed, Grows, Extends
  <2>8. ProgressInv'
    BY <2>3, <2>5, <2>7 DEF ProgressInv, Late
  <2>9. GrowthInv'
    BY <2>3, <2>7 DEF GrowthInv, Late
  <2> QED BY <1>1, <2>2, <2>3, <2>5, <2>6, <2>8, <2>9, WorkStep
<1>5. CASE ~plan.observes
  <2>1. pc' = "coverage" /\ UNCHANGED <<saved, r, faults>>
    BY <1>5 DEF GatesDone
  <2>2. plan.metrics = <<>> /\ ~plan'.observes /\ Len(plan'.metrics) = 0
    BY <1>1, <1>2, <1>5, PlanFacts
  <2>3. TypeOK'
    BY <1>1, <1>2, <2>1 DEF TypeOK
  <2>4. Ready(r)'
    <3>1. \A g \in Gates : Planned(g)' => Settled(r, g)
      BY <1>1, <1>3, SamePlan
    <3> QED BY <2>1, <3>1 DEF Ready, Settled, Answered, Doomed, Failed
  <2>5. ProgressInv'
    BY <1>2, <2>1, <2>2, <2>4 DEF ProgressInv, Late, ComparedUpTo
  <2>6. GrowthInv'
    BY <1>2, <2>1 DEF GrowthInv
  <2> QED BY <1>1, <1>2, <2>1, <2>3, <2>5, <2>6, WorkStep, UnchangedKept
<1> QED BY <1>4, <1>5

\* The part of the invariant that follows when a step leaves the report of the
\* run ready, in memory and on disk.
LEMMA ReadyStep ==
  ASSUME plan' = plan, Ready(r')
  PROVE  Ready(r)'
<1>1. \A g \in Gates : Planned(g)' => Settled(r', g)
  BY SamePlan
<1> QED BY <1>1 DEF Ready, Settled, Answered, Doomed, Failed

LEMMA UnchangedReady ==
  ASSUME Inv, UNCHANGED <<plan, saved>>, saved'.stage = "observing"
  PROVE  Ready(saved.report)'
<1>1. Ready(saved.report)
  BY DEF Inv, ProgressInv
<1>2. \A g \in Gates : Planned(g)' => Settled(saved.report, g)
  BY <1>1, SamePlan
<1> QED BY <1>2 DEF Ready, Settled, Answered, Doomed, Failed

LEMMA SampleInv == Inv /\ Sample => Inv' /\ Kept
<1> SUFFICES ASSUME Inv, Sample PROVE Inv' /\ Kept
  OBVIOUS
<1> DEFINE more(good) == [r EXCEPT !.samples = Append(@, good)]
<1>1. PICK good, deadline, ok \in BOOLEAN :
        LET next == AfterSample(ok, good, deadline)
        IN /\ Save("observing", more(good), ok)
           /\ r' = more(good)
           /\ verdict' = IF ~ok THEN "store"
                         ELSE IF good THEN "none"
                         ELSE IF ctx THEN "cancel" ELSE "release"
           /\ pc' = next
           /\ at' = IF next = "compare" THEN 1 ELSE at
  BY DEF Sample
<1>2. pc \in {"watch", "watching"} /\ UNCHANGED <<plan, file, resumed, ctx, exit>>
  BY DEF Sample
<1>3. r \in Report /\ at \in Nat \ {0} /\ TypeOK /\ saved.report \in Report
  BY DEF Inv, TypeOK
<1>4. /\ more(good) \in Report /\ more(good).results = r.results
      /\ Extends(r.samples, more(good).samples)
  <2> DEFINE x == Append(r.samples, good)
  <2>1. r.samples \in Seq(BOOLEAN)
    BY <1>3 DEF Report
  <2>2. x \in Seq(BOOLEAN) /\ Extends(r.samples, x)
    BY <2>1 DEF Extends
  <2> HIDE DEF x
  <2>3. more(good) = [r EXCEPT !.samples = x]
    BY DEF x
  <2> QED BY <1>3, <2>2, <2>3 DEF Report
<1>5. Grows(r, more(good))
  <2>1. Extends(r.results, r.results)
    BY <1>3, GrowsFacts DEF Grows
  <2> QED BY <1>4, <2>1 DEF Grows
<1> DEFINE m == more(good)
<1>6. m \in Report /\ m.results = r.results /\ Grows(r, m)
  BY <1>4, <1>5
<1>7. Save("observing", m, ok) /\ r' = m
  BY <1>1
<1> HIDE DEF m, more
<1>8. \/ pc' = "observed" /\ verdict' \in {"store", "cancel", "release"} /\ at' = at
      \/ pc' = "compare" /\ verdict' = "none" /\ at' = 1
      \/ pc' = "watching" /\ verdict' = "none" /\ at' = at
  BY <1>1 DEF AfterSample
<1>9. verdict' \in Causes /\ at' \in Nat \ {0}
  BY <1>3, <1>8 DEF Causes
<1>10. Ready(m)
  <2>1. Ready(r)
    BY <1>2 DEF Inv, ProgressInv, Late
  <2> QED BY <1>6, <2>1, SameResults DEF Ready
<1>11. saved.stage = "observing" => Grows(saved.report, m)
  <2>1. saved.stage = "observing" => Grows(saved.report, r)
    BY <1>2 DEF Inv, GrowthInv, Late
  <2> QED BY <1>3, <1>6, <2>1, GrowsFacts
<1>12. /\ saved' \in [stage : ActiveStages \cup {"completed"}, report : Report]
       /\ faults' \in 0 .. MaxFaults
       /\ saved'.stage \in {"checking", "observing"}
       /\ saved'.stage = "observing" => Ready(saved.report)' /\ Grows(saved'.report, m)
       /\ Kept
  BY <1>2, <1>6, <1>7, <1>10, <1>11, ObservingSave DEF Kept
<1>13. TypeOK'
  BY <1>2, <1>3, <1>6, <1>7, <1>8, <1>9, <1>12 DEF TypeOK
<1>14. Ready(r)'
  BY <1>2, <1>7, <1>10, ReadyStep
<1>15. ProgressInv'
  <2>1. at' = 1 => ComparedUpTo(r, at - 1)'
    BY DEF ComparedUpTo
  <2> QED BY <1>8, <1>12, <1>14, <2>1 DEF ProgressInv
<1>16. GrowthInv'
  BY <1>7, <1>12 DEF GrowthInv, Grows, Extends
<1> QED BY <1>2, <1>8, <1>12, <1>13, <1>15, <1>16, WorkStep

LEMMA CancelledInv == Inv /\ Cancelled => Inv' /\ Kept
<1> SUFFICES ASSUME Inv, Cancelled PROVE Inv' /\ Kept
  OBVIOUS
<1>1. /\ pc = "watching" /\ verdict' = "cancel" /\ pc' = "observed"
      /\ UNCHANGED <<plan, saved, file, r, at, resumed, ctx, exit, faults>>
  BY DEF Cancelled
<1>2. TypeOK'
  BY <1>1 DEF Inv, TypeOK, Causes
<1>3. saved'.stage = "observing" => Ready(saved.report)'
  BY <1>1, UnchangedReady
<1>4. Ready(r)'
  <2>1. Ready(r)
    BY <1>1 DEF Inv, ProgressInv, Late
  <2> QED BY <1>1, <2>1, ReadyStep
<1>5. ProgressInv'
  BY <1>1, <1>3, <1>4 DEF ProgressInv
<1>6. GrowthInv'
  BY <1>1 DEF Inv, GrowthInv, Late, Grows, Extends
<1>7. saved'.stage \in {"checking", "observing"}
  BY <1>1, UndecidedFacts
<1> QED BY <1>1, <1>2, <1>5, <1>6, <1>7, WorkStep, UnchangedKept

LEMMA CompareInv == Inv /\ Compare => Inv' /\ Kept
<1> SUFFICES ASSUME Inv, Compare PROVE Inv' /\ Kept
  OBVIOUS
<1> DEFINE gate == Comparison(at)
<1>1. /\ pc = "compare" /\ at <= Len(plan.metrics) /\ at' = at + 1
      /\ UNCHANGED <<plan, saved, file, resumed, ctx, exit, faults>>
  BY DEF Compare
<1>2. PICK cause \in Outcomes(gate) :
        /\ r' = With(r, gate, cause)
        /\ \/ pc' = "observed" /\ verdict' = cause /\ cause # "none"
           \/ pc' = "compare" /\ verdict' = verdict
  BY <1>1 DEF Compare, Comparison
<1>3. /\ r \in Report /\ at \in Nat \ {0} /\ TypeOK /\ saved.report \in Report
      /\ Len(plan.metrics) \in Nat
  BY PlanFacts DEF Inv, TypeOK
<1>4. gate \in AllGates
  BY GatesFacts DEF Comparison
<1>5. cause \in Causes
  BY DEF Outcomes, Causes
<1> DEFINE w == With(r, gate, cause)
<1>6. w \in Report
  BY <1>3, <1>4, <1>5, WithFacts
<1>7. Settled(w, gate) /\ (\A g : Settled(r, g) => Settled(w, g)) /\ Grows(r, w)
  BY <1>3, <1>4, <1>5, WithSettles
<1>8. r' = w
  BY <1>2
<1> HIDE DEF w
<1>9. TypeOK'
  BY <1>1, <1>2, <1>3, <1>5, <1>6, <1>8 DEF TypeOK
<1>10. Ready(r) /\ verdict = "none" /\ ComparedUpTo(r, at - 1)
  BY <1>1 DEF Inv, ProgressInv, Late
<1>11. Ready(r)'
  <2>1. Ready(w)
    BY <1>7, <1>10 DEF Ready
  <2> QED BY <1>1, <1>8, <2>1, ReadyStep
<1>12. ComparedUpTo(r, at - 1)'
  <2>1. ASSUME NEW k \in 1 .. Len(plan.metrics), k <= at
        PROVE  Settled(w, Comparison(k))
    <3>1. CASE k = at
      BY <1>7, <3>1
    <3>2. CASE k <= at - 1
      BY <1>7, <1>10, <2>1, <3>2 DEF ComparedUpTo
    <3> QED BY <1>3, <2>1, <3>1, <3>2
  <2>2. at' - 1 = at
    BY <1>1, <1>3
  <2> QED BY <1>1, <1>8, <2>1, <2>2
          DEF ComparedUpTo, Comparison, Settled, Answered, Doomed, Failed
<1>13. saved'.stage = "observing" => Ready(saved.report)'
  BY <1>1, UnchangedReady
<1>14. ProgressInv'
  BY <1>2, <1>10, <1>11, <1>12, <1>13 DEF ProgressInv
<1>15. GrowthInv'
  <2> SUFFICES ASSUME saved'.stage = "observing" PROVE Grows(saved.report, w)
    BY <1>1, <1>8 DEF GrowthInv, Grows, Extends
  <2>1. Grows(saved.report, r)
    BY <1>1 DEF Inv, GrowthInv, Late
  <2> QED BY <1>3, <1>6, <1>7, <2>1, GrowsFacts
<1>16. saved'.stage \in {"checking", "observing"}
  BY <1>1, UndecidedFacts
<1> QED BY <1>1, <1>2, <1>9, <1>14, <1>15, <1>16, WorkStep, UnchangedKept

LEMMA ComparedInv == Inv /\ Compared => Inv' /\ Kept
<1> SUFFICES ASSUME Inv, Compared PROVE Inv' /\ Kept
  OBVIOUS
<1>1. /\ pc = "compare" /\ at > Len(plan.metrics) /\ pc' = "observed"
      /\ UNCHANGED <<plan, saved, file, r, at, resumed, verdict, ctx, exit, faults>>
  BY DEF Compared
<1>2. TypeOK'
  BY <1>1 DEF Inv, TypeOK
<1>3. saved'.stage = "observing" => Ready(saved.report)'
  BY <1>1, UnchangedReady
<1>4. Ready(r) /\ verdict = "none" /\ ComparedUpTo(r, at - 1)
  BY <1>1 DEF Inv, ProgressInv, Late
<1>5. Ready(r)'
  BY <1>1, <1>4, ReadyStep
<1>6. ComparedUpTo(r, Len(plan.metrics))'
  <2>1. at \in Nat /\ Len(plan.metrics) \in Nat
    BY PlanFacts DEF Inv, TypeOK
  <2>2. ASSUME NEW k \in 1 .. Len(plan.metrics) PROVE Settled(r, Comparison(k))
    BY <1>1, <1>4, <2>1 DEF ComparedUpTo
  <2> QED BY <1>1, <2>2 DEF ComparedUpTo, Comparison, Settled, Answered, Doomed, Failed
<1>7. ProgressInv'
  BY <1>1, <1>3, <1>4, <1>5, <1>6 DEF ProgressInv
<1>8. GrowthInv'
  BY <1>1 DEF Inv, GrowthInv, Late, Grows, Extends
<1>9. saved'.stage \in {"checking", "observing"}
  BY <1>1, UndecidedFacts
<1> QED BY <1>1, <1>2, <1>7, <1>8, <1>9, WorkStep, UnchangedKept

LEMMA ObservedInv == Inv /\ Observed => Inv' /\ Kept
<1> SUFFICES ASSUME Inv, Observed PROVE Inv' /\ Kept
  OBVIOUS
<1>1. pc = "observed" /\ UNCHANGED <<plan, file, at, resumed, verdict, ctx, exit>>
  BY DEF Observed
<1>2. /\ r \in Report /\ at \in Nat \ {0} /\ TypeOK /\ saved.report \in Report
      /\ verdict \in Causes
  BY DEF Inv, TypeOK
<1>3. /\ Ready(r)
      /\ verdict = "none" => ComparedUpTo(r, Len(plan.metrics))
      /\ saved.stage = "observing" => Grows(saved.report, r)
  BY <1>1 DEF Inv, ProgressInv, GrowthInv, Late
<1>4. CASE ctx
  <2> DEFINE held == [Hold(r) EXCEPT !.status = "observing"]
  <2>1. /\ held \in Report /\ held.results = r.results /\ held.samples = r.samples
        /\ held.status = "observing"
    <3>1. /\ Hold(r) \in Report /\ Hold(r).results = r.results
          /\ Hold(r).samples = r.samples
      BY <1>2, DecideFacts
    <3> QED BY <3>1 DEF Report
  <2> HIDE DEF held
  <2>2. PICK ok \in BOOLEAN : Save("observing", held, ok)
    BY <1>4 DEF Observed, SaveAnyway, held
  <2>3. r' = held /\ pc' = "returned"
    BY <1>4 DEF Observed, held
  <2>4. Ready(held)
    BY <1>3, <2>1, SameResults DEF Ready
  <2>5. saved.stage = "observing" => Grows(saved.report, held)
    BY <1>2, <1>3, <2>1, GrowsFacts
  <2>6. /\ saved' \in [stage : ActiveStages \cup {"completed"}, report : Report]
        /\ faults' \in 0 .. MaxFaults
        /\ saved'.stage \in {"checking", "observing"}
        /\ saved'.stage = "observing" => Ready(saved.report)'
        /\ Kept
    BY <1>1, <2>1, <2>2, <2>4, <2>5, ObservingSave DEF Kept
  <2>7. TypeOK'
    BY <1>1, <1>2, <2>1, <2>3, <2>6 DEF TypeOK
  <2>8. ProgressInv' /\ GrowthInv'
    BY <2>3, <2>6 DEF ProgressInv, GrowthInv, Late
  <2> QED BY <1>1, <2>1, <2>3, <2>6, <2>7, <2>8, WorkStep
<1>5. CASE ~ctx
  <2> DEFINE w == With(r, "window", verdict)
  <2>1. "window" \in AllGates /\ "window" \in Required
    BY GatesFacts
  <2>2. w \in Report
    BY <1>2, <2>1, WithFacts
  <2>3. /\ Settled(w, "window") /\ \A g : Settled(r, g) => Settled(w, g)
        /\ verdict # "none" => Doomed(w)
        /\ Grows(r, w)
    BY <1>2, <2>1, WithSettles
  <2>4. /\ r' = [w EXCEPT !.status = IF resumed THEN "completed" ELSE @]
        /\ pc' = "coverage" /\ UNCHANGED <<saved, faults>>
    BY <1>5 DEF Observed
  <2> HIDE DEF w
  <2>5. r' \in Report /\ r'.results = w.results /\ r'.samples = w.samples
    BY <2>2, <2>4 DEF Report
  <2>6. TypeOK'
    BY <1>1, <1>2, <2>4, <2>5 DEF TypeOK
  <2>7. \A g : Settled(w, g) => Settled(r', g)
    BY <2>5, SameResults
  <2>8. Ready(r)'
    <3>1. Ready(r')
      BY <1>3, <2>3, <2>7 DEF Ready
    <3> QED BY <1>1, <3>1, ReadyStep
  <2>9. ComparedUpTo(r, Len(plan.metrics))'
    <3>1. ASSUME NEW k \in 1 .. Len(plan.metrics), k <= Len(plan.metrics)
          PROVE  Settled(w, Comparison(k))
      <4>1. CASE verdict = "none"
        BY <1>3, <2>3, <3>1, <4>1 DEF ComparedUpTo
      <4>2. CASE verdict # "none"
        BY <2>3, <4>2 DEF Settled
      <4> QED BY <4>1, <4>2
    <3>2. ASSUME NEW k \in 1 .. Len(plan.metrics), k <= Len(plan.metrics)
          PROVE  Settled(r', Comparison(k))
      BY <2>7, <3>1, <3>2
    <3> QED BY <1>1, <3>2 DEF ComparedUpTo, Comparison, Settled, Answered, Doomed, Failed
  <2>10. Settled(r, "window")'
    BY <2>3, <2>7 DEF Settled, Answered, Doomed, Failed
  <2>11. saved'.stage = "observing" => Ready(saved.report)'
    BY <1>1, <2>4, UnchangedReady
  <2>12. ProgressInv'
    BY <2>4, <2>8, <2>9, <2>10, <2>11 DEF ProgressInv
  <2>13. GrowthInv'
    <3> SUFFICES ASSUME saved.stage = "observing" PROVE Grows(saved.report, r')
      BY <2>4 DEF GrowthInv, Grows, Extends
    <3>1. Grows(saved.report, w)
      BY <1>2, <1>3, <2>2, <2>3, GrowsFacts
    <3> QED BY <1>2, <2>2, <2>5, <3>1, GrowsFacts
  <2>14. saved'.stage \in {"checking", "observing"}
    BY <1>1, <2>4, UndecidedFacts
  <2> QED BY <1>1, <2>4, <2>6, <2>12, <2>13, <2>14, WorkStep, UnchangedKept
<1> QED BY <1>4, <1>5

\* Before the coverage gate, only that gate is not settled.
LEMMA NearlyComplete ==
  ASSUME Inv, pc = "coverage", NEW report \in Report,
         \A g : Settled(r, g) => Settled(report, g),
         "expected" \in plan.gates => Settled(report, "coverage")
  PROVE  Complete(report)
<1>1. /\ Ready(r) /\ ComparedUpTo(r, Len(plan.metrics))
      /\ plan.observes => Settled(r, "window")
  BY DEF Inv, ProgressInv, Late
<1>2. plan.metrics \in Seq(BOOLEAN) /\ Len(plan.metrics) \in Nat
  BY PlanFacts DEF Inv
<1>3. ASSUME NEW b \in BOOLEAN, b \in Range(plan.metrics)
      PROVE  Settled(r, IF b THEN "comparison" ELSE "optionalComparison")
  <2>1. PICK k \in 1 .. Len(plan.metrics) : plan.metrics[k] = b
    BY <1>2, <1>3 DEF Range
  <2>2. Settled(r, Comparison(k))
    BY <1>1, <1>2 DEF ComparedUpTo
  <2> QED BY <2>1, <2>2 DEF Comparison
<1>4. /\ TRUE \in Range(plan.metrics) => Settled(report, "comparison")
      /\ FALSE \in Range(plan.metrics) => Settled(report, "optionalComparison")
  BY <1>3
<1>5. \A g \in Gates : Planned(g) => Settled(report, g)
  BY <1>1 DEF Ready
<1>6. plan.observes => Settled(report, "window")
  BY <1>1
<1> HIDE DEF Gates
<1> QED BY <1>4, <1>5, <1>6 DEF Complete, Demands

LEMMA CoverageInv == Inv /\ Coverage => Inv' /\ Kept
<1> SUFFICES ASSUME Inv, Coverage PROVE Inv' /\ Kept
  OBVIOUS
<1>1. pc = "coverage" /\ UNCHANGED <<plan, file, at, resumed, verdict, ctx, exit>>
  BY DEF Coverage
<1>2. r \in Report /\ at \in Nat \ {0} /\ TypeOK /\ saved.report \in Report
  BY DEF Inv, TypeOK
<1>3. Ready(r) /\ (saved.stage = "observing" => Grows(saved.report, r))
  BY <1>1 DEF Inv, ProgressInv, GrowthInv, Late
<1>4. "coverage" \in AllGates /\ "expected" \in Required /\ "expected" \in AllGates
  BY GatesFacts DEF Required
<1>5. saved.stage \in {"checking", "observing"}
  BY <1>1, UndecidedFacts
\* The engine goes on to its decision with a report that is complete.
<1>6. ASSUME NEW report \in Report, r' = report, pc' = "decide",
             UNCHANGED <<saved, faults>>,
             Complete(report), \A g : Settled(r, g) => Settled(report, g), Grows(r, report)
      PROVE  Inv' /\ Kept
  <2>1. TypeOK'
    BY <1>1, <1>2, <1>6 DEF TypeOK
  <2>2. Ready(report)
    BY <1>3, <1>6 DEF Ready
  <2>3. Ready(r)'
    BY <1>1, <1>6, <2>2, ReadyStep
  <2>4. Complete(r)'
    <3>1. \A g \in Demands' : Settled(r', g)
      BY <1>1, <1>6, SamePlan DEF Complete
    <3> QED BY <3>1 DEF Complete, Settled, Answered, Doomed, Failed
  <2>5. saved'.stage = "observing" => Ready(saved.report)'
    BY <1>1, <1>6, UnchangedReady
  <2>6. ProgressInv'
    BY <1>6, <2>3, <2>4, <2>5 DEF ProgressInv
  <2>7. GrowthInv'
    <3> SUFFICES ASSUME saved.stage = "observing" PROVE Grows(saved.report, report)
      BY <1>6 DEF GrowthInv, Grows, Extends
    <3> QED BY <1>2, <1>3, <1>6, GrowsFacts
  <2> QED BY <1>1, <1>5, <1>6, <2>1, <2>6, <2>7, WorkStep, UnchangedKept
<1>7. CASE ~Passed(r, "expected")
  <2>1. pc' = "decide" /\ UNCHANGED <<saved, r, faults>>
    BY <1>7 DEF Coverage
  <2>2. "expected" \in plan.gates => Settled(r, "coverage")
    <3> SUFFICES ASSUME "expected" \in plan.gates PROVE Doomed(r)
      BY DEF Settled
    <3>1. Planned("expected") /\ "expected" \in Gates
      BY <1>2, PlanFacts DEF Planned
    <3>2. Settled(r, "expected")
      BY <1>3, <3>1 DEF Ready
    <3> QED BY <1>2, <1>4, <1>7, <3>2, AnsweredFacts
  <2>3. Complete(r)
    BY <1>1, <1>2, <2>2, NearlyComplete
  <2>4. Grows(r, r)
    BY <1>2, GrowsFacts
  <2> QED BY <1>2, <1>6, <2>1, <2>3, <2>4
<1>8. CASE Passed(r, "expected")
  <2>1. PICK cause \in Outcomes("coverage") :
          \/ /\ r' = With(r, "coverage", cause)
             /\ pc' = "decide"
             /\ UNCHANGED <<saved, faults>>
          \/ Checkpoint(With(r, "coverage", cause), "decide")
    BY <1>8 DEF Coverage
  <2> DEFINE w == With(r, "coverage", cause)
  <2>2. cause \in Causes
    BY DEF Outcomes, Causes
  <2>3. w \in Report
    BY <1>2, <1>4, <2>2, WithFacts
  <2>4. Settled(w, "coverage") /\ (\A g : Settled(r, g) => Settled(w, g)) /\ Grows(r, w)
    BY <1>2, <1>4, <2>2, WithSettles
  <2>5. (r' = w /\ pc' = "decide" /\ UNCHANGED <<saved, faults>>) \/ Checkpoint(w, "decide")
    BY <2>1
  <2> HIDE DEF w
  <2>6. Complete(w)
    BY <1>1, <2>3, <2>4, NearlyComplete
  <2>7. CASE r' = w /\ pc' = "decide" /\ UNCHANGED <<saved, faults>>
    BY <1>6, <2>3, <2>4, <2>6, <2>7
  <2>8. CASE Checkpoint(w, "decide")
    <3>1. Ready(w)
      BY <1>3, <2>4 DEF Ready
    <3>2. pc \in Late /\ at' \in Nat \ {0} /\ pc \notin {"idle", "returned"}
      BY <1>1, <1>2 DEF Late
    <3> QED BY <1>1, <2>3, <2>4, <2>6, <2>8, <3>1, <3>2, CheckpointStep
  <2> QED BY <2>5, <2>7, <2>8
<1> QED BY <1>7, <1>8

\* The verdict: no required failure, and everything the plan asks for answered.
LEMMA FinalSound ==
  ASSUME NEW report \in Report, Complete(report), Final(report).decision # "NO-GO",
         NEW g \in Demands,
         g \in Required \/ Final(report).decision = "GO"
  PROVE  Passed(Final(report), g)
<1>1. g \in AllGates
  BY GatesFacts DEF Demands
<1>2. /\ ~Doomed(report) /\ Final(report).results = report.results
      /\ Final(report).decision = "GO" => Failed(report, AllGates) = {}
  BY DecideFacts
<1>3. Passed(report, g)
  BY <1>1, <1>2, AnsweredFacts DEF Complete
<1> QED BY <1>2, <1>3 DEF Passed

LEMMA FinalizeInv == Inv /\ Finalize => Inv' /\ Kept
<1> SUFFICES ASSUME Inv, Finalize PROVE Inv' /\ Kept
  OBVIOUS
<1> DEFINE f == Final(r)
           u == Decide(With(f, "save", "store"))
           row == [stage |-> "finalizing", report |-> f]
<1>1. pc = "decide" /\ pc' = "returned"
      /\ UNCHANGED <<plan, file, at, resumed, verdict, ctx, exit>>
  BY DEF Finalize
<1>2. PICK ok \in BOOLEAN : Save("finalizing", f, ok) /\ r' = IF ok THEN f ELSE u
  BY DEF Finalize
<1>3. /\ r \in Report /\ TypeOK /\ saved.report \in Report /\ Complete(r)
      /\ saved.stage \in {"checking", "observing"} /\ ~Decided
      /\ file = NoReport \/ Unsaved(file)
      /\ saved.stage = "observing" => Grows(saved.report, r)
  BY <1>1, UndecidedFacts DEF Inv, TypeOK, ProgressInv, GrowthInv, Late
<1>4. /\ f \in Report /\ f.results = r.results /\ f.samples = r.samples
      /\ f.status # "observing"
  BY <1>3, DecideFacts
<1>5. ASSUME f.decision # "NO-GO", NEW g \in Demands, g \in Required \/ f.decision = "GO"
      PROVE  Passed(f, g)
  BY <1>3, <1>5, FinalSound
<1> HIDE DEF f
<1>6. u \in Report /\ Unsaved(u) /\ u.decision = "NO-GO"
  BY <1>4, UnsavedFacts
<1> HIDE DEF u
<1>7. /\ saved' = saved \/ saved' = row
      /\ ok => saved' = row
      /\ saved' \in [stage : ActiveStages \cup {"completed"}, report : Report]
      /\ faults' \in 0 .. MaxFaults
  BY <1>2, <1>3, <1>4, SaveFacts DEF ActiveStages
<1>8. row.stage = "finalizing" /\ row.report = f
  OBVIOUS
<1> HIDE DEF row
<1>9. TypeOK'
  BY <1>1, <1>2, <1>3, <1>4, <1>6, <1>7 DEF TypeOK
<1>10. StageInv'
  BY <1>1, <1>3, <1>7, <1>8 DEF StageInv
<1>11. ProgressInv'
  <2>1. saved'.stage = "observing" => Ready(saved.report)'
    BY <1>1, <1>7, <1>8, UnchangedReady
  <2> QED BY <1>1, <2>1 DEF ProgressInv, Late
<1>12. ConcludeInv'
  <2>1. DecisionSound'
    <3> SUFFICES ASSUME saved' = row, f.decision # "NO-GO"
                 PROVE  \A g \in Demands' : g \in Required \/ f.decision = "GO" => Passed(f, g)
      BY <1>3, <1>7, <1>8 DEF DecisionSound, Decided, Passed
    <3> QED BY <1>1, <1>5, SamePlan
  <2>2. saved'.stage = "finalizing" => r' = saved'.report \/ r'.decision = "NO-GO"
    BY <1>2, <1>3, <1>6, <1>7, <1>8
  <2> QED BY <2>1, <2>2 DEF ConcludeInv
<1>13. PublishInv'
  <2>1. PublishedIsSaved'
    BY <1>1, <1>3 DEF PublishedIsSaved, Unsaved
  <2>2. ~Unsaved(r') => ok
    BY <1>2, <1>6
  <2>3. ok => saved'.stage = "finalizing" /\ saved'.report = r'
    BY <1>2, <1>7, <1>8
  <2> QED BY <2>1, <2>2, <2>3 DEF PublishInv, Unsaved
<1>14. GrowthInv'
  BY <1>1 DEF GrowthInv, Late
<1>15. Kept
  <2>1. Grows(saved.report, saved.report)
    BY <1>3, GrowsFacts
  <2>2. saved.stage = "observing" => Grows(saved.report, f)
    BY <1>3, <1>4, GrowsFacts
  <2> QED BY <1>7, <1>8, <2>1, <2>2 DEF Kept
<1> QED BY <1>9, <1>10, <1>11, <1>12, <1>13, <1>14, <1>15 DEF Inv

-----------------------------------------------------------------------------
(***************************************************************************)
(* The caller, the faults, and the new invocations.                        *)
(***************************************************************************)
LEMMA ConcludeStep == Inv /\ Conclude => Inv' /\ Kept
<1> SUFFICES ASSUME Inv, Conclude PROVE Inv' /\ Kept
  OBVIOUS
<1>1. /\ pc = "returned" /\ pc' = "idle"
      /\ UNCHANGED <<plan, r, at, resumed, verdict, ctx, faults>>
  BY DEF Conclude
<1>2. /\ r \in Report /\ TypeOK /\ saved.report \in Report /\ saved.stage # "completed"
      /\ r.decision \in {"none", "GO", "HOLD", "NO-GO"}
  BY <1>1 DEF Inv, TypeOK, StageInv, Report
\* Nothing but the exit changes, or the report is published.
<1>3. \/ UNCHANGED <<file, saved>> /\ exit' \in {"interrupted", "fatal"}
      \/ /\ file' = r /\ ~ctx /\ r.status # "observing"
         /\ \/ /\ saved.stage = "finalizing" /\ exit' = r.decision
               /\ saved' = [stage |-> "completed", report |-> r]
            \/ saved.stage # "finalizing" /\ exit' = "fatal" /\ UNCHANGED saved
  BY DEF Conclude, ExitThree
<1>4. \/ saved' = saved
      \/ /\ saved.stage = "finalizing" /\ file' = r
         /\ saved' = [stage |-> "completed", report |-> r]
  BY <1>3
<1>5. TypeOK'
  BY <1>1, <1>2, <1>3 DEF TypeOK
<1>6. StageInv'
  BY <1>1 DEF StageInv
<1>7. ProgressInv'
  <2>1. saved'.stage = "observing" => Ready(saved.report)'
    BY <1>1, <1>4, UnchangedReady
  <2> QED BY <1>1, <2>1 DEF ProgressInv, Late
<1>8. ConcludeInv'
  <2>1. DecisionSound
    BY DEF Inv, ConcludeInv
  <2>2. CASE saved' = saved
    <3>1. DecisionSound'
      BY <1>1, <2>1, <2>2, SamePlan DEF DecisionSound, Decided, Passed
    <3> QED BY <1>1, <3>1 DEF ConcludeInv
  <2>3. CASE saved.stage = "finalizing" /\ saved' = [stage |-> "completed", report |-> r]
    <3>1. r = saved.report \/ r.decision = "NO-GO"
      BY <1>1, <2>3 DEF Inv, ConcludeInv
    <3>2. saved'.report = r
      BY <2>3
    <3>3. DecisionSound'
      BY <1>1, <2>1, <2>3, <3>1, <3>2, SamePlan DEF DecisionSound, Decided, Passed
    <3> QED BY <1>1, <3>3 DEF ConcludeInv
  <2> QED BY <1>4, <2>2, <2>3
<1>9. PublishInv'
  <2>1. PublishedIsSaved
    BY DEF Inv, PublishInv
  <2>2. CASE UNCHANGED <<file, saved>>
    BY <1>1, <2>1, <2>2 DEF PublishInv, PublishedIsSaved, Decided, Unsaved
  <2>3. CASE file' = r /\ saved' = [stage |-> "completed", report |-> r]
    BY <1>1, <2>3 DEF PublishInv, PublishedIsSaved, Decided, Unsaved
  <2>4. CASE file' = r /\ ~ctx /\ r.status # "observing" /\ saved.stage # "finalizing"
    <3>1. Unsaved(r)
      BY <1>1, <2>4 DEF Inv, PublishInv
    <3> QED BY <1>1, <2>4, <3>1 DEF PublishInv, PublishedIsSaved, Unsaved
  <2> QED BY <1>3, <2>2, <2>3, <2>4
<1>10. GrowthInv'
  BY <1>1 DEF GrowthInv, Late
<1>11. Kept
  BY <1>4, UnchangedKept DEF Kept
<1> QED BY <1>5, <1>6, <1>7, <1>8, <1>9, <1>10, <1>11 DEF Inv

\* A step that leaves what is saved and published alone, and begins or ends
\* nothing that the engine has under way.
LEMMA OutsideStep ==
  ASSUME Inv, UNCHANGED <<plan, saved, file>>, TypeOK', StageInv',
         pc' \in Late => Ready(r)',
         pc' \notin {"gates", "compare", "observed", "coverage", "decide"},
         pc' = "begin" => at' = 1,
         pc' = "returned" => saved.stage = "finalizing" /\ r' = saved.report,
         saved.stage = "observing" /\ pc' \in Late => Grows(saved.report, r')
  PROVE  Inv' /\ Kept
<1>1. ProgressInv'
  <2>1. saved'.stage = "observing" => Ready(saved.report)'
    BY UnchangedReady
  <2> QED BY <2>1 DEF ProgressInv
<1>2. ConcludeInv'
  <2>1. DecisionSound'
    BY SamePlan DEF Inv, ConcludeInv, DecisionSound, Decided, Passed
  <2> QED BY <2>1 DEF ConcludeInv
<1>3. PublishInv'
  BY DEF Inv, PublishInv, PublishedIsSaved, Decided, Unsaved
<1>4. GrowthInv'
  BY DEF GrowthInv, Grows, Extends
<1> QED BY <1>1, <1>2, <1>3, <1>4, UnchangedKept DEF Inv

LEMMA RunInv == Inv /\ Run => Inv' /\ Kept
<1> SUFFICES ASSUME Inv, Run PROVE Inv' /\ Kept
  OBVIOUS
<1>1. /\ saved.stage = "checking" /\ pc' = "begin" /\ at' = 1 /\ r' = NewReport
      /\ resumed' = FALSE /\ ctx' = FALSE
      /\ UNCHANGED <<plan, saved, file, verdict, exit, faults>>
  BY DEF Run
<1>2. NewReport \in Report
  BY DEF NewReport, Report
<1>3. TypeOK'
  <2>1. {resumed', ctx'} \subseteq BOOLEAN
    BY <1>1
  <2> QED BY <1>1, <1>2, <2>1 DEF Inv, TypeOK
<1>4. StageInv'
  BY <1>1 DEF StageInv
<1> QED BY <1>1, <1>3, <1>4, OutsideStep DEF Late

LEMMA ResumeInv == Inv /\ Resume => Inv' /\ Kept
<1> SUFFICES ASSUME Inv, Resume PROVE Inv' /\ Kept
  OBVIOUS
<1>1. /\ saved.stage = "observing" /\ pc' = "watch" /\ r' = saved.report
      /\ resumed' = TRUE /\ ctx' = FALSE
      /\ UNCHANGED <<plan, saved, file, at, verdict, exit, faults>>
  BY DEF Resume, Resumed
<1>2. saved.report \in Report
  BY DEF Inv, TypeOK
<1>3. TypeOK'
  BY <1>1, <1>2 DEF Inv, TypeOK
<1>4. StageInv'
  BY <1>1 DEF StageInv
<1>5. Ready(r)'
  <2>1. Ready(saved.report)
    BY <1>1 DEF Inv, ProgressInv
  <2> QED BY <1>1, <2>1, ReadyStep
<1>6. Grows(saved.report, r')
  BY <1>1, <1>2, GrowsFacts
<1> QED BY <1>1, <1>3, <1>4, <1>5, <1>6, OutsideStep

LEMMA RefinalizeInv == Inv /\ Refinalize => Inv' /\ Kept
<1> SUFFICES ASSUME Inv, Refinalize PROVE Inv' /\ Kept
  OBVIOUS
<1>1. /\ saved.stage = "finalizing" /\ pc' = "returned" /\ r' = saved.report
      /\ ctx' = FALSE
      /\ UNCHANGED <<plan, saved, file, at, resumed, verdict, exit, faults>>
  BY DEF Refinalize
<1>2. saved.report \in Report
  BY DEF Inv, TypeOK
<1>3. TypeOK'
  BY <1>1, <1>2 DEF Inv, TypeOK
<1>4. StageInv'
  BY <1>1 DEF StageInv
<1> QED BY <1>1, <1>3, <1>4, OutsideStep DEF Late

LEMMA CrashInv == Inv /\ Crash => Inv' /\ Kept
<1> SUFFICES ASSUME Inv, Crash PROVE Inv' /\ Kept
  OBVIOUS
<1>1. /\ pc' = "idle" /\ exit' = "crashed" /\ faults < MaxFaults /\ faults' = faults + 1
      /\ UNCHANGED <<plan, saved, file, r, at, resumed, verdict, ctx>>
  BY DEF Crash, Fault
<1>2. faults' \in 0 .. MaxFaults
  BY <1>1, BoundsAssumption DEF Inv, TypeOK
<1>3. TypeOK'
  BY <1>1, <1>2 DEF Inv, TypeOK
<1>4. StageInv'
  BY <1>1 DEF StageInv
<1> QED BY <1>1, <1>3, <1>4, OutsideStep DEF Late

\* A step that leaves the run, the report and the engine where they are.
LEMMA FrameStep ==
  ASSUME Inv, UNCHANGED <<plan, saved, file, pc, r, at, verdict>>, ctx => ctx', TypeOK'
  PROVE  Inv' /\ Kept
<1>1. StageInv' /\ GrowthInv'
  BY DEF Inv, StageInv, GrowthInv, Grows, Extends
<1>2. \A n : ComparedUpTo(r, n) => ComparedUpTo(r, n)'
  BY DEF ComparedUpTo, Comparison, Settled, Answered, Doomed, Failed
<1>3. \A g : (Settled(r, g) => Settled(r, g)') /\ (Planned(g)' <=> Planned(g))
  BY DEF Settled, Answered, Doomed, Failed, Planned
<1>4. ProgressInv'
  <2>1. pc' = "gates" => \A j \in 1 .. Len(GateOrder) :
          j < at' /\ Planned(GateOrder[j])' => Settled(r, GateOrder[j])'
    BY <1>3 DEF Inv, ProgressInv
  <2>2. pc' \in Late => Ready(r)'
    BY ReadyStep DEF Inv, ProgressInv
  <2>3. saved'.stage = "observing" => Ready(saved.report)'
    BY UnchangedReady
  <2>4. pc' = "compare" => verdict' = "none" /\ ComparedUpTo(r, at - 1)'
    BY DEF Inv, ProgressInv, ComparedUpTo, Comparison, Settled, Answered, Doomed, Failed
  <2>5. /\ pc' = "observed" /\ verdict' = "none" => ComparedUpTo(r, Len(plan.metrics))'
        /\ pc' = "coverage" => ComparedUpTo(r, Len(plan.metrics))'
    BY DEF Inv, ProgressInv, ComparedUpTo, Comparison, Settled, Answered, Doomed, Failed
  <2>6. pc' = "coverage" /\ plan'.observes => Settled(r, "window")'
    BY <1>3 DEF Inv, ProgressInv
  <2>7. pc' = "decide" => Complete(r)'
    <3>1. pc' = "decide" => \A g \in Demands' : Settled(r, g)'
      BY <1>3, SamePlan DEF Inv, ProgressInv, Complete
    <3> QED BY <3>1 DEF Complete
  <2>8. pc' = "begin" => at' = 1
    BY DEF Inv, ProgressInv
  <2> QED BY <2>1, <2>2, <2>3, <2>4, <2>5, <2>6, <2>7, <2>8 DEF ProgressInv
<1>5. ConcludeInv'
  <2>1. DecisionSound'
    BY SamePlan DEF Inv, ConcludeInv, DecisionSound, Decided, Passed
  <2> QED BY <2>1 DEF Inv, ConcludeInv
<1>6. PublishInv'
  BY DEF Inv, PublishInv, PublishedIsSaved, Decided, Unsaved
<1> QED BY <1>1, <1>4, <1>5, <1>6, UnchangedKept DEF Inv

LEMMA InterruptInv == Inv /\ Interrupt => Inv' /\ Kept
<1> SUFFICES ASSUME Inv, Interrupt PROVE Inv' /\ Kept
  OBVIOUS
<1>1. /\ ctx' = TRUE /\ faults < MaxFaults /\ faults' = faults + 1
      /\ UNCHANGED <<plan, saved, file, pc, r, at, resumed, verdict, exit>>
  BY DEF Interrupt, Fault
<1>2. faults' \in 0 .. MaxFaults
  BY <1>1, BoundsAssumption DEF Inv, TypeOK
<1>3. TypeOK'
  BY <1>1, <1>2 DEF Inv, TypeOK
<1> QED BY <1>1, <1>3, FrameStep

LEMMA StutterInv == Inv /\ UNCHANGED vars => Inv' /\ Kept
<1> SUFFICES ASSUME Inv, UNCHANGED vars PROVE Inv' /\ Kept
  OBVIOUS
<1>1. UNCHANGED <<plan, saved, file, pc, r, at, resumed, verdict, ctx, exit, faults>>
  BY DEF vars
<1>2. TypeOK'
  BY <1>1 DEF Inv, TypeOK
<1> QED BY <1>1, <1>2, FrameStep

-----------------------------------------------------------------------------
LEMMA InitInv == Init => Inv
<1> SUFFICES ASSUME Init PROVE Inv
  OBVIOUS
<1>1. /\ saved.stage = "checking" /\ saved.report = NoReport /\ file = NoReport
      /\ pc = "idle" /\ r = NoReport
  BY DEF Init
<1>2. TypeOK
  <2>1. saved \in [stage : ActiveStages \cup {"completed"}, report : Report]
    BY NoReportTyped DEF Init, ActiveStages
  <2>2. faults \in 0 .. MaxFaults
    BY BoundsAssumption DEF Init
  <2>3. verdict \in Causes
    BY DEF Init, Causes
  <2>4. {resumed, ctx} \subseteq BOOLEAN
    BY DEF Init
  <2> QED BY <2>1, <2>2, <2>3, <2>4, NoReportTyped DEF Init, TypeOK
<1>3. StageInv /\ ProgressInv /\ GrowthInv
  BY <1>1 DEF StageInv, ProgressInv, GrowthInv, Late
<1>4. ConcludeInv /\ PublishInv
  BY <1>1 DEF ConcludeInv, DecisionSound, Decided, PublishInv, PublishedIsSaved
<1> QED BY <1>2, <1>3, <1>4 DEF Inv

LEMMA StepInv == Inv /\ [Next]_vars => Inv' /\ Kept
<1> SUFFICES ASSUME Inv, [Next]_vars PROVE Inv' /\ Kept
  OBVIOUS
<1>1. CASE Progress
  BY <1>1, RunInv, BeginInv, ResumeInv, RefinalizeInv, RunGateInv, GatesDoneInv, SampleInv,
     CancelledInv, CompareInv, ComparedInv, ObservedInv, CoverageInv, FinalizeInv,
     ConcludeStep DEF Progress
<1>2. CASE Interrupt \/ Crash
  BY <1>2, InterruptInv, CrashInv
<1>3. CASE Done \/ UNCHANGED vars
  BY <1>3, StutterInv DEF Done
<1> QED BY <1>1, <1>2, <1>3 DEF Next

\* The inductive invariant.
THEOREM Invariant == Spec => []Inv
<1>1. Init => Inv
  BY InitInv
<1>2. Inv /\ [Next]_vars => Inv'
  BY StepInv
<1> QED BY <1>1, <1>2, PTL DEF Spec

\* Every variable stays within its type.
THEOREM TypeCorrect == Spec => []TypeOK
<1>1. Inv => TypeOK
  BY DEF Inv
<1> QED BY <1>1, Invariant, PTL

\* A GO or a HOLD of RunWithProgress or ResumeObservation, in whatever
\* invocations and after whatever faults, means that every required gate of the
\* plan was run and passed; a GO, that the optional ones passed too.
THEOREM SoundDecisions == Spec => []DecisionSound
<1>1. Inv => DecisionSound
  BY DEF Inv, ConcludeInv
<1> QED BY <1>1, Invariant, PTL

\* What check publishes is the report of a run at "finalizing" or "completed",
\* or says of itself that it could not be saved.
THEOREM PublishedSaved == Spec => []PublishedIsSaved
<1>1. Inv => PublishedIsSaved
  BY DEF Inv, PublishInv
<1> QED BY <1>1, Invariant, PTL

LEMMA ExtendsIsPrefix ==
  ASSUME NEW S, NEW s \in Seq(S), NEW t \in Seq(S), Extends(s, t)
  PROVE  IsPrefix(s, t)
<1>1. Len(s) \in Nat /\ Len(t) \in Nat /\ Len(s) <= Len(t)
  BY DEF Extends
<1> DEFINE a == SubSeq(s, 1, Len(s))
           b == SubSeq(t, 1, Len(s))
<1>2. (\A i \in 1 .. Len(s) : s[i] \in S) /\ (\A i \in 1 .. Len(s) : t[i] \in S)
  BY <1>1
<1>3. /\ a \in Seq(S) /\ Len(a) = Len(s)
      /\ \A i \in 1 .. Len(s) : a[i] = s[i]
  BY <1>1, <1>2, SubSeqProperties
<1>4. /\ b \in Seq(S) /\ Len(b) = Len(s)
      /\ \A i \in 1 .. Len(s) : b[i] = t[i]
  BY <1>1, <1>2, SubSeqProperties
<1>5. \A i \in 1 .. Len(s) : s[i] = t[i]
  BY DEF Extends
<1> HIDE DEF a, b
<1>6. a = b
  BY <1>3, <1>4, <1>5
<1> QED BY <1>1, <1>6 DEF IsPrefix, a, b

\* From the first sample that observe saves, no save loses a result or a sample
\* or takes one again, whatever is interrupted and resumed.
THEOREM ObservationGrows == Spec => ObservationOnlyGrows
<1> DEFINE Growing == saved.stage = "observing" =>
                        /\ IsPrefix(saved.report.results, saved'.report.results)
                        /\ IsPrefix(saved.report.samples, saved'.report.samples)
<1>1. Inv /\ Inv' /\ [Next]_vars => Growing
  <2> SUFFICES ASSUME Inv, Inv', [Next]_vars, saved.stage = "observing"
               PROVE  /\ IsPrefix(saved.report.results, saved'.report.results)
                      /\ IsPrefix(saved.report.samples, saved'.report.samples)
    OBVIOUS
  <2>1. Grows(saved.report, saved'.report)
    BY StepInv DEF Kept
  <2>2. saved.report \in Report /\ saved'.report \in Report
    BY DEF Inv, TypeOK
  <2> DEFINE S == [gate : AllGates, cause : Causes]
  <2>3. saved.report.results \in Seq(S) /\ saved'.report.results \in Seq(S)
    BY <2>2 DEF Report
  <2>4. saved.report.samples \in Seq(BOOLEAN) /\ saved'.report.samples \in Seq(BOOLEAN)
    BY <2>2 DEF Report
  <2> HIDE DEF S
  <2> QED BY <2>1, <2>3, <2>4, ExtendsIsPrefix DEF Grows
<1>2. Inv /\ Inv' /\ [Next]_vars => [Growing]_vars
  BY <1>1
<1> QED BY <1>2, Invariant, PTL DEF Spec, ObservationOnlyGrows
=============================================================================
