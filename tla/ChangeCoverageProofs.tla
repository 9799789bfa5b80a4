----------------------- MODULE ChangeCoverageProofs -------------------------
(***************************************************************************)
(* Proofs about ChangeCoverage, for every plan, document, artifact and     *)
(* fleet answer: the type invariant, the three properties of a passing     *)
(* coverage, and that no interruption makes a source count twice.          *)
(***************************************************************************)
EXTENDS ChangeCoverage, TLAPS

Statuses == {"matched", "ambiguous", "missing", "optional-missing"}

CorrelationsOf(c) == Seq([status : Statuses, observed : SUBSET DOMAIN c.observed])

Fields == {"declared", "observed", "sources", "correlations", "unexpected",
           "matched", "missingRequired", "missingOptional"}

\* The shape of a report.
Shaped(r) ==
  /\ r = [f \in {"coverage", "failed"} |-> r[f]]
  /\ r.coverage = [f \in Fields |-> r.coverage[f]]
  /\ r.coverage.declared \in Seq(Declarations)

\* What TypeOK says of a coverage.
Typed(c) ==
  /\ c.correlations \in CorrelationsOf(c)
  /\ Len(c.correlations) <= Len(c.declared)
  /\ {c.matched, c.missingRequired, c.missingOptional} \subseteq Nat

\* What OwnObservation says of a coverage.
OwnIn(c) ==
  LET matched == {i \in DOMAIN c.correlations : c.correlations[i].status = "matched"}
  IN /\ \A i \in matched : Explained(c, i)
     /\ \A i, j \in matched :
          i # j => c.correlations[i].observed # c.correlations[j].observed

\* What EachSourceOnce says of a coverage.
Distinct(c) ==
  \A i, j \in DOMAIN c.sources : i # j => c.sources[i].source # c.sources[j].source

Good(r) ==
  Shaped(r) /\ Typed(r.coverage) /\ OwnIn(r.coverage) /\ Distinct(r.coverage)

\* Nothing has been correlated yet.
Fresh(c) ==
  /\ c.correlations = <<>>
  /\ c.matched = 0 /\ c.missingRequired = 0 /\ c.missingOptional = 0

\* The gates before the drift gate have left their mark.
Checked(p, r) ==
  /\ r.coverage.declared = <<>> => "expected" \in r.failed
  /\ "links" \notin r.failed /\ r.coverage.declared # <<>>
       => LinksValid(p, r.coverage.declared)

OnlyInfra(c) ==
  \/ c.sources = <<>>
  \/ \E n : c.sources = <<[source |-> "infrascout", items |-> n]>>

\* A report whose gates are behind it, the coverage gate excepted.
Observed(p, r) ==
  /\ Checked(p, r)
  /\ Fresh(r.coverage)
  /\ OnlyInfra(r.coverage)
  /\ p.drift /\ r.failed = {} => Counts(r.coverage, "infrascout")

AllCounted(p, r) ==
  r.failed = {} => /\ p.drift => Counts(r.coverage, "infrascout")
                   /\ NeedsFleet(r.coverage.declared) => Counts(r.coverage, "fleetscope")

\* The loop of correlateChanges has done some declarations and used u.
Correlating(c, u) ==
  /\ u \subseteq DOMAIN c.observed
  /\ \A o \in u :
       \E i \in DOMAIN c.correlations :
         /\ Matches(c.declared[i], c.observed[o])
         /\ c.correlations[i].status = "matched" => c.correlations[i].observed = {o}
  /\ \A i \in DOMAIN c.correlations :
       /\ c.correlations[i].observed \subseteq u
       /\ c.missingRequired = 0 /\ c.declared[i].required
            => c.correlations[i].status = "matched"

\* A report after the coverage gate.
Judged(p, r) ==
  /\ Checked(p, r)
  /\ AllCounted(p, r)
  /\ r.failed = {} => AccountsForAll(r.coverage)

Inv ==
  /\ plan \in Plans
  /\ saved = [stage |-> saved.stage, report |-> saved.report]
  /\ saved.stage \in {"checking", "observing", "finalizing"}
  /\ pc \in {"load", "links", "drift", "window", "finalize", "correlate",
             "checkpoint", "decide", "returned"}
  /\ resumed \in BOOLEAN
  /\ used \subseteq DOMAIN report.coverage.observed
  /\ Good(report) /\ Good(saved.report)
  /\ pc = "load" => report = NewReport
  /\ pc \in {"links", "drift"} => report.coverage.sources = <<>>
  /\ pc = "links" => report.coverage.declared # <<>>
  /\ pc \in {"links", "drift", "window", "finalize"} => Fresh(report.coverage)
  /\ pc \in {"load", "links", "drift", "window", "finalize"} => used = {}
  /\ pc = "drift" => Checked(plan, report)
  /\ pc \in {"window", "finalize"} => Observed(plan, report)
  /\ pc = "correlate" => /\ Checked(plan, report) /\ AllCounted(plan, report)
                         /\ report.coverage.declared # <<>>
                         /\ Correlating(report.coverage, used)
  /\ pc \in {"checkpoint", "decide"} => Judged(plan, report)
  /\ saved.stage = "observing" => Observed(plan, saved.report)
  /\ saved.stage = "finalizing" => Judged(plan, saved.report)

-----------------------------------------------------------------------------
\* A report in which nothing is correlated has nothing wrong with it.
LEMMA FreshGood ==
  ASSUME NEW r, Shaped(r), Fresh(r.coverage), Distinct(r.coverage)
  PROVE  Good(r)
<1> DEFINE c == r.coverage
<1>1. Typed(c)
  <2>1. c.correlations = <<>> /\ c.matched = 0 /\ c.missingRequired = 0
          /\ c.missingOptional = 0
    BY DEF Fresh
  <2>2. Len(c.declared) \in Nat
    BY DEF Shaped
  <2>3. c.correlations \in CorrelationsOf(c)
    BY <2>1 DEF CorrelationsOf
  <2> QED BY <2>1, <2>2, <2>3 DEF Typed
<1>2. OwnIn(c)
  BY DEF OwnIn, Fresh
<1> QED BY <1>1, <1>2 DEF Good

\* What With does to a report.
LEMMA WithFacts ==
  ASSUME NEW r, NEW gate, NEW passed \in BOOLEAN, Good(r)
  PROVE  /\ Good(With(r, gate, passed))
         /\ With(r, gate, passed).coverage = r.coverage
         /\ With(r, gate, passed).failed
              = IF passed THEN r.failed ELSE r.failed \cup {gate}
<1> DEFINE w == With(r, gate, passed)
<1>1. r = [f \in {"coverage", "failed"} |-> r[f]]
  BY DEF Good, Shaped
<1>2. /\ w = [f \in {"coverage", "failed"} |-> w[f]]
      /\ w.coverage = r.coverage
      /\ w.failed = IF passed THEN r.failed ELSE r.failed \cup {gate}
  BY <1>1 DEF With
<1> HIDE DEF w
<1>3. Shaped(w)
  BY <1>2 DEF Good, Shaped
<1> QED BY <1>2, <1>3 DEF Good, w

\* What Joined does to a coverage.
LEMMA JoinedFacts ==
  ASSUME NEW r, Good(r), NEW source, NEW items
  PROVE  LET j == Joined(r.coverage, source, items)
         IN /\ j = [f \in Fields |-> j[f]]
            /\ \A f \in Fields \ {"observed", "sources"} : j[f] = r.coverage[f]
            /\ j.sources = Append(r.coverage.sources,
                                  [source |-> source, items |-> Len(items)])
<1> DEFINE c == r.coverage
           x == c.observed \o items
           y == Append(c.sources, [source |-> source, items |-> Len(items)])
           k == [c EXCEPT !.observed = x, !.sources = y]
<1>1. c = [f \in Fields |-> c[f]]
  BY DEF Good, Shaped
<1>2. Joined(c, source, items) = k
  BY DEF Joined
<1> HIDE DEF c, x, y
<1>3. /\ k = [f \in Fields |-> k[f]]
      /\ \A f \in Fields \ {"observed", "sources"} : k[f] = c[f]
      /\ k.sources = y
  BY <1>1 DEF Fields
<1> QED BY <1>2, <1>3 DEF c, y

LEMMA CheckpointFacts ==
  ASSUME NEW r, NEW next, Checkpoint(r, next)
  PROVE  report' = r /\ saved' = saved /\ pc' \in {next, "returned"}
BY DEF Checkpoint, CheckpointSaves

LEMMA NewReportGood == Good(NewReport) /\ Fresh(NewReport.coverage)
<1>1. Fresh(NewReport.coverage) /\ Distinct(NewReport.coverage)
  BY DEF Fresh, NewReport, EmptyCoverage, Distinct
<1>2. NewReport.coverage = [f \in Fields |-> NewReport.coverage[f]]
  <2> DEFINE e == EmptyCoverage(<<>>)
  <2>1. e = [f \in DOMAIN e |-> e[f]]
    BY DEF EmptyCoverage
  <2>2. DOMAIN e = Fields
    BY DEF EmptyCoverage, Fields
  <2> HIDE DEF e
  <2>3. NewReport.coverage = e
    BY DEF NewReport, e
  <2> QED BY <2>1, <2>2, <2>3
<1>3. NewReport = [f \in {"coverage", "failed"} |-> NewReport[f]]
  BY DEF NewReport
<1>4. NewReport.coverage.declared \in Seq(Declarations)
  <2>1. NewReport.coverage.declared = <<>>
    BY DEF NewReport, EmptyCoverage
  <2> QED BY <2>1
<1> QED BY <1>1, <1>2, <1>3, <1>4, FreshGood DEF Shaped

-----------------------------------------------------------------------------
\* The loop starts with nothing used.
LEMMA UncorrelatedFacts ==
  ASSUME NEW c, c = [f \in Fields |-> c[f]]
  PROVE  LET u == Uncorrelated(c)
         IN /\ u = [f \in Fields |-> u[f]]
            /\ u.declared = c.declared
            /\ u.observed = c.observed
            /\ u.sources = c.sources
            /\ Fresh(u)
BY DEF Uncorrelated, Fields, Fresh

\* A report with another coverage.
LEMMA Recovered ==
  ASSUME NEW r, NEW c, r = [f \in {"coverage", "failed"} |-> r[f]]
  PROVE  LET s == [r EXCEPT !.coverage = c]
         IN /\ s = [f \in {"coverage", "failed"} |-> s[f]]
            /\ s.coverage = c
            /\ s.failed = r.failed
OBVIOUS

\* What Counted does to a coverage.
LEMMA CountedFacts ==
  ASSUME NEW c, c = [f \in Fields |-> c[f]], Typed(c), NEW e, NEW k
  PROVE  LET d == Counted(c, e, k)
         IN /\ d = [f \in Fields |-> d[f]]
            /\ d.declared = c.declared
            /\ d.observed = c.observed
            /\ d.sources = c.sources
            /\ d.correlations = Append(c.correlations, k)
            /\ {d.matched, d.missingRequired, d.missingOptional} \subseteq Nat
            /\ d.missingRequired =
                 IF k.status # "matched" /\ e.required
                 THEN c.missingRequired + 1 ELSE c.missingRequired
<1> DEFINE counter == IF k.status = "matched" THEN "matched"
                      ELSE IF e.required THEN "missingRequired" ELSE "missingOptional"
           x == Append(c.correlations, k)
           d == [c EXCEPT !.correlations = x, ![counter] = @ + 1]
<1>1. counter \in {"matched", "missingRequired", "missingOptional"}
  OBVIOUS
<1>2. Counted(c, e, k) = d
  BY DEF Counted
<1>3. {c.matched, c.missingRequired, c.missingOptional} \subseteq Nat
  BY DEF Typed
<1>4. counter = "missingRequired" <=> k.status # "matched" /\ e.required
  OBVIOUS
<1> HIDE DEF counter, x
<1>5. /\ d = [f \in Fields |-> d[f]]
      /\ \A f \in Fields \ {"correlations", counter} : d[f] = c[f]
      /\ d.correlations = x
      /\ d[counter] = c[counter] + 1
  BY <1>1 DEF Fields
<1> HIDE DEF d
<1>6. d.declared = c.declared /\ d.observed = c.observed /\ d.sources = c.sources
  BY <1>1, <1>5 DEF Fields
<1>7. {d.matched, d.missingRequired, d.missingOptional} \subseteq Nat
  BY <1>1, <1>3, <1>5 DEF Fields
<1>8. d.missingRequired = IF counter = "missingRequired"
                          THEN c.missingRequired + 1 ELSE c.missingRequired
  BY <1>1, <1>5 DEF Fields
<1> QED BY <1>2, <1>4, <1>5, <1>6, <1>7, <1>8 DEF x

-----------------------------------------------------------------------------
\* One turn of the loop keeps what the turns before it have established.
LEMMA CorrelateKeeps ==
  ASSUME NEW c, c = [f \in Fields |-> c[f]], Typed(c), OwnIn(c),
         c.declared \in Seq(Declarations),
         NEW u, Correlating(c, u),
         Len(c.correlations) + 1 <= Len(c.declared),
         NEW found, NEW e,
         e = c.declared[Len(c.correlations) + 1],
         found = {o \in DOMAIN c.observed \ u : Matches(e, c.observed[o])}
  PROVE  LET d == Counted(c, e, Correlation(e, found))
         IN Typed(d) /\ OwnIn(d) /\ Correlating(d, u \cup found)
<1> DEFINE k == Correlation(e, found)
           d == Counted(c, e, k)
           n == Len(c.correlations) + 1
           S == [status : Statuses, observed : SUBSET DOMAIN c.observed]
<1>1. c.correlations \in Seq(S) /\ n \in Nat /\ n - 1 = Len(c.correlations)
  BY DEF Typed, CorrelationsOf
<1>2. k \in S
  BY DEF Correlation, Statuses
<1>3. k.status = "matched" => \E o \in found : found = {o} /\ k.observed = {o}
  BY DEF Correlation
<1>4. k.status # "matched" => k.observed = {}
  BY DEF Correlation
<1>5. /\ d.declared = c.declared
      /\ d.observed = c.observed
      /\ d.correlations = Append(c.correlations, k)
      /\ {d.matched, d.missingRequired, d.missingOptional} \subseteq Nat
      /\ d.missingRequired = IF k.status # "matched" /\ e.required
                             THEN c.missingRequired + 1 ELSE c.missingRequired
  <2> HIDE DEF k
  <2>1. c = [f \in Fields |-> c[f]] /\ Typed(c)
    OBVIOUS
  <2> QED BY ONLY <2>1, CountedFacts
<1>6. c.missingRequired \in Nat
  BY DEF Typed
<1> HIDE DEF k, d, S
<1>7. /\ d.correlations \in Seq(S)
      /\ Len(d.correlations) = n
      /\ DOMAIN d.correlations = DOMAIN c.correlations \cup {n}
      /\ n \notin DOMAIN c.correlations
      /\ d.correlations[n] = k
      /\ \A i \in DOMAIN c.correlations : d.correlations[i] = c.correlations[i]
  <2> DEFINE s == c.correlations
             t == Append(s, k)
  <2>1. s \in Seq(S) /\ Len(s) \in Nat /\ n = Len(s) + 1 /\ DOMAIN s = 1 .. Len(s)
    BY <1>1
  <2> HIDE DEF s
  <2>2. t \in Seq(S) /\ Len(t) = n /\ DOMAIN t = 1 .. n
    BY <1>2, <2>1
  <2>3. t[n] = k /\ \A i \in 1 .. Len(s) : t[i] = s[i]
    BY <1>2, <2>1
  <2>4. 1 .. n = (1 .. Len(s)) \cup {n} /\ n \notin 1 .. Len(s)
    BY <2>1
  <2> QED BY <1>5, <2>1, <2>2, <2>3, <2>4 DEF s
<1> HIDE DEF n
<1>8. e = c.declared[n]
  BY DEF n
<1>9. Typed(d)
  BY <1>5, <1>7 DEF Typed, CorrelationsOf, S, n
<1>10. \A i \in DOMAIN c.correlations : c.correlations[i].observed \subseteq u
  BY DEF Correlating
<1>11. \A i \in DOMAIN c.correlations :
         c.correlations[i].status = "matched" => Explained(c, i)
  BY DEF OwnIn
<1>12. OwnIn(d)
  <2>1. \A i \in DOMAIN c.correlations : Explained(c, i) => Explained(d, i)
    BY <1>5, <1>7 DEF Explained
  <2>2. k.status = "matched" => Explained(d, n)
    <3>1. SUFFICES ASSUME k.status = "matched" PROVE Explained(d, n)
      OBVIOUS
    <3>2. PICK o \in found : found = {o} /\ k.observed = {o}
      BY <1>3, <3>1
    <3>3. o \in DOMAIN c.observed /\ Matches(e, c.observed[o])
      BY <3>2
    <3> QED BY <1>5, <1>7, <1>8, <3>2, <3>3 DEF Explained
  <2>3. \A i \in DOMAIN d.correlations :
          d.correlations[i].status = "matched" => Explained(d, i)
    BY <1>7, <1>11, <2>1, <2>2
  <2>4. \A i \in DOMAIN c.correlations :
          k.status = "matched" => c.correlations[i].observed # k.observed
    BY <1>3, <1>10
  <2>5. \A i, j \in DOMAIN c.correlations :
          /\ c.correlations[i].status = "matched"
          /\ c.correlations[j].status = "matched"
          /\ i # j
          => c.correlations[i].observed # c.correlations[j].observed
    BY DEF OwnIn
  <2>6. \A i, j \in DOMAIN d.correlations :
          /\ d.correlations[i].status = "matched"
          /\ d.correlations[j].status = "matched"
          /\ i # j
          => d.correlations[i].observed # d.correlations[j].observed
    BY <1>7, <2>4, <2>5
  <2> QED BY <2>3, <2>6 DEF OwnIn
<1>13. Correlating(d, u \cup found)
  <2>1. u \cup found \subseteq DOMAIN d.observed
    BY <1>5 DEF Correlating
  <2>2. ASSUME NEW o \in u \cup found
        PROVE  \E i \in DOMAIN d.correlations :
                 /\ Matches(d.declared[i], d.observed[o])
                 /\ d.correlations[i].status = "matched"
                      => d.correlations[i].observed = {o}
    <3>1. CASE o \in found
      <4>1. Matches(e, c.observed[o])
        BY <3>1
      <4>2. k.status = "matched" => k.observed = {o}
        BY <1>3, <3>1
      <4> QED BY <1>5, <1>7, <1>8, <4>1, <4>2
    <3>2. CASE o \in u
      <4>1. PICK i \in DOMAIN c.correlations :
              /\ Matches(c.declared[i], c.observed[o])
              /\ c.correlations[i].status = "matched"
                   => c.correlations[i].observed = {o}
        BY <3>2 DEF Correlating
      <4> QED BY <1>5, <1>7, <4>1
    <3> QED BY <3>1, <3>2
  <2>3. ASSUME NEW i \in DOMAIN d.correlations
        PROVE  /\ d.correlations[i].observed \subseteq u \cup found
               /\ d.missingRequired = 0 /\ d.declared[i].required
                    => d.correlations[i].status = "matched"
    <3>1. CASE i = n
      BY <1>3, <1>4, <1>5, <1>6, <1>7, <1>8, <3>1
    <3>2. CASE i \in DOMAIN c.correlations
      <4>1. d.missingRequired = 0 => c.missingRequired = 0
        BY <1>5, <1>6
      <4> QED BY <1>5, <1>7, <3>2, <4>1 DEF Correlating
    <3> QED BY <1>7, <3>1, <3>2
  <2> QED BY <2>1, <2>2, <2>3 DEF Correlating
<1> QED BY <1>9, <1>12, <1>13 DEF d, k

\* The verdict passes only a coverage in which everything is accounted for.
LEMMA JudgeFacts ==
  ASSUME NEW c, c = [f \in Fields |-> c[f]], Typed(c), OwnIn(c),
         c.declared \in Seq(Declarations),
         NEW u, Correlating(c, u),
         Len(c.correlations) = Len(c.declared)
  PROVE  LET d == [c EXCEPT !.unexpected = DOMAIN c.observed \ u]
         IN /\ d = [f \in Fields |-> d[f]]
            /\ d.declared = c.declared
            /\ d.observed = c.observed
            /\ d.sources = c.sources
            /\ Typed(d) /\ OwnIn(d)
            /\ Covered(d) => AccountsForAll(d)
<1> DEFINE x == DOMAIN c.observed \ u
           d == [c EXCEPT !.unexpected = x]
<1> HIDE DEF x
<1>1. /\ d = [f \in Fields |-> d[f]]
      /\ \A f \in Fields \ {"unexpected"} : d[f] = c[f]
      /\ d.unexpected = x
  BY DEF Fields
<1> HIDE DEF d
<1>2. /\ d.declared = c.declared /\ d.observed = c.observed /\ d.sources = c.sources
      /\ d.correlations = c.correlations
      /\ d.matched = c.matched /\ d.missingRequired = c.missingRequired
      /\ d.missingOptional = c.missingOptional
  BY <1>1 DEF Fields
<1>3. Typed(d)
  BY <1>2 DEF Typed, CorrelationsOf
<1>4. \A i : Explained(c, i) <=> Explained(d, i)
  BY <1>2 DEF Explained
<1>5. OwnIn(d)
  BY <1>2, <1>4 DEF OwnIn
<1>6. ASSUME Covered(d) PROVE AccountsForAll(d)
  <2>1. DOMAIN c.observed \subseteq u /\ c.missingRequired = 0
    BY <1>1, <1>2, <1>6 DEF Covered, x
  <2>2. DOMAIN c.correlations = DOMAIN c.declared
    BY DEF Typed, CorrelationsOf
  <2>3. \A i \in DOMAIN c.declared :
          c.declared[i].required => c.correlations[i].status = "matched"
    BY <2>1, <2>2 DEF Correlating
  <2>4. \A i \in DOMAIN d.declared : d.declared[i].required => Explained(d, i)
    BY <1>2, <1>5, <2>2, <2>3 DEF OwnIn
  <2>5. ASSUME NEW o \in DOMAIN d.observed
        PROVE  \E i \in DOMAIN d.declared :
                 /\ Matches(d.declared[i], d.observed[o])
                 /\ d.declared[i].required => d.correlations[i].observed = {o}
    <3>1. PICK i \in DOMAIN c.correlations :
            /\ Matches(c.declared[i], c.observed[o])
            /\ c.correlations[i].status = "matched" => c.correlations[i].observed = {o}
      BY <1>2, <2>1, <2>5 DEF Correlating
    <3> QED BY <1>2, <2>2, <2>3, <3>1
  <2> QED BY <2>4, <2>5 DEF AccountsForAll
<1> QED BY <1>1, <1>2, <1>3, <1>5, <1>6 DEF d, x

-----------------------------------------------------------------------------
LEMMA InitInv == Init => Inv
<1> SUFFICES ASSUME Init PROVE Inv
  OBVIOUS
<1> USE DEF Init
<1>1. Good(report) /\ Good(saved.report)
  BY NewReportGood
<1> QED BY <1>1 DEF Inv

LEMMA LoadInv == Inv /\ LoadExpectedChanges => Inv'
<1> SUFFICES ASSUME Inv, LoadExpectedChanges PROVE Inv'
  OBVIOUS
<1>1. used = {} /\ used' = {} /\ plan' = plan /\ resumed' = resumed
  BY DEF Inv, LoadExpectedChanges
<1> DEFINE bad == With(NewReport, "expected", FALSE)
           Loaded(d) == [NewReport EXCEPT !.coverage = EmptyCoverage(d.changes)]
<1>2. Good(bad) /\ Fresh(bad.coverage) /\ bad.coverage.sources = <<>>
        /\ bad.coverage.declared = <<>> /\ "expected" \in bad.failed
  <2>1. NewReport.coverage.sources = <<>> /\ NewReport.coverage.declared = <<>>
    BY DEF NewReport, EmptyCoverage
  <2> QED BY <2>1, NewReportGood, WithFacts
<1>3. ASSUME NEW d \in Documents
      PROVE  LET r == Loaded(d)
             IN Good(r) /\ Fresh(r.coverage) /\ r.coverage.sources = <<>>
  <2> DEFINE e == EmptyCoverage(d.changes)
             r == Loaded(d)
  <2>1. e = [f \in DOMAIN e |-> e[f]] /\ DOMAIN e = Fields
    <3>1. e = [f \in DOMAIN e |-> e[f]]
      BY DEF EmptyCoverage
    <3>2. DOMAIN e = Fields
      BY DEF EmptyCoverage, Fields
    <3> QED BY <3>1, <3>2
  <2>2. Fresh(e) /\ e.sources = <<>> /\ e.declared = d.changes
    BY DEF EmptyCoverage, Fresh
  <2>3. e.declared \in Seq(Declarations)
    BY <2>2, DocumentsAssumption
  <2>4. NewReport = [f \in {"coverage", "failed"} |-> NewReport[f]]
    BY DEF NewReport
  <2> HIDE DEF e
  <2>5. r = [f \in {"coverage", "failed"} |-> r[f]] /\ r.coverage = e
    BY <2>4, Recovered DEF e
  <2> HIDE DEF r
  <2>6. e = [f \in Fields |-> e[f]]
    BY <2>1, Zenon
  <2>7. Shaped(r) /\ Distinct(r.coverage)
    BY <2>2, <2>3, <2>5, <2>6 DEF Shaped, Distinct
  <2>8. Good(r) /\ Fresh(r.coverage) /\ r.coverage.sources = <<>>
    BY <2>2, <2>5, <2>7, FreshGood
  <2> QED BY <2>8 DEF r
<1> HIDE DEF bad, Loaded
<1> DEFINE Outcome ==
             /\ Good(report') /\ Fresh(report'.coverage)
             /\ report'.coverage.sources = <<>>
             /\ saved' = saved
             /\ \/ pc' = "returned"
                \/ pc' = "links" /\ report'.coverage.declared # <<>>
                \/ /\ pc' = "drift"
                   /\ report'.coverage.declared = <<>>
                   /\ "expected" \in report'.failed
<1>4. Outcome
  <2>1. CASE Checkpoint(bad, "drift")
    BY <1>2, <2>1, CheckpointFacts
  <2>2. ASSUME NEW d \in Documents, Valid(d),
               Checkpoint(Loaded(d), IF Available(Loaded(d)) THEN "links" ELSE "drift")
        PROVE  Outcome
    <3>1. Available(Loaded(d))
      BY <2>2 DEF Valid, Available, Loaded, NewReport, EmptyCoverage
    <3>2. Checkpoint(Loaded(d), "links")
      BY <2>2, <3>1
    <3> QED BY <1>3, <3>1, <3>2, CheckpointFacts DEF Available
  <2>3. ASSUME Checkpoint(bad, IF Available(bad) THEN "links" ELSE "drift")
        PROVE  Outcome
    <3>1. Checkpoint(bad, "drift")
      BY <1>2, <2>3 DEF Available
    <3> QED BY <2>1, <3>1
  <2> QED BY <2>1, <2>2, <2>3, Zenon DEF LoadExpectedChanges, bad, Loaded
<1> QED BY <1>1, <1>4 DEF Inv, Checked

LEMMA LinksInv == Inv /\ ValidateLinks => Inv'
<1> SUFFICES ASSUME Inv, ValidateLinks PROVE Inv'
  OBVIOUS
<1> DEFINE ok == LinksValid(plan, report.coverage.declared)
           r == With(report, "links", ok)
<1>1. ok \in BOOLEAN
  BY DEF LinksValid
<1>2. /\ used = {} /\ used' = {} /\ plan' = plan /\ resumed' = resumed
      /\ Good(report) /\ Fresh(report.coverage) /\ report.coverage.sources = <<>>
      /\ report.coverage.declared # <<>>
  BY DEF Inv, ValidateLinks
<1>3. report' = r /\ saved' = saved /\ pc' \in {"drift", "returned"}
  BY CheckpointFacts DEF ValidateLinks
<1> HIDE DEF ok
<1>4. /\ Good(r) /\ r.coverage = report.coverage
      /\ "links" \notin r.failed => ok
  BY <1>1, <1>2, WithFacts
<1> HIDE DEF r
<1>5. Checked(plan, r)
  BY <1>2, <1>4 DEF Checked, ok
<1>6. Checked(plan, report)' /\ Good(report')
  BY <1>2, <1>3, <1>4, <1>5 DEF Checked
<1> QED BY <1>2, <1>3, <1>4, <1>6 DEF Inv

LEMMA DriftInv == Inv /\ DriftGate => Inv'
<1> SUFFICES ASSUME Inv, DriftGate PROVE Inv'
  OBVIOUS
<1> DEFINE next == IF plan.observes THEN "window" ELSE "finalize"
           bad == With(report, "drift", FALSE)
           Fed(items) == [report EXCEPT !.coverage = Joined(@, "infrascout", items)]
<1>1. /\ used = {} /\ used' = {} /\ plan' = plan /\ resumed' = resumed
      /\ plan \in Plans
      /\ Good(report) /\ Fresh(report.coverage) /\ report.coverage.sources = <<>>
      /\ Checked(plan, report)
  BY DEF Inv, DriftGate
<1>2. next \in {"window", "finalize"}
  OBVIOUS
<1>3. /\ Good(bad) /\ bad.coverage = report.coverage
      /\ bad.failed = report.failed \cup {"drift"}
  BY <1>1, WithFacts
<1> HIDE DEF bad
<1>4. Observed(plan, bad)
  BY <1>1, <1>3 DEF Observed, Checked, OnlyInfra
<1>5. ASSUME NEW items
      PROVE  Good(Fed(items)) /\ Observed(plan, Fed(items))
  <2> DEFINE j == Joined(report.coverage, "infrascout", items)
             k == [source |-> "infrascout", items |-> Len(items)]
             r == Fed(items)
  <2>1. /\ j = [f \in Fields |-> j[f]]
        /\ \A f \in Fields \ {"observed", "sources"} : j[f] = report.coverage[f]
        /\ j.sources = Append(report.coverage.sources, k)
    BY <1>1, JoinedFacts
  <2> HIDE DEF j
  <2>2. r = [f \in {"coverage", "failed"} |-> r[f]] /\ r.coverage = j
          /\ r.failed = report.failed
    <3>1. r = [report EXCEPT !.coverage = j]
      BY DEF j
    <3>2. report = [f \in {"coverage", "failed"} |-> report[f]]
      BY <1>1 DEF Good, Shaped
    <3> HIDE DEF r
    <3> QED BY <3>1, <3>2, Recovered
  <2> HIDE DEF r
  <2>3. k.source = "infrascout" /\ j.sources = <<k>>
    BY <1>1, <2>1
  <2>4. j.declared = report.coverage.declared /\ j.correlations = report.coverage.correlations
          /\ j.matched = report.coverage.matched
          /\ j.missingRequired = report.coverage.missingRequired
          /\ j.missingOptional = report.coverage.missingOptional
    BY <2>1 DEF Fields
  <2>5. Fresh(j)
    BY <1>1, <2>4 DEF Fresh
  <2>6. Shaped(r)
    BY <1>1, <2>1, <2>2, <2>4 DEF Good, Shaped
  <2>7. Distinct(j) /\ OnlyInfra(j) /\ Counts(j, "infrascout")
    <3>1. OnlyInfra(j)
      BY <2>3 DEF OnlyInfra
    <3>2. DOMAIN j.sources = {1} /\ j.sources[1] = k
      BY <2>3
    <3> QED BY <2>3, <3>1, <3>2 DEF Distinct, Counts
  <2>8. Good(r)
    BY <2>2, <2>5, <2>6, <2>7, FreshGood
  <2>9. Checked(plan, r)
    BY <1>1, <2>2, <2>4 DEF Checked
  <2>10. Observed(plan, r)
    BY <2>2, <2>5, <2>7, <2>9 DEF Observed
  <2> QED BY <2>8, <2>10 DEF r
<1>6. ASSUME ~plan.drift \/ ~Available(report)
      PROVE  Observed(plan, report)
  <2>1. ~Available(report) => report.failed # {}
    BY <1>1 DEF Available, Checked
  <2> QED BY <1>1, <1>6, <2>1 DEF Observed, OnlyInfra
<1> DEFINE Alone(items) == With(report, "drift", DriftExpected(plan, items))
<1>61. ASSUME NEW items PROVE Alone(items) \in {report, bad}
  BY DEF With, bad
<1> HIDE DEF next, Fed, Alone
<1>7. /\ Good(report') /\ saved' = saved /\ pc' \in {next, "returned"}
      /\ Observed(plan, report')
  <2>1. CASE Checkpoint(bad, next)
    BY <1>3, <1>4, <2>1, CheckpointFacts
  <2>2. CASE Checkpoint(report, next) /\ ~plan.drift
    BY <1>1, <1>6, <2>2, CheckpointFacts
  <2>4. ASSUME NEW items, Checkpoint(Alone(items), next), ~Available(report)
        PROVE  /\ Good(report') /\ saved' = saved /\ pc' \in {next, "returned"}
               /\ Observed(plan, report')
    <3>1. CASE Alone(items) = report
      <4>1. Checkpoint(report, next)
        BY <2>4, <3>1
      <4> QED BY <1>1, <1>6, <2>4, <4>1, CheckpointFacts
    <3>2. CASE Alone(items) = bad
      <4>1. Checkpoint(bad, next)
        BY <2>4, <3>2
      <4> QED BY <1>3, <1>4, <4>1, CheckpointFacts
    <3> QED BY <1>61, <3>1, <3>2
  <2>3. ASSUME NEW file, Checkpoint(Fed(InfraObserved(file)), next)
        PROVE  /\ Good(report') /\ saved' = saved /\ pc' \in {next, "returned"}
               /\ Observed(plan, report')
    BY <1>5, <2>3, CheckpointFacts
  <2> QED BY <2>1, <2>2, <2>3, <2>4, Zenon DEF DriftGate, bad, Fed, Alone, next
<1>8. Fresh(report'.coverage)
  BY <1>7 DEF Observed
<1> QED BY <1>1, <1>2, <1>7, <1>8 DEF Inv

LEMMA WindowInv == Inv /\ Window => Inv'
<1> SUFFICES ASSUME Inv, Window PROVE Inv'
  OBVIOUS
<1> DEFINE bad == With(report, "window", FALSE)
<1>1. /\ used = {} /\ used' = {} /\ plan' = plan /\ resumed' = resumed
      /\ Good(report) /\ Observed(plan, report)
  BY DEF Inv, Window
<1>2. /\ Good(bad) /\ bad.coverage = report.coverage
      /\ bad.failed = report.failed \cup {"window"}
  BY <1>1, WithFacts
<1>3. report' \in {report, bad} /\ pc' \in {"finalize", "returned"}
        /\ saved' \in {saved, [stage |-> "observing", report |-> report]}
  BY DEF Window
<1> HIDE DEF bad
<1>4. Observed(plan, bad)
  BY <1>1, <1>2 DEF Observed, Checked
<1>5. Good(report') /\ Observed(plan, report') /\ Fresh(report'.coverage)
  BY <1>1, <1>2, <1>3, <1>4 DEF Observed
<1>6. CASE saved' = saved
  BY <1>1, <1>3, <1>5, <1>6 DEF Inv
<1>7. CASE saved' = [stage |-> "observing", report |-> report]
  BY <1>1, <1>3, <1>5, <1>7 DEF Inv
<1> QED BY <1>3, <1>6, <1>7

LEMMA FinalizeInv == Inv /\ Finalize => Inv'
<1> SUFFICES ASSUME Inv, Finalize PROVE Inv'
  OBVIOUS
<1> DEFINE cov == report.coverage
           bad == With(report, "coverage", FALSE)
           Begun(c) == [report EXCEPT !.coverage = Uncorrelated(c)]
<1>1. /\ used' = {} /\ plan' = plan /\ resumed' = resumed /\ saved' = saved
      /\ Good(report) /\ Observed(plan, report)
  BY DEF Inv, Finalize
<1>2. ASSUME NEW c, c = [f \in Fields |-> c[f]], c.declared = cov.declared,
             Distinct(c), Available(report),
             report.failed = {} => /\ plan.drift => Counts(c, "infrascout")
                                   /\ NeedsFleet(c.declared) => Counts(c, "fleetscope"),
             report' = Begun(c), pc' = "correlate"
      PROVE  Inv'
  <2> DEFINE u == Uncorrelated(c)
             r == Begun(c)
  <2>1. /\ u = [f \in Fields |-> u[f]] /\ u.declared = c.declared
        /\ u.sources = c.sources /\ Fresh(u)
    BY <1>2, UncorrelatedFacts
  <2>2. report = [f \in {"coverage", "failed"} |-> report[f]]
    BY <1>1 DEF Good, Shaped
  <2> HIDE DEF u
  <2>3. /\ r = [f \in {"coverage", "failed"} |-> r[f]] /\ r.coverage = u
        /\ r.failed = report.failed
    BY <2>2, Recovered DEF u
  <2> HIDE DEF r
  <2>4. Distinct(u) /\ (\A x : Counts(u, x) <=> Counts(c, x))
    <3>1. u.sources = c.sources
      BY <2>1
    <3>2. Distinct(u)
      BY <1>2, <3>1 DEF Distinct
    <3>3. \A x : Counts(u, x) <=> Counts(c, x)
      BY <3>1 DEF Counts
    <3> QED BY <3>2, <3>3
  <2>5. Shaped(r)
    BY <1>1, <1>2, <2>1, <2>3 DEF Good, Shaped
  <2>6. Good(r)
    BY <2>1, <2>3, <2>4, <2>5, FreshGood
  <2>7. Checked(plan, r)
    BY <1>1, <1>2, <2>1, <2>3 DEF Observed, Checked
  <2>8. AllCounted(plan, r)
    BY <1>2, <2>1, <2>3, <2>4 DEF AllCounted
  <2>9. Correlating(u, {}) /\ u.declared # <<>>
    <3>1. DOMAIN u.correlations = {}
      BY <2>1 DEF Fresh
    <3> QED BY <1>2, <2>1, <3>1 DEF Correlating, Available
  <2>10. report' = r
    BY <1>2 DEF r
  <2> QED BY <1>1, <1>2, <2>3, <2>6, <2>7, <2>8, <2>9, <2>10 DEF Inv
<1>3. ASSUME Available(report), report' = bad, pc' = "checkpoint"
      PROVE  Inv'
  <2>1. /\ Good(bad) /\ bad.coverage = report.coverage
        /\ bad.failed = report.failed \cup {"coverage"}
    BY <1>1, WithFacts
  <2> HIDE DEF bad
  <2>2. Judged(plan, bad)
    BY <1>1, <2>1 DEF Judged, Observed, Checked, AllCounted
  <2> QED BY <1>1, <1>3, <2>1, <2>2 DEF Inv
<1>4. ASSUME ~Available(report), report' = report, pc' = "decide"
      PROVE  Inv'
  <2>1. report.failed # {}
    BY <1>1, <1>4 DEF Observed, Checked, Available
  <2>2. Judged(plan, report)
    BY <1>1, <2>1 DEF Judged, Observed, AllCounted
  <2> QED BY <1>1, <1>4, <2>2 DEF Inv
<1>5. /\ cov = [f \in Fields |-> cov[f]] /\ Distinct(cov) /\ OnlyInfra(cov)
      /\ plan.drift /\ report.failed = {} => Counts(cov, "infrascout")
  BY <1>1 DEF Good, Shaped, Observed
<1>6. ASSUME Available(report), ~NeedsFleet(cov.declared),
             report' = Begun(cov), pc' = "correlate"
      PROVE  Inv'
  BY <1>2, <1>5, <1>6
<1>7. ASSUME Available(report), NEW items,
             report' = Begun(Joined(cov, "fleetscope", items)), pc' = "correlate"
      PROVE  Inv'
  <2> DEFINE j == Joined(cov, "fleetscope", items)
             k == [source |-> "fleetscope", items |-> Len(items)]
  <2>1. /\ j = [f \in Fields |-> j[f]]
        /\ \A f \in Fields \ {"observed", "sources"} : j[f] = cov[f]
        /\ j.sources = Append(cov.sources, k)
    <3>1. Good(report)
      BY <1>1
    <3> QED BY ONLY <3>1, JoinedFacts
  <2> HIDE DEF j
  <2>4. j.declared = cov.declared
    BY <2>1 DEF Fields
  <2>2. k.source = "fleetscope"
    OBVIOUS
  <2>3. Distinct(j) /\ Counts(j, "fleetscope")
          /\ (Counts(cov, "infrascout") => Counts(j, "infrascout"))
    <3>1. CASE cov.sources = <<>>
      <4> HIDE DEF k
      <4>1. j.sources = <<k>>
        BY <2>1, <3>1, SMTT(60)
      <4>2. DOMAIN j.sources = {1} /\ j.sources[1] = k /\ DOMAIN cov.sources = {}
        BY <3>1, <4>1
      <4> QED BY <2>2, <4>2 DEF Distinct, Counts
    <3>2. ASSUME NEW n, cov.sources = <<[source |-> "infrascout", items |-> n]>>
          PROVE  Distinct(j) /\ Counts(j, "fleetscope") /\ Counts(j, "infrascout")
      <4> DEFINE m == [source |-> "infrascout", items |-> n]
      <4>1. m.source = "infrascout" /\ cov.sources = <<m>>
        BY <3>2
      <4> HIDE DEF m, k
      <4>3. j.sources = <<m, k>>
        BY <2>1, <4>1
      <4>2. DOMAIN j.sources = {1, 2} /\ j.sources[1] = m /\ j.sources[2] = k
        BY <4>3
      <4>4. DOMAIN cov.sources = {1}
        BY <4>1
      <4>5. Distinct(j)
        BY <2>2, <4>1, <4>2 DEF Distinct
      <4> QED BY <2>2, <4>1, <4>2, <4>5 DEF Counts
    <3> QED BY <1>5, <3>1, <3>2 DEF OnlyInfra
  <2> QED BY <1>2, <1>5, <1>7, <2>1, <2>3, <2>4 DEF j
<1> QED BY <1>3, <1>4, <1>6, <1>7, Zenon DEF Finalize

LEMMA CorrelateInv == Inv /\ CorrelateOne => Inv'
<1> SUFFICES ASSUME Inv, CorrelateOne PROVE Inv'
  OBVIOUS
<1> DEFINE c == report.coverage
           e == c.declared[Len(c.correlations) + 1]
           found == Candidates(c, e)
           d == Counted(c, e, Correlation(e, found))
           r == [report EXCEPT !.coverage = d]
<1>1. /\ saved' = saved /\ plan' = plan /\ resumed' = resumed
      /\ pc = "correlate" /\ pc' = "correlate"
      /\ Good(report) /\ Checked(plan, report) /\ AllCounted(plan, report)
      /\ c.declared # <<>> /\ Correlating(c, used)
      /\ Len(c.correlations) + 1 <= Len(c.declared)
      /\ report' = r /\ used' = used \cup found
  BY DEF Inv, CorrelateOne
<1>2. c = [f \in Fields |-> c[f]] /\ Typed(c) /\ OwnIn(c)
        /\ c.declared \in Seq(Declarations)
  BY <1>1 DEF Good, Shaped
<1>3. found = {o \in DOMAIN c.observed \ used : Matches(e, c.observed[o])}
  BY DEF Candidates
<1> HIDE DEF found, e
<1>4. Typed(d) /\ OwnIn(d) /\ Correlating(d, used \cup found)
  BY <1>1, <1>2, <1>3, CorrelateKeeps DEF e
<1>5. /\ d = [f \in Fields |-> d[f]] /\ d.declared = c.declared
      /\ d.observed = c.observed /\ d.sources = c.sources
  BY <1>2, CountedFacts
<1> HIDE DEF d
<1>6. /\ r = [f \in {"coverage", "failed"} |-> r[f]]
      /\ r.coverage = d /\ r.failed = report.failed
  BY <1>1, Recovered DEF Good, Shaped
<1> HIDE DEF r
<1>7. Distinct(d) /\ Shaped(r)
  BY <1>1, <1>2, <1>5, <1>6 DEF Good, Distinct, Shaped
<1>8. Good(r)
  BY <1>4, <1>6, <1>7 DEF Good
<1>9. Checked(plan, r) /\ AllCounted(plan, r)
  <2>1. NeedsFleet(d.declared) = NeedsFleet(c.declared)
    BY <1>5
  <2>2. \A x : Counts(d, x) <=> Counts(c, x)
    BY <1>5 DEF Counts
  <2> QED BY <1>1, <1>5, <1>6, <2>1, <2>2 DEF Checked, AllCounted
<1>10. used' \subseteq DOMAIN report'.coverage.observed
  BY <1>1, <1>4, <1>6 DEF Correlating
<1> QED BY <1>1, <1>4, <1>5, <1>6, <1>8, <1>9, <1>10 DEF Inv

LEMMA JudgeInv == Inv /\ JudgeCoverage => Inv'
<1> SUFFICES ASSUME Inv, JudgeCoverage PROVE Inv'
  OBVIOUS
<1> DEFINE c == report.coverage
           d == [c EXCEPT !.unexpected = DOMAIN c.observed \ used]
           s == [report EXCEPT !.coverage = d]
           r == With(s, "coverage", Covered(d))
<1>1. /\ saved' = saved /\ plan' = plan /\ resumed' = resumed /\ used' = used
      /\ pc = "correlate" /\ pc' = "checkpoint"
      /\ Good(report) /\ Checked(plan, report) /\ AllCounted(plan, report)
      /\ Correlating(c, used) /\ Len(c.correlations) = Len(c.declared)
      /\ report' = r /\ used \subseteq DOMAIN c.observed
  BY DEF Inv, JudgeCoverage
<1>2. c = [f \in Fields |-> c[f]] /\ Typed(c) /\ OwnIn(c)
        /\ c.declared \in Seq(Declarations)
  BY <1>1 DEF Good, Shaped
<1>3. /\ d = [f \in Fields |-> d[f]]
      /\ d.declared = c.declared /\ d.observed = c.observed /\ d.sources = c.sources
      /\ Typed(d) /\ OwnIn(d) /\ (Covered(d) => AccountsForAll(d))
  BY <1>1, <1>2, JudgeFacts
<1> HIDE DEF d
<1>4. /\ s = [f \in {"coverage", "failed"} |-> s[f]]
      /\ s.coverage = d /\ s.failed = report.failed
  BY <1>1, Recovered DEF Good, Shaped
<1> HIDE DEF s
<1>5. Distinct(d) /\ Shaped(s)
  BY <1>1, <1>2, <1>3, <1>4 DEF Good, Distinct, Shaped
<1>6. Good(s)
  BY <1>3, <1>4, <1>5 DEF Good
<1>7. Covered(d) \in BOOLEAN
  BY DEF Covered
<1>8. /\ Good(r) /\ r.coverage = d
      /\ r.failed = IF Covered(d) THEN report.failed
                    ELSE report.failed \cup {"coverage"}
  <2> DEFINE v == Covered(d)
  <2>1. v \in BOOLEAN /\ r = With(s, "coverage", v)
    BY <1>7
  <2> HIDE DEF v, r
  <2>2. CASE v
    <3>1. r = s
      BY <2>1, <2>2 DEF With
    <3> QED BY <1>4, <1>6, <2>2, <3>1 DEF v
  <2>3. CASE ~v
    <3>1. r = With(s, "coverage", FALSE)
      BY <2>1, <2>3
    <3>2. /\ Good(With(s, "coverage", FALSE))
          /\ With(s, "coverage", FALSE).coverage = s.coverage
          /\ With(s, "coverage", FALSE).failed = s.failed \cup {"coverage"}
      BY <1>6, WithFacts
    <3> QED BY <1>4, <2>3, <3>1, <3>2 DEF v
  <2> QED BY <2>2, <2>3
<1> HIDE DEF r
<1>9. Checked(plan, r) /\ AllCounted(plan, r)
  <2>1. NeedsFleet(d.declared) = NeedsFleet(c.declared)
    BY <1>3
  <2>2. \A x : Counts(d, x) <=> Counts(c, x)
    BY <1>3 DEF Counts
  <2>3. Checked(plan, r)
    BY <1>1, <1>3, <1>8, <2>1 DEF Checked
  <2>4. AllCounted(plan, r)
    BY <1>1, <1>3, <1>8, <2>1, <2>2 DEF AllCounted
  <2> QED BY <2>3, <2>4
<1>10. Judged(plan, r)
  BY <1>3, <1>8, <1>9 DEF Judged
<1> QED BY <1>1, <1>3, <1>8, <1>10 DEF Inv

LEMMA CheckpointInv == Inv /\ CoverageCheckpoint => Inv'
<1> SUFFICES ASSUME Inv, CoverageCheckpoint PROVE Inv'
  OBVIOUS
<1>1. /\ report' = report /\ saved' = saved /\ pc' \in {"decide", "returned"}
      /\ plan' = plan /\ resumed' = resumed /\ used' = used
      /\ Judged(plan, report)
  BY CheckpointFacts DEF CoverageCheckpoint, Inv
<1> QED BY <1>1 DEF Inv

LEMMA DecideInv == Inv /\ Decide => Inv'
<1> SUFFICES ASSUME Inv, Decide PROVE Inv'
  OBVIOUS
<1>1. /\ report' = report /\ pc' = "returned"
      /\ plan' = plan /\ resumed' = resumed /\ used' = used
      /\ Judged(plan, report) /\ Good(report)
      /\ saved' \in {saved, [stage |-> "finalizing", report |-> report]}
  BY DEF Decide, Inv
<1>2. CASE saved' = saved
  BY <1>1, <1>2 DEF Inv
<1>3. CASE saved' = [stage |-> "finalizing", report |-> report]
  BY <1>1, <1>3 DEF Inv
<1> QED BY <1>1, <1>2, <1>3

LEMMA CrashInv == Inv /\ Crash => Inv'
BY DEF Inv, Crash

LEMMA InvokeInv == Inv /\ Invoke => Inv'
<1> SUFFICES ASSUME Inv, Invoke PROVE Inv'
  OBVIOUS
<1>1. CASE saved.stage = "checking" /\ pc' = "load" /\ report' = NewReport
  BY <1>1, NewReportGood DEF Inv, Invoke
<1>2. CASE saved.stage = "observing" /\ pc' = "window" /\ report' = saved.report
  <2>1. Observed(plan, saved.report) /\ Good(saved.report)
    BY <1>2 DEF Inv
  <2> QED BY <1>2, <2>1 DEF Inv, Invoke, Observed
<1> QED BY <1>1, <1>2 DEF Invoke

LEMMA StepInv == Inv /\ [Next]_vars => Inv'
<1>1. Inv /\ UNCHANGED vars => Inv'
  BY DEF Inv, vars
<1> QED BY <1>1, LoadInv, LinksInv, DriftInv, WindowInv, FinalizeInv, CorrelateInv,
           JudgeInv, CheckpointInv, DecideInv, CrashInv, InvokeInv DEF Next

THEOREM Invariant == Spec => []Inv
BY InitInv, StepInv, PTL DEF Spec

-----------------------------------------------------------------------------
\* The coverages and the loop's locals always have their shape.
THEOREM TypeCorrect == Spec => []TypeOK
<1>1. Inv => TypeOK
  BY DEF Inv, TypeOK, Coverages, Good, Typed, CorrelationsOf, Statuses
<1> QED BY <1>1, Invariant, PTL

\* Each matched declaration has an observation that no other one has.
THEOREM EachItsOwn == Spec => []OwnObservation
<1>1. Inv => OwnObservation
  BY DEF Inv, OwnObservation, Coverages, Good, OwnIn
<1> QED BY <1>1, Invariant, PTL

\* In the saved report of a release that passes, everything is accounted for.
THEOREM PassIsEarned == Spec => []PassAccountsForAll
<1>1. Inv => PassAccountsForAll
  BY DEF Inv, PassAccountsForAll, FinalPass, Judged
<1> QED BY <1>1, Invariant, PTL

\* The links gate and the coverage gate, passed at different times and maybe in
\* different invocations, together vouch for each observed database change.
THEOREM DatabaseIsVerified == Spec => []DatabaseChangesVerified
<1>1. Inv => DatabaseChangesVerified
  <2> SUFFICES ASSUME Inv, FinalPass,
                      NEW o \in DOMAIN saved.report.coverage.observed,
                      saved.report.coverage.observed[o].source = "database"
               PROVE  LET c == saved.report.coverage
                      IN \E i \in DOMAIN c.declared :
                           /\ Matches(c.declared[i], c.observed[o])
                           /\ c.declared[i].checks # {}
                           /\ c.declared[i].checks \subseteq plan.checks
    BY DEF DatabaseChangesVerified
  <2> DEFINE c == saved.report.coverage
  <2>1. Judged(plan, saved.report) /\ saved.report.failed = {}
    BY DEF Inv, FinalPass
  <2>2. PICK i \in DOMAIN c.declared : Matches(c.declared[i], c.observed[o])
    BY <2>1 DEF Judged, AccountsForAll
  <2>3. LinksValid(plan, c.declared)
    BY <2>1 DEF Judged, Checked
  <2>4. Linked(plan, c.declared[i]) /\ c.declared[i].source = "database"
    BY <2>2, <2>3 DEF LinksValid, Matches
  <2> QED BY <2>2, <2>4 DEF Linked
<1> QED BY <1>1, Invariant, PTL

\* However often a run is interrupted and resumed, a source is counted once.
THEOREM SourcesOnce == Spec => []EachSourceOnce
<1>1. Inv => EachSourceOnce
  BY DEF Inv, EachSourceOnce, Coverages, Good, Distinct, FinalPass, Judged, AllCounted
<1> QED BY <1>1, Invariant, PTL

-----------------------------------------------------------------------------
\* What fits a declaration before the nth.
Before(c, n) == {o \in DOMAIN c.observed : \E j \in 1 .. (n - 1) : o \in Fitting(c, j)}

\* Each correlation so far is by what fits its declaration and none before it,
\* and a required one that is missing is counted.
AsDeclared(c) ==
  /\ \A i \in DOMAIN c.correlations :
       c.correlations[i] = Correlation(c.declared[i], Fitting(c, i) \ Before(c, i))
  /\ c.missingRequired = 0 <=>
       \A i \in DOMAIN c.correlations :
         c.declared[i].required => c.correlations[i].status = "matched"

\* The verdict is of the correlated coverage.
VerdictOf(r) ==
  LET c == r.coverage
  IN /\ AsDeclared(c)
     /\ c.unexpected = DOMAIN c.observed \ Before(c, Len(c.declared) + 1)
     /\ "coverage" \notin r.failed <=> Covered(c)

\* The gate has no verdict before its time, and then that of the loop.
VerdictInv ==
  /\ pc \notin {"checkpoint", "decide", "returned"} => "coverage" \notin report.failed
  /\ saved.stage = "observing" => "coverage" \notin saved.report.failed
  /\ pc = "correlate" =>
       /\ AsDeclared(report.coverage)
       /\ used = Before(report.coverage, Len(report.coverage.correlations) + 1)
  /\ pc \in {"checkpoint", "decide"} /\ Correlated(report.coverage) => VerdictOf(report)

\* Where no observation is disputed, that verdict is the order-free one.
LEMMA Exact ==
  ASSUME NEW r, Good(r), VerdictOf(r), Correlated(r.coverage), Undisputed(r.coverage)
  PROVE  "coverage" \notin r.failed <=> Complete(r.coverage)
<1> DEFINE c == r.coverage
           Fits(i) == Fitting(c, i)
<1>1. /\ DOMAIN c.declared = 1 .. Len(c.declared) /\ Len(c.declared) \in Nat
      /\ DOMAIN c.correlations = DOMAIN c.declared
  BY DEF Good, Shaped, Typed, CorrelationsOf, Correlated
<1>2. ASSUME NEW i \in DOMAIN c.declared
      PROVE  c.correlations[i].status = "matched" <=> \E o \in Fits(i) : Fits(i) = {o}
  <2>1. Fits(i) \cap Before(c, i) = {}
    BY <1>1 DEF Undisputed, Before
  <2>2. Fits(i) \ Before(c, i) = Fits(i)
    BY <2>1
  <2>3. c.correlations[i] = Correlation(c.declared[i], Fits(i))
    BY <1>1, <2>2 DEF VerdictOf, AsDeclared
  <2> QED BY <2>3 DEF Correlation
<1>3. c.unexpected = {} <=> \A o \in DOMAIN c.observed :
                              \E i \in DOMAIN c.declared : o \in Fits(i)
  <2>1. 1 .. (Len(c.declared) + 1 - 1) = DOMAIN c.declared
    BY <1>1
  <2> QED BY <2>1 DEF VerdictOf, Before
<1> QED BY <1>1, <1>2, <1>3 DEF VerdictOf, AsDeclared, Covered, Complete

\* The loop starts with nothing used and nothing missing.
LEMMA FreshVerdict ==
  ASSUME NEW c, Fresh(c)
  PROVE  AsDeclared(c) /\ Before(c, Len(c.correlations) + 1) = {}
<1>1. DOMAIN c.correlations = {} /\ Len(c.correlations) = 0 /\ c.missingRequired = 0
  BY DEF Fresh
<1> QED BY <1>1 DEF AsDeclared, Before

\* One turn of the loop: all that fits is used up.
LEMMA CorrelateVerdict == Inv /\ VerdictInv /\ CorrelateOne => VerdictInv'
<1> SUFFICES ASSUME Inv, VerdictInv, CorrelateOne PROVE VerdictInv'
  OBVIOUS
<1> DEFINE c == report.coverage
           n == Len(c.correlations) + 1
           e == c.declared[n]
           found == Candidates(c, e)
           k == Correlation(e, found)
           d == Counted(c, e, k)
           r == [report EXCEPT !.coverage = d]
<1>1. /\ saved' = saved /\ pc = "correlate" /\ pc' = "correlate"
      /\ "coverage" \notin report.failed
      /\ saved.stage = "observing" => "coverage" \notin saved.report.failed
      /\ n <= Len(c.declared) /\ report' = r /\ used' = used \cup found
      /\ AsDeclared(c) /\ used = Before(c, n)
  BY DEF CorrelateOne, VerdictInv
<1>2. /\ Good(report) /\ c = [f \in Fields |-> c[f]] /\ Typed(c)
      /\ c.correlations \in CorrelationsOf(c) /\ c.missingRequired \in Nat
  BY DEF Inv, Good, Shaped, Typed
<1>3. /\ d.declared = c.declared /\ d.observed = c.observed
      /\ d.correlations = Append(c.correlations, k)
      /\ d.missingRequired = IF k.status # "matched" /\ e.required
                             THEN c.missingRequired + 1 ELSE c.missingRequired
  <2>1. c = [f \in Fields |-> c[f]] /\ Typed(c)
    BY <1>2
  <2> HIDE DEF k, e
  <2> QED BY ONLY <2>1, CountedFacts
<1>4. found = Fitting(c, n) \ Before(c, n)
  BY <1>1 DEF Candidates, Fitting
<1> HIDE DEF found, d, r
<1>5. report'.coverage = d /\ report'.failed = report.failed
  BY <1>1, <1>2, Recovered DEF Good, Shaped, r
<1>6. /\ n \in Nat \ {0} /\ Len(d.correlations) = n
      /\ DOMAIN d.correlations = 1 .. n /\ DOMAIN c.correlations = 1 .. (n - 1)
      /\ d.correlations[n] = k
      /\ \A i \in 1 .. (n - 1) : d.correlations[i] = c.correlations[i]
  <2> DEFINE t == c.correlations
             S == [status : Statuses, observed : SUBSET DOMAIN c.observed]
  <2>1. t \in Seq(S)
    BY <1>2 DEF CorrelationsOf
  <2>2. k \in S
    BY <1>4 DEF Correlation, Statuses, Fitting
  <2> HIDE DEF S, t, k
  <2>3. /\ Len(t) \in Nat /\ DOMAIN t = 1 .. Len(t) /\ Len(Append(t, k)) = Len(t) + 1
        /\ DOMAIN Append(t, k) = 1 .. (Len(t) + 1) /\ Append(t, k)[Len(t) + 1] = k
        /\ \A i \in 1 .. Len(t) : Append(t, k)[i] = t[i]
    BY <2>1, <2>2
  <2> QED BY <1>3, <2>3 DEF t
<1>7. \A i : Fitting(d, i) = Fitting(c, i) /\ Before(d, i) = Before(c, i)
  BY <1>3 DEF Fitting, Before
<1> HIDE DEF n, k
<1>8. used' = Before(d, n + 1)
  <2>1. 1 .. (n + 1 - 1) = (1 .. (n - 1)) \cup {n}
    BY <1>6
  <2>2. Before(c, n + 1) = Before(c, n) \cup Fitting(c, n)
    BY <2>1 DEF Before, Fitting
  <2> QED BY <1>1, <1>4, <1>7, <2>2
<1>9. AsDeclared(d)
  <2>1. 1 .. n = (1 .. (n - 1)) \cup {n}
    BY <1>6
  <2>2. d.correlations[n] = Correlation(d.declared[n], Fitting(d, n) \ Before(d, n))
    BY <1>3, <1>4, <1>6, <1>7 DEF k
  <2>3. ASSUME NEW i \in 1 .. n
        PROVE  d.correlations[i] = Correlation(d.declared[i], Fitting(d, i) \ Before(d, i))
    BY <1>1, <1>3, <1>6, <1>7, <2>1, <2>2 DEF AsDeclared
  <2>4. d.missingRequired = 0 <=>
          c.missingRequired = 0 /\ (e.required => k.status = "matched")
    BY <1>2, <1>3
  <2>5. d.missingRequired = 0 <=>
          \A i \in 1 .. n : d.declared[i].required => d.correlations[i].status = "matched"
    BY <1>1, <1>3, <1>6, <2>1, <2>4 DEF AsDeclared
  <2> QED BY <1>6, <2>3, <2>5 DEF AsDeclared
<1> QED BY <1>1, <1>5, <1>6, <1>8, <1>9 DEF VerdictInv

\* The verdict.
LEMMA JudgeVerdict == Inv /\ VerdictInv /\ JudgeCoverage => VerdictInv'
<1> SUFFICES ASSUME Inv, VerdictInv, JudgeCoverage PROVE VerdictInv'
  OBVIOUS
<1> DEFINE c == report.coverage
           x == DOMAIN c.observed \ used
           d == [c EXCEPT !.unexpected = x]
           s == [report EXCEPT !.coverage = d]
<1>1. /\ saved' = saved /\ pc' = "checkpoint"
      /\ "coverage" \notin report.failed
      /\ saved.stage = "observing" => "coverage" \notin saved.report.failed
      /\ Len(c.correlations) = Len(c.declared)
      /\ report' = With(s, "coverage", Covered(d))
      /\ AsDeclared(c) /\ used = Before(c, Len(c.declared) + 1)
  BY DEF JudgeCoverage, VerdictInv
<1>2. Good(report) /\ c = [f \in Fields |-> c[f]]
  BY DEF Inv, Good, Shaped
<1> HIDE DEF x
<1>3. /\ d.declared = c.declared /\ d.observed = c.observed
      /\ d.correlations = c.correlations /\ d.missingRequired = c.missingRequired
      /\ d.unexpected = x
  BY <1>2 DEF Fields
<1> HIDE DEF d
<1>4. s.coverage = d /\ s.failed = report.failed
      /\ s = [f \in {"coverage", "failed"} |-> s[f]]
  BY <1>2, Recovered DEF Good, Shaped
<1> HIDE DEF s
<1>5. report'.coverage = d /\ ("coverage" \notin report'.failed <=> Covered(d))
  <2>1. CASE Covered(d)
    BY <1>1, <1>4, <2>1 DEF With
  <2>2. CASE ~Covered(d)
    <3>1. report' = [s EXCEPT !.failed = @ \cup {"coverage"}]
      BY <1>1, <2>2 DEF With
    <3>2. report'.coverage = d /\ "coverage" \in report'.failed
      BY <1>4, <3>1
    <3> QED BY <2>2, <3>2
  <2> QED BY <2>1, <2>2
<1>6. \A i : Fitting(d, i) = Fitting(c, i) /\ Before(d, i) = Before(c, i)
  BY <1>3 DEF Fitting, Before
<1>7. AsDeclared(d)
  BY <1>1, <1>3, <1>6 DEF AsDeclared
<1>8. d.unexpected = DOMAIN d.observed \ Before(d, Len(d.declared) + 1)
  BY <1>1, <1>3, <1>6 DEF x
<1> QED BY <1>1, <1>5, <1>7, <1>8 DEF VerdictInv, VerdictOf

\* A gate before the window leaves the coverage gate without a verdict.
LEMMA GateVerdict ==
  ASSUME Inv, VerdictInv, NEW r, NEW next, Checkpoint(r, next),
         "coverage" \notin r.failed, next \in {"links", "drift", "window", "finalize"}
  PROVE  VerdictInv'
BY CheckpointFacts DEF VerdictInv

\* With marks no gate but its own.
LEMMA Marked ==
  ASSUME NEW r, NEW gate, NEW passed \in BOOLEAN, Good(r),
         "coverage" \notin r.failed, gate # "coverage"
  PROVE  "coverage" \notin With(r, gate, passed).failed
<1>1. r = [f \in {"coverage", "failed"} |-> r[f]]
  BY DEF Good, Shaped
<1>2. CASE passed
  BY <1>2 DEF With
<1>3. CASE ~passed
  <2>1. With(r, gate, passed) = [r EXCEPT !.failed = @ \cup {gate}]
    BY <1>3 DEF With
  <2> QED BY <1>1, <2>1
<1> QED BY <1>2, <1>3

LEMMA LoadVerdict == Inv /\ VerdictInv /\ LoadExpectedChanges => VerdictInv'
<1> SUFFICES ASSUME Inv, VerdictInv, LoadExpectedChanges PROVE VerdictInv'
  OBVIOUS
<1> DEFINE bad == With(NewReport, "expected", FALSE)
           Loaded(document) == [NewReport EXCEPT !.coverage = EmptyCoverage(document.changes)]
<1>1. "coverage" \notin bad.failed
  <2>1. "coverage" \notin NewReport.failed
    BY DEF NewReport
  <2> QED BY <2>1, NewReportGood, Marked
<1>2. ASSUME NEW document PROVE "coverage" \notin Loaded(document).failed
  BY DEF NewReport
<1> HIDE DEF bad, Loaded
<1>3. ASSUME NEW document \in Documents, NEW r, r \in {bad, Loaded(document)},
             Checkpoint(r, IF Available(r) THEN "links" ELSE "drift")
      PROVE  VerdictInv'
  <2> DEFINE next == IF Available(r) THEN "links" ELSE "drift"
  <2>1. next \in {"links", "drift"} /\ Checkpoint(r, next) /\ "coverage" \notin r.failed
    BY <1>1, <1>2, <1>3
  <2> HIDE DEF next
  <2> QED BY <2>1, GateVerdict
<1>4. CASE Checkpoint(bad, "drift")
  BY <1>1, <1>4, GateVerdict
<1> QED BY <1>3, <1>4 DEF LoadExpectedChanges, bad, Loaded

LEMMA LinksVerdict == Inv /\ VerdictInv /\ ValidateLinks => VerdictInv'
<1> SUFFICES ASSUME Inv, VerdictInv, ValidateLinks PROVE VerdictInv'
  OBVIOUS
<1> DEFINE valid == LinksValid(plan, report.coverage.declared)
<1>1. valid \in BOOLEAN
  BY DEF LinksValid
<1>2. Good(report) /\ "coverage" \notin report.failed
  BY DEF Inv, VerdictInv, ValidateLinks
<1>3. Checkpoint(With(report, "links", valid), "drift")
  BY DEF ValidateLinks
<1> HIDE DEF valid
<1>4. "coverage" \notin With(report, "links", valid).failed
  BY <1>1, <1>2, Marked
<1> QED BY <1>3, <1>4, GateVerdict

LEMMA DriftVerdict == Inv /\ VerdictInv /\ DriftGate => VerdictInv'
<1> SUFFICES ASSUME Inv, VerdictInv, DriftGate PROVE VerdictInv'
  OBVIOUS
<1>1. Good(report) /\ "coverage" \notin report.failed
  BY DEF Inv, VerdictInv, DriftGate
<1>2. ASSUME NEW items PROVE DriftExpected(plan, items) \in BOOLEAN
  BY DEF DriftExpected
<1>3. PICK next \in {"window", "finalize"} :
        \/ \E c : Checkpoint([report EXCEPT !.coverage = c], next)
        \/ \E passed \in BOOLEAN : Checkpoint(With(report, "drift", passed), next)
        \/ Checkpoint(report, next)
  <2> DEFINE next == IF plan.observes THEN "window" ELSE "finalize"
  <2>1. next \in {"window", "finalize"}
    OBVIOUS
  <2>2. \/ \E items \in DriftFiles :
             Checkpoint([report EXCEPT !.coverage = Joined(@, "infrascout", InfraObserved(items))],
                        next)
        \/ \E items \in DriftFiles :
             Checkpoint(With(report, "drift", DriftExpected(plan, items)), next)
        \/ Checkpoint(With(report, "drift", FALSE), next)
        \/ Checkpoint(report, next)
    BY DEF DriftGate
  <2> HIDE DEF next
  <2> QED BY <1>2, <2>1, <2>2
<1>4. ASSUME NEW c, Checkpoint([report EXCEPT !.coverage = c], next) PROVE VerdictInv'
  <2>1. [report EXCEPT !.coverage = c].failed = report.failed
    BY <1>1, Recovered DEF Good, Shaped
  <2> QED BY <1>1, <1>4, <2>1, GateVerdict
<1>5. ASSUME NEW passed \in BOOLEAN, Checkpoint(With(report, "drift", passed), next)
      PROVE  VerdictInv'
  BY <1>1, <1>5, Marked, GateVerdict
<1>6. CASE Checkpoint(report, next)
  BY <1>1, <1>6, GateVerdict
<1> QED BY <1>3, <1>4, <1>5, <1>6

LEMMA WindowVerdict == Inv /\ VerdictInv /\ Window => VerdictInv'
<1> SUFFICES ASSUME Inv, VerdictInv, Window PROVE VerdictInv'
  OBVIOUS
<1>1. Good(report) /\ "coverage" \notin report.failed
  BY DEF Inv, VerdictInv, Window
<1>2. "coverage" \notin With(report, "window", FALSE).failed
  BY <1>1, Marked
<1> DEFINE bad == With(report, "window", FALSE)
<1>3. /\ pc' = "finalize" \/ pc' = "returned"
      /\ report' = report \/ report' = bad
      /\ saved' = saved \/ saved' = [stage |-> "observing", report |-> report]
  <2> HIDE DEF bad
  <2> QED BY DEF Window, bad
<1>4. "coverage" \notin report'.failed
  BY <1>1, <1>2, <1>3
<1>5. saved'.stage = "observing" => "coverage" \notin saved'.report.failed
  BY <1>1, <1>3 DEF VerdictInv
<1> QED BY <1>3, <1>4, <1>5 DEF VerdictInv

LEMMA FinalizeVerdict == Inv /\ VerdictInv /\ Finalize => VerdictInv'
<1> SUFFICES ASSUME Inv, VerdictInv, Finalize PROVE VerdictInv'
  OBVIOUS
<1>1. /\ Good(report) /\ "coverage" \notin report.failed /\ Fresh(report.coverage)
      /\ saved' = saved /\ used' = {}
      /\ saved.stage = "observing" => "coverage" \notin saved.report.failed
  BY DEF Inv, VerdictInv, Finalize
<1>2. ASSUME NEW c, c = [f \in Fields |-> c[f]],
             report' = [report EXCEPT !.coverage = Uncorrelated(c)], pc' = "correlate"
      PROVE  VerdictInv'
  <2>1. report'.coverage = Uncorrelated(c) /\ report'.failed = report.failed
    BY <1>1, <1>2, Recovered DEF Good, Shaped
  <2>2. Fresh(report'.coverage)
    BY <1>2, <2>1, UncorrelatedFacts
  <2> QED BY <1>1, <1>2, <2>1, <2>2, FreshVerdict DEF VerdictInv
<1>3. ASSUME report'.coverage = report.coverage, pc' \in {"checkpoint", "decide"}
      PROVE  VerdictInv'
  <2>1. ~Correlated(report.coverage)
    <3>1. report.coverage.declared \in Seq(Declarations) /\ report.coverage.correlations = <<>>
      BY <1>1 DEF Good, Shaped, Fresh
    <3> QED BY <3>1 DEF Correlated
  <2>2. ~Correlated(report.coverage)'
    BY <1>3, <2>1 DEF Correlated
  <2> QED BY <1>1, <1>3, <2>2 DEF VerdictInv
<1>4. report.coverage = [f \in Fields |-> report.coverage[f]]
  BY <1>1 DEF Good, Shaped
<1>5. ASSUME NEW answer
      PROVE  LET j == Joined(report.coverage, "fleetscope", FleetObserved(plan, answer))
             IN j = [f \in Fields |-> j[f]]
  BY <1>1, JoinedFacts
<1>6. With(report, "coverage", FALSE).coverage = report.coverage
  BY <1>1, WithFacts
<1> QED BY <1>2, <1>3, <1>4, <1>5, <1>6 DEF Finalize

LEMMA OtherVerdict ==
  Inv /\ VerdictInv /\ (CoverageCheckpoint \/ Decide \/ Crash \/ Invoke \/ UNCHANGED vars)
    => VerdictInv'
<1> SUFFICES ASSUME Inv, VerdictInv PROVE
      CoverageCheckpoint \/ Decide \/ Crash \/ Invoke \/ UNCHANGED vars => VerdictInv'
  OBVIOUS
<1>1. CASE CoverageCheckpoint
  <2>1. pc = "checkpoint" /\ pc' \in {"decide", "returned"} /\ UNCHANGED <<report, saved>>
    BY <1>1, CheckpointFacts DEF CoverageCheckpoint
  <2> QED BY <2>1 DEF VerdictInv
<1>2. CASE Decide \/ Crash
  BY <1>2 DEF Decide, Crash, VerdictInv
<1>3. CASE Invoke
  BY <1>3 DEF Invoke, VerdictInv, NewReport
<1>4. CASE UNCHANGED vars
  BY <1>4 DEF vars, VerdictInv
<1> QED BY <1>1, <1>2, <1>3, <1>4

\* Where declarations do not compete, the order of the declarations and of the
\* observations does not matter: the coverage gate passes a release only if each
\* required change happened once and nothing undeclared did, and then fails it
\* for an ambiguous declaration at most.
THEOREM ExactVerdict == Spec => []VerdictIsExact
<1>1. Init => VerdictInv
  BY DEF Init, VerdictInv, NewReport
<1>2. Inv /\ VerdictInv /\ [Next]_vars => VerdictInv'
  BY LoadVerdict, LinksVerdict, DriftVerdict, WindowVerdict, FinalizeVerdict,
     CorrelateVerdict, JudgeVerdict, OtherVerdict DEF Next
<1>3. Inv /\ VerdictInv => VerdictIsExact
  BY Exact DEF Inv, VerdictInv, VerdictIsExact
<1> QED BY <1>1, <1>2, <1>3, Invariant, PTL DEF Spec
=============================================================================
