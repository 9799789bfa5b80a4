---------------------------- MODULE DeliveryProofs ----------------------------
(***************************************************************************)
(* Proofs about Delivery, for every candidate, history and repository.     *)
(* The heart is the scan: what it holds for a check or a criterion is at   *)
(* least as recent as all that it has seen of it, failures first.          *)
(***************************************************************************)
EXTENDS Delivery, FiniteSetTheorems, TLAPS

Results == {"none", "pass", "fail", "skipped", "malformed", "rejected", "unreadable"}

\* e counts rather than f: later, or at the same time and no better.
NoOlder(e, f) ==
  e.at > f.at \/ (e.at = f.at /\ (f.status # "passed" => e.status # "passed"))

NoOlderCheck(e, f) ==
  \/ Attempt(e) > Attempt(f)
  \/ Attempt(e) = Attempt(f) /\ NoOlder(e, f)

SameCriterion(e, f) == e.criterion = f.criterion

\* What is held of the machine checks among the first n evidences.
HoldsMachine(ev, held, n) ==
  /\ held \subseteq 1..n
  /\ \A i \in held : ev[i].machine
  /\ \A i, j \in held : SameCheck(ev[i], ev[j]) => i = j
  /\ \A j \in 1..n : ev[j].machine =>
       \E i \in held : SameCheck(ev[i], ev[j]) /\ NoOlderCheck(ev[i], ev[j])

\* What is held of the criteria.
HoldsLatest(ev, held, n) ==
  /\ held \subseteq 1..n
  /\ \A i \in held : ev[i].criterion # None
  /\ \A i, j \in held : ev[i].criterion = ev[j].criterion => i = j
  /\ \A j \in 1..n : ev[j].criterion # None =>
       \E i \in held : ev[i].criterion = ev[j].criterion /\ NoOlder(ev[i], ev[j])

TypedEvidence(ev) ==
  /\ Len(ev) \in Nat /\ DOMAIN ev = 1..Len(ev)
  /\ \A i \in DOMAIN ev : ev[i].at \in Nat /\ ev[i].attempt \in Nat

\* A sound judgement of all of the evidence.
CandidateInv ==
  /\ pc \in {"candidate", "scan"} => verdict["candidate"] = "none"
  /\ verdict["candidate"] \in {"pass", "rejected"} =>
       /\ next = Len(document.evidence) + 1
       /\ None \notin Ids(document.criteria)
       /\ verdict["candidate"] = "pass" => EvidenceSuffices
       /\ verdict["candidate"] = "rejected" => ~EvidenceSuffices
  /\ pc = "scan" => None \notin Ids(document.criteria)
  /\ \A j \in 1..(next - 1) :
       document.evidence[j].criterion \in {None} \cup Ids(document.criteria)

Settled == moves = 0 => manifest.base = refs[plan.base]

\* The gate accepts some lines that git diff may leave of the two commits.
Accepts(expected, base, target) ==
  /\ {base, target} \subseteq DOMAIN TreeOf
  /\ \E paths \in Listings(base, target) :
       \E names \in LinesLeft(paths) :
         \A n \in names : Sensitive(n) => MatchesAnyPath(expected, n)

\* How far the git commands have come, and what they have read.
GitInv ==
  /\ manifest = [f \in {"base", "target", "clean"} |-> manifest[f]]
  /\ pc \in {"candidate", "scan", "base", "target", "ancestry", "status", "diff"} =>
       verdict["git"] = "none"
  /\ pc = "target" => Settled
  /\ pc \in {"ancestry", "status", "diff"} =>
       Settled /\ (moves = 0 => manifest.target = refs[plan.target])
  /\ pc \in {"status", "diff"} => manifest.base \in AncestorsOf[manifest.target]
  /\ verdict["git"] = "pass" =>
       /\ manifest.base \in AncestorsOf[manifest.target]
       /\ moves = 0 => Accepts(plan.expected, manifest.base, manifest.target)

ProvenanceInv ==
  /\ pc # "done" => verdict["provenance"] = "none"
  /\ verdict["provenance"] = "pass" => TargetProven /\ SourcesCovered

Inv ==
  /\ plan \in Plans
  /\ document \in Documents
  /\ pc \in {"candidate", "scan", "base", "target", "ancestry", "status", "diff",
             "provenance", "done"}
  /\ next \in 1..(Len(document.evidence) + 1)
  /\ moves \in 0..MaxMoves
  /\ refs \in Histories
  /\ verdict \in [Gates -> Results]
  /\ HoldsMachine(document.evidence, machine, next - 1)
  /\ HoldsLatest(document.evidence, latest, next - 1)
  /\ CandidateInv
  /\ GitInv
  /\ ProvenanceInv

-----------------------------------------------------------------------------
(* The two relations.                                                      *)

LEMMA SameCheckEquivalence ==
  /\ \A e : SameCheck(e, e)
  /\ \A e, f : SameCheck(e, f) => SameCheck(f, e)
  /\ \A e, f, g : SameCheck(e, f) /\ SameCheck(f, g) => SameCheck(e, g)
BY DEF SameCheck

\* What replaces a held evidence counts rather than all that one did; what
\* does not replace it does not.
LEMMA NewerFacts ==
  ASSUME NEW e, NEW f, NEW g,
         e.at \in Nat, f.at \in Nat, g.at \in Nat,
         e.attempt \in Nat, f.attempt \in Nat, g.attempt \in Nat
  PROVE  /\ NoOlderCheck(e, e)
         /\ Newer(e, f) => NoOlderCheck(e, f)
         /\ ~Newer(e, f) => NoOlderCheck(f, e)
         /\ NoOlderCheck(e, f) /\ NoOlderCheck(f, g) => NoOlderCheck(e, g)
<1>1. Attempt(e) \in Nat /\ Attempt(f) \in Nat /\ Attempt(g) \in Nat
  BY DEF Attempt
<1> QED BY <1>1 DEF Newer, NoOlderCheck, NoOlder

LEMMA CriterionNewerFacts ==
  ASSUME NEW e, NEW f, NEW g, e.at \in Nat, f.at \in Nat, g.at \in Nat
  PROVE  /\ NoOlder(e, e)
         /\ CriterionNewer(e, f) => NoOlder(e, f)
         /\ ~CriterionNewer(e, f) => NoOlder(f, e)
         /\ NoOlder(e, f) /\ NoOlder(f, g) => NoOlder(e, g)
BY DEF CriterionNewer, NoOlder

-----------------------------------------------------------------------------
(* The scan.                                                               *)

LEMMA MachineStep ==
  ASSUME NEW i \in Nat, i \in 1..Len(document.evidence), TypedEvidence(document.evidence),
         HoldsMachine(document.evidence, machine, i - 1)
  PROVE  HoldsMachine(document.evidence, MachineWith(i), i)
<1> DEFINE ev == document.evidence
           rivals == {j \in machine : SameCheck(ev[j], ev[i])}
           held == MachineWith(i)
<1>1. /\ \A j \in 1..i : ev[j].at \in Nat /\ ev[j].attempt \in Nat
      /\ machine \subseteq 1..(i - 1) /\ i \notin machine
      /\ 1..i = (1..(i - 1)) \cup {i}
  BY DEF TypedEvidence, HoldsMachine
<1>2. CASE ev[i].machine /\ \A j \in rivals : Newer(ev[i], ev[j])
  <2>1. held = (machine \ rivals) \cup {i}
    BY <1>2 DEF MachineWith, Held, Evidence
  <2> HIDE DEF held
  <2>2. ASSUME NEW j \in held, NEW k \in held, SameCheck(ev[j], ev[k])
        PROVE  j = k
    BY <1>1, <2>1, <2>2, SameCheckEquivalence DEF HoldsMachine
  <2>3. ASSUME NEW j \in 1..i, ev[j].machine
        PROVE  \E k \in held : SameCheck(ev[k], ev[j]) /\ NoOlderCheck(ev[k], ev[j])
    <3>1. CASE j = i
      <4>1. SameCheck(ev[i], ev[i]) /\ NoOlderCheck(ev[i], ev[i])
        BY <1>1, <2>3, <3>1, SameCheckEquivalence, NewerFacts
      <4> QED BY <2>1, <3>1, <4>1
    <3>2. CASE j \in 1..(i - 1)
      <4>1. PICK k \in machine : SameCheck(ev[k], ev[j]) /\ NoOlderCheck(ev[k], ev[j])
        BY <2>3, <3>2 DEF HoldsMachine
      <4>2. CASE k \notin rivals
        BY <2>1, <4>1, <4>2
      <4>3. CASE k \in rivals
        <5>1. SameCheck(ev[k], ev[i]) /\ Newer(ev[i], ev[k])
          BY <1>2, <4>3
        <5>2. SameCheck(ev[i], ev[j])
          BY <4>1, <5>1, SameCheckEquivalence
        <5>3. k \in 1..i /\ i \in 1..i
          BY <1>1
        <5>4. NoOlderCheck(ev[i], ev[k])
          BY <1>1, <5>1, <5>3, NewerFacts
        <5>5. NoOlderCheck(ev[i], ev[j])
          <6>1. /\ ev[i].at \in Nat /\ ev[j].at \in Nat /\ ev[k].at \in Nat
                /\ ev[i].attempt \in Nat /\ ev[j].attempt \in Nat
                /\ ev[k].attempt \in Nat
            BY <1>1, <2>3, <5>3
          <6> HIDE DEF ev
          <6> QED BY <4>1, <5>4, <6>1, NewerFacts
        <5> QED BY <2>1, <5>2, <5>5
      <4> QED BY <4>2, <4>3
    <3> QED BY <1>1, <3>1, <3>2
  <2>4. held \subseteq 1..i /\ \A j \in held : ev[j].machine
    BY <1>1, <1>2, <2>1 DEF HoldsMachine
  <2> QED BY <2>2, <2>3, <2>4 DEF HoldsMachine, held
<1>3. CASE ~(ev[i].machine /\ \A j \in rivals : Newer(ev[i], ev[j]))
  <2>1. held = machine
    BY <1>3 DEF MachineWith, Evidence
  <2> HIDE DEF held
  <2>2. ASSUME ev[i].machine
        PROVE  \E k \in held : SameCheck(ev[k], ev[i]) /\ NoOlderCheck(ev[k], ev[i])
    <3>1. PICK k \in rivals : ~Newer(ev[i], ev[k])
      BY <1>3, <2>2
    <3>2. k \in 1..i /\ i \in 1..i
      BY <1>1
    <3>3. NoOlderCheck(ev[k], ev[i])
      BY <1>1, <3>1, <3>2, NewerFacts
    <3> QED BY <2>1, <3>1, <3>3
  <2>3. held \subseteq 1..i
    BY <1>1, <2>1
  <2>4. \A j \in 1..i : ev[j].machine =>
          \E k \in held : SameCheck(ev[k], ev[j]) /\ NoOlderCheck(ev[k], ev[j])
    BY <1>1, <2>1, <2>2 DEF HoldsMachine
  <2> QED BY <2>1, <2>3, <2>4 DEF HoldsMachine, held
<1> QED BY <1>2, <1>3

LEMMA LatestStep ==
  ASSUME NEW i \in Nat, i \in 1..Len(document.evidence), TypedEvidence(document.evidence),
         HoldsLatest(document.evidence, latest, i - 1)
  PROVE  HoldsLatest(document.evidence, LatestWith(i), i)
<1> DEFINE ev == document.evidence
           rivals == {j \in latest : ev[j].criterion = ev[i].criterion}
           held == LatestWith(i)
<1>1. /\ \A j \in 1..i : ev[j].at \in Nat
      /\ latest \subseteq 1..(i - 1) /\ i \notin latest
      /\ 1..i = (1..(i - 1)) \cup {i}
  BY DEF TypedEvidence, HoldsLatest
<1>2. CASE ev[i].criterion # None /\ \A j \in rivals : CriterionNewer(ev[i], ev[j])
  <2>1. held = (latest \ rivals) \cup {i}
    BY <1>2 DEF LatestWith, Held, Evidence
  <2> HIDE DEF held
  <2>2. ASSUME NEW j \in held, NEW k \in held, ev[j].criterion = ev[k].criterion
        PROVE  j = k
    BY <1>1, <2>1, <2>2 DEF HoldsLatest
  <2>3. ASSUME NEW j \in 1..i, ev[j].criterion # None
        PROVE  \E k \in held : ev[k].criterion = ev[j].criterion /\ NoOlder(ev[k], ev[j])
    <3>1. CASE j = i
      <4>1. NoOlder(ev[i], ev[i])
        BY <1>1, <2>3, <3>1, CriterionNewerFacts
      <4> QED BY <2>1, <3>1, <4>1
    <3>2. CASE j \in 1..(i - 1)
      <4>1. PICK k \in latest : ev[k].criterion = ev[j].criterion /\ NoOlder(ev[k], ev[j])
        BY <2>3, <3>2 DEF HoldsLatest
      <4>2. CASE k \notin rivals
        BY <2>1, <4>1, <4>2
      <4>3. CASE k \in rivals
        <5>1. ev[i].criterion = ev[j].criterion /\ CriterionNewer(ev[i], ev[k])
          BY <1>2, <4>1, <4>3
        <5>2. k \in 1..i /\ i \in 1..i
          BY <1>1
        <5>3. NoOlder(ev[i], ev[k])
          BY <1>1, <5>1, <5>2, CriterionNewerFacts
        <5>4. NoOlder(ev[i], ev[j])
          BY <1>1, <2>3, <4>1, <5>2, <5>3, CriterionNewerFacts
        <5> QED BY <2>1, <5>1, <5>4
      <4> QED BY <4>2, <4>3
    <3> QED BY <1>1, <3>1, <3>2
  <2>4. held \subseteq 1..i /\ \A j \in held : ev[j].criterion # None
    BY <1>1, <1>2, <2>1 DEF HoldsLatest
  <2> QED BY <2>2, <2>3, <2>4 DEF HoldsLatest, held
<1>3. CASE ~(ev[i].criterion # None /\ \A j \in rivals : CriterionNewer(ev[i], ev[j]))
  <2>1. held = latest
    BY <1>3 DEF LatestWith, Evidence
  <2> HIDE DEF held
  <2>2. ASSUME ev[i].criterion # None
        PROVE  \E k \in held : ev[k].criterion = ev[i].criterion /\ NoOlder(ev[k], ev[i])
    <3>1. PICK k \in rivals : ~CriterionNewer(ev[i], ev[k])
      BY <1>3, <2>2
    <3>2. k \in 1..i /\ i \in 1..i
      BY <1>1
    <3>3. NoOlder(ev[k], ev[i])
      BY <1>1, <3>1, <3>2, CriterionNewerFacts
    <3> QED BY <2>1, <3>1, <3>3
  <2>3. held \subseteq 1..i
    BY <1>1, <2>1
  <2>4. \A j \in 1..i : ev[j].criterion # None =>
          \E k \in held : ev[k].criterion = ev[j].criterion /\ NoOlder(ev[k], ev[j])
    BY <1>1, <2>1, <2>2 DEF HoldsLatest
  <2> QED BY <2>1, <2>3, <2>4 DEF HoldsLatest, held
<1> QED BY <1>2, <1>3

-----------------------------------------------------------------------------
(* The steps.                                                              *)

LEMMA Typing == ASSUME document \in Documents PROVE TypedEvidence(document.evidence)
BY DocumentsAssumption DEF TypedEvidence

LEMMA JudgedFacts ==
  ASSUME NEW gate \in Gates, NEW result \in Results, NEW then,
         verdict \in [Gates -> Results], Judged(gate, result, then)
  PROVE  /\ pc' = then
         /\ verdict' \in [Gates -> Results]
         /\ verdict'[gate] = result
         /\ \A g \in Gates \ {gate} : verdict'[g] = verdict[g]
BY DEF Judged

\* What the candidate's part and the scan say depends on these alone.
LEMMA CandidateKept ==
  ASSUME Inv, UNCHANGED <<document, now, next, latest, machine>>,
         verdict'["candidate"] = verdict["candidate"],
         pc' \notin {"candidate", "scan"}
  PROVE  /\ document' \in Documents
         /\ next' \in 1..(Len(document'.evidence) + 1)
         /\ HoldsMachine(document'.evidence, machine', next' - 1)
         /\ HoldsLatest(document'.evidence, latest', next' - 1)
         /\ CandidateInv'
<1>1. EvidenceSuffices' = EvidenceSuffices
  BY DEF EvidenceSuffices, CriterionSound, CheckSound, Sound, SourceMatches,
         EvidenceFresh, Evidence
<1>2. document' = document /\ next' = next /\ latest' = latest /\ machine' = machine
  OBVIOUS
<1>3. CandidateInv'
  BY <1>1, <1>2 DEF Inv, CandidateInv
<1> QED BY <1>2, <1>3 DEF Inv

LEMMA InitInv == Init => Inv
<1> SUFFICES ASSUME Init PROVE Inv
  OBVIOUS
<1>1. plan \in Plans /\ document \in Documents /\ TypedEvidence(document.evidence)
  BY Typing DEF Init
<1>2. next \in 1..(Len(document.evidence) + 1) /\ 1..(next - 1) = {}
  BY <1>1 DEF Init, TypedEvidence
<1>3. verdict \in [Gates -> Results] /\ \A g \in Gates : verdict[g] = "none"
  BY DEF Init, Results
<1>4. CandidateInv /\ ProvenanceInv
  BY <1>2, <1>3 DEF Init, CandidateInv, ProvenanceInv, Gates
<1>5. manifest = [f \in {"base", "target", "clean"} |-> manifest[f]]
  BY DEF Init, NoManifest
<1>6. GitInv
  BY <1>3, <1>5 DEF Init, GitInv, Gates
<1>7. /\ HoldsMachine(document.evidence, machine, next - 1)
      /\ HoldsLatest(document.evidence, latest, next - 1)
  BY <1>2 DEF Init, HoldsMachine, HoldsLatest
<1>8. moves \in 0..MaxMoves /\ refs \in Histories /\ pc = "candidate"
  BY DatesAssumption DEF Init
<1> QED BY <1>1, <1>2, <1>3, <1>4, <1>6, <1>7, <1>8 DEF Inv

LEMMA LoadInv == Inv /\ LoadCandidate => Inv'
<1> SUFFICES ASSUME Inv, LoadCandidate PROVE Inv'
  OBVIOUS
<1>1. /\ UNCHANGED <<plan, document, now, refs, moves, next, latest, machine, manifest>>
      /\ pc = "candidate" /\ verdict \in [Gates -> Results]
      /\ verdict["candidate"] = "none" /\ verdict["git"] = "none"
      /\ verdict["provenance"] = "none"
  BY DEF Inv, LoadCandidate, CandidateInv, GitInv, ProvenanceInv
<1>2. ASSUME NEW r \in {"malformed", "unreadable"}, Judged("candidate", r, "base")
      PROVE  /\ pc' = "base" /\ verdict' \in [Gates -> Results]
             /\ verdict'["candidate"] = r
             /\ verdict'["git"] = "none" /\ verdict'["provenance"] = "none"
  BY <1>1, <1>2, JudgedFacts DEF Gates, Results
<1>3. \/ pc' = "scan" /\ WellFormed(document) /\ verdict' = verdict
      \/ /\ pc' = "base" /\ verdict' \in [Gates -> Results]
         /\ verdict'["candidate"] \in {"malformed", "unreadable"}
         /\ verdict'["git"] = "none" /\ verdict'["provenance"] = "none"
  BY <1>2 DEF LoadCandidate
<1>4. CandidateInv'
  BY <1>1, <1>3 DEF Inv, CandidateInv, WellFormed
<1>5. GitInv'
  BY <1>1, <1>3 DEF Inv, GitInv
<1>6. ProvenanceInv'
  BY <1>1, <1>3 DEF ProvenanceInv
<1>7. verdict' \in [Gates -> Results]
  BY <1>1, <1>3
<1> QED BY <1>1, <1>3, <1>4, <1>5, <1>6, <1>7 DEF Inv

LEMMA ScanInv == Inv /\ ScanEvidence => Inv'
<1> SUFFICES ASSUME Inv, ScanEvidence PROVE Inv'
  OBVIOUS
<1>1. /\ UNCHANGED <<plan, document, now, refs, moves, manifest>>
      /\ pc = "scan" /\ verdict \in [Gates -> Results]
      /\ verdict["candidate"] = "none" /\ verdict["git"] = "none"
      /\ verdict["provenance"] = "none"
      /\ next \in 1..Len(document.evidence)
      /\ TypedEvidence(document.evidence)
  BY Typing DEF Inv, ScanEvidence, CandidateInv, GitInv, ProvenanceInv, TypedEvidence
<1>2. CASE /\ Acceptable(next)
           /\ latest' = LatestWith(next) /\ machine' = MachineWith(next)
           /\ next' = next + 1 /\ UNCHANGED <<pc, verdict>>
  <2>1. next \in Nat /\ next' \in 1..(Len(document.evidence) + 1) /\ next' - 1 = next
    BY <1>1, <1>2 DEF TypedEvidence
  <2>2. HoldsMachine(document.evidence, machine', next)
    BY <1>1, <1>2, <2>1, MachineStep DEF Inv
  <2>3. HoldsLatest(document.evidence, latest', next)
    BY <1>1, <1>2, <2>1, LatestStep DEF Inv
  <2>4. GitInv' /\ ProvenanceInv'
    BY <1>1, <1>2 DEF Inv, GitInv, ProvenanceInv, Settled
  <2>5. \A j \in 1..next :
          document.evidence[j].criterion \in {None} \cup Ids(document.criteria)
    <3>1. document.evidence[next].criterion \in {None} \cup Ids(document.criteria)
      BY <1>2 DEF Acceptable, Evidence
    <3>2. \A j \in 1..next : j = next \/ j \in 1..(next - 1)
      BY <1>1, <2>1
    <3> QED BY <3>1, <3>2 DEF Inv, CandidateInv
  <2>6. CandidateInv'
    BY <1>1, <1>2, <2>1, <2>5 DEF Inv, CandidateInv
  <2> QED BY <1>1, <1>2, <2>1, <2>2, <2>3, <2>4, <2>6 DEF Inv
<1>3. CASE Judged("candidate", "malformed", "base") /\ UNCHANGED <<next, latest, machine>>
  <2>1. /\ pc' = "base" /\ verdict' \in [Gates -> Results]
        /\ verdict'["candidate"] = "malformed"
        /\ verdict'["git"] = "none" /\ verdict'["provenance"] = "none"
    BY <1>1, <1>3, JudgedFacts DEF Gates, Results
  <2>2. CandidateInv' /\ ProvenanceInv'
    BY <1>1, <1>3, <2>1 DEF Inv, CandidateInv, ProvenanceInv
  <2>3. GitInv'
    BY <1>1, <2>1 DEF Inv, GitInv
  <2> QED BY <1>1, <1>3, <2>1, <2>2, <2>3 DEF Inv
<1> QED BY <1>2, <1>3 DEF ScanEvidence

LEMMA JudgeInv == Inv /\ JudgeCandidate => Inv'
<1> SUFFICES ASSUME Inv, JudgeCandidate PROVE Inv'
  OBVIOUS
<1> DEFINE r == IF EvidenceSuffices THEN "pass" ELSE "rejected"
<1>1. /\ UNCHANGED <<plan, document, now, refs, moves, next, latest, machine, manifest>>
      /\ pc = "scan" /\ verdict \in [Gates -> Results]
      /\ verdict["git"] = "none" /\ verdict["provenance"] = "none"
      /\ next > Len(document.evidence)
      /\ None \notin Ids(document.criteria)
      /\ Judged("candidate", r, "base")
  BY DEF Inv, JudgeCandidate, CandidateInv, GitInv, ProvenanceInv
<1>0. next = Len(document.evidence) + 1
  BY <1>1, Typing DEF Inv, TypedEvidence
<1>2. EvidenceSuffices' = EvidenceSuffices
  BY <1>1 DEF EvidenceSuffices, CriterionSound, CheckSound, Sound, SourceMatches,
              EvidenceFresh, Evidence
<1>3. r \in {"pass", "rejected"} /\ r \in Results
      /\ (r = "pass" => EvidenceSuffices) /\ (r = "rejected" => ~EvidenceSuffices)
  BY DEF Results
<1> HIDE DEF r
<1>4. /\ pc' = "base" /\ verdict' \in [Gates -> Results]
      /\ verdict'["candidate"] = r
      /\ verdict'["git"] = "none" /\ verdict'["provenance"] = "none"
  BY <1>1, <1>3, JudgedFacts DEF Gates
<1>5. CandidateInv'
  BY <1>0, <1>1, <1>2, <1>3, <1>4 DEF Inv, CandidateInv
<1>6. ProvenanceInv'
  BY <1>1, <1>4 DEF ProvenanceInv
<1>7. GitInv'
  BY <1>1, <1>4 DEF Inv, GitInv
<1> QED BY <1>1, <1>4, <1>5, <1>6, <1>7 DEF Inv

\* A git step that keeps GitInv keeps Inv.
LEMMA GitKeeps ==
  ASSUME Inv,
         UNCHANGED <<plan, document, now, refs, moves, next, latest, machine>>,
         pc \in {"base", "target", "ancestry", "status", "diff"},
         pc' \in {"target", "ancestry", "status", "diff", "provenance"},
         verdict' \in [Gates -> Results],
         \A g \in Gates \ {"git"} : verdict'[g] = verdict[g],
         GitInv'
  PROVE  Inv'
<1>1. verdict'["candidate"] = verdict["candidate"]
      /\ verdict'["provenance"] = verdict["provenance"]
  BY DEF Gates
<1>2. ProvenanceInv'
  BY <1>1 DEF Inv, ProvenanceInv
<1>3. /\ document' \in Documents
      /\ next' \in 1..(Len(document'.evidence) + 1)
      /\ HoldsMachine(document'.evidence, machine', next' - 1)
      /\ HoldsLatest(document'.evidence, latest', next' - 1)
      /\ CandidateInv'
  BY <1>1, CandidateKept
<1>4. moves' \in 0..MaxMoves /\ refs' \in Histories
  BY DEF Inv
<1> QED BY <1>2, <1>3, <1>4 DEF Inv

LEMMA GitFailsInv ==
  ASSUME Inv, GitFails,
         UNCHANGED <<plan, document, now, refs, moves, next, latest, machine>>,
         pc \in {"base", "target", "ancestry", "status", "diff"}
  PROVE  Inv'
<1>1. /\ pc' = "provenance" /\ verdict' \in [Gates -> Results]
      /\ verdict'["git"] = "fail" /\ manifest' = manifest
      /\ \A g \in Gates \ {"git"} : verdict'[g] = verdict[g]
  BY JudgedFacts DEF Inv, GitFails, Gates, Results
<1>2. GitInv'
  BY <1>1 DEF Inv, GitInv
<1> QED BY <1>1, <1>2, GitKeeps

\* What EXCEPT does to a manifest.
LEMMA ManifestFacts ==
  ASSUME NEW m, m = [f \in {"base", "target", "clean"} |-> m[f]], NEW v
  PROVE  LET Kept(n, g) == /\ n = [f \in {"base", "target", "clean"} |-> n[f]]
                           /\ n[g] = v
                           /\ \A f \in {"base", "target", "clean"} \ {g} :
                                n[f] = m[f]
         IN /\ Kept([m EXCEPT !.base = v], "base")
            /\ Kept([m EXCEPT !.target = v], "target")
            /\ Kept([m EXCEPT !.clean = v], "clean")
OBVIOUS

LEMMA GitStepInv ==
  Inv /\ (ResolveBase \/ ResolveTarget \/ CheckAncestry \/ ReadStatus \/ ReadDiff) => Inv'
<1> SUFFICES ASSUME Inv,
                    ResolveBase \/ ResolveTarget \/ CheckAncestry \/ ReadStatus \/ ReadDiff
             PROVE  Inv'
  OBVIOUS
<1> DEFINE F == {"base", "target", "clean"}
<1>1. /\ UNCHANGED <<plan, document, now, refs, moves, next, latest, machine>>
      /\ pc \in {"base", "target", "ancestry", "status", "diff"}
      /\ verdict \in [Gates -> Results] /\ verdict["git"] = "none"
      /\ manifest = [f \in F |-> manifest[f]]
  BY DEF Inv, GitInv, GitStep, ResolveBase, ResolveTarget, CheckAncestry, ReadStatus, ReadDiff
<1>2. CASE GitFails
  BY <1>1, <1>2, GitFailsInv
<1>3. ASSUME GoOn(pc'), pc' \in {"target", "ancestry", "status", "diff"}, GitInv'
      PROVE  Inv'
  BY <1>1, <1>3, GitKeeps DEF GoOn
<1>4. CASE pc = "base" /\ manifest' = [manifest EXCEPT !.base = refs[plan.base]] /\ GoOn("target")
  <2>1. /\ pc' = "target" /\ verdict' = verdict
        /\ manifest' = [f \in F |-> manifest'[f]]
        /\ manifest'.base = refs[plan.base]
    BY <1>1, <1>4, ManifestFacts DEF GoOn
  <2>2. GitInv'
    BY <1>1, <2>1 DEF GitInv, Settled
  <2> QED BY <1>3, <1>4, <2>1, <2>2
<1>5. CASE pc = "target" /\ manifest' = [manifest EXCEPT !.target = refs[plan.target]]
             /\ GoOn("ancestry")
  <2>1. /\ pc' = "ancestry" /\ verdict' = verdict
        /\ manifest' = [f \in F |-> manifest'[f]]
        /\ manifest'.target = refs[plan.target] /\ manifest'.base = manifest.base
    BY <1>1, <1>5, ManifestFacts DEF GoOn
  <2>2. GitInv'
    BY <1>1, <1>5, <2>1 DEF Inv, GitInv, Settled
  <2> QED BY <1>3, <1>5, <2>1, <2>2
<1>6. CASE pc = "ancestry" /\ manifest.base \in AncestorsOf[manifest.target]
             /\ GoOn("status") /\ UNCHANGED manifest
  <2>1. GitInv'
    BY <1>1, <1>6 DEF Inv, GitInv, GoOn, Settled
  <2> QED BY <1>3, <1>6, <2>1 DEF GoOn
<1>7. ASSUME NEW clean, pc = "status", manifest' = [manifest EXCEPT !.clean = clean],
             GoOn("diff")
      PROVE  Inv'
  <2>1. /\ pc' = "diff" /\ verdict' = verdict
        /\ manifest' = [f \in F |-> manifest'[f]]
        /\ manifest'.target = manifest.target /\ manifest'.base = manifest.base
    BY <1>1, <1>7, ManifestFacts DEF GoOn
  <2>2. GitInv'
    BY <1>1, <1>7, <2>1 DEF Inv, GitInv, Settled
  <2> QED BY <1>3, <1>7, <2>1, <2>2
<1>8. ASSUME NEW r \in {"pass", "fail"}, pc = "diff", manifest' = manifest,
             r = "pass" => Accepts(plan.expected, refs[plan.base], refs[plan.target]),
             Judged("git", r, "provenance")
      PROVE  Inv'
  <2>1. /\ pc' = "provenance" /\ verdict' \in [Gates -> Results]
        /\ verdict'["git"] = r
        /\ \A g \in Gates \ {"git"} : verdict'[g] = verdict[g]
    BY <1>1, <1>8, JudgedFacts DEF Gates, Results
  <2>2. /\ manifest.base \in AncestorsOf[manifest.target]
        /\ moves = 0 => /\ manifest.base = refs[plan.base]
                        /\ manifest.target = refs[plan.target]
    BY <1>8 DEF Inv, GitInv, Settled
  <2>3. GitInv'
    BY <1>1, <1>8, <2>1, <2>2 DEF GitInv
  <2> QED BY <1>1, <2>1, <2>3, GitKeeps
<1>9. CASE ResolveBase
  BY <1>2, <1>4, <1>9 DEF ResolveBase, GitStep
<1>10. CASE ResolveTarget
  BY <1>2, <1>5, <1>10 DEF ResolveTarget, GitStep
<1>11. CASE CheckAncestry
  BY <1>2, <1>6, <1>11 DEF CheckAncestry, GitStep
<1>12. CASE ReadStatus
  BY <1>2, <1>7, <1>12 DEF ReadStatus, GitStep
<1>13. CASE ReadDiff
  <2>1. CASE ~GitFails
    <3>0. PICK paths \in Listings(refs[plan.base], refs[plan.target]) :
            \E names \in LinesLeft(paths) :
              /\ pc = "diff" /\ manifest' = manifest
              /\ Judged("git", IF manifest.clean /\ UnexpectedFiles(names) = {}
                               THEN "pass" ELSE "fail", "provenance")
      BY <1>13, <2>1, Zenon DEF ReadDiff, GitStep
    <3>1. PICK names \in LinesLeft(paths) :
            /\ pc = "diff" /\ manifest' = manifest
            /\ Judged("git", IF manifest.clean /\ UnexpectedFiles(names) = {}
                             THEN "pass" ELSE "fail", "provenance")
      BY <3>0
    <3> DEFINE r == IF manifest.clean /\ UnexpectedFiles(names) = {} THEN "pass" ELSE "fail"
    <3>2. {refs[plan.base], refs[plan.target]} \subseteq DOMAIN TreeOf
      BY TreesAssumption DEF Inv
    <3>3. UnexpectedFiles(names) = {}
            => \A n \in names : Sensitive(n) => MatchesAnyPath(plan.expected, n)
      BY DEF UnexpectedFiles, Sensitive
    <3>4. r \in {"pass", "fail"}
          /\ (r = "pass" => Accepts(plan.expected, refs[plan.base], refs[plan.target]))
      BY <3>2, <3>3 DEF Accepts
    <3>5. pc = "diff" /\ manifest' = manifest /\ Judged("git", r, "provenance")
      BY <3>1
    <3> HIDE DEF r
    <3> QED BY <1>8, <3>4, <3>5
  <2> QED BY <1>2, <2>1
<1> QED BY <1>9, <1>10, <1>11, <1>12, <1>13

LEMMA MoveInv == Inv /\ MoveRef => Inv'
<1> SUFFICES ASSUME Inv, MoveRef PROVE Inv'
  OBVIOUS
<1>1. /\ UNCHANGED <<plan, document, now, pc, next, latest, machine, manifest, verdict>>
      /\ moves' \in 1..MaxMoves /\ moves' # 0 /\ refs' \in Histories
  BY DatesAssumption DEF Inv, MoveRef
<1>2. EvidenceSuffices' = EvidenceSuffices
  BY <1>1 DEF EvidenceSuffices, CriterionSound, CheckSound, Sound, SourceMatches,
              EvidenceFresh, Evidence
<1>3. CandidateInv'
  BY <1>1, <1>2 DEF Inv, CandidateInv
<1>4. GitInv'
  BY <1>1 DEF Inv, GitInv, Settled
<1>5. ProvenanceInv'
  BY <1>1 DEF Inv, ProvenanceInv, TargetProven, SourcesCovered, MachineChecks, Evidence
<1> QED BY <1>1, <1>3, <1>4, <1>5 DEF Inv

LEMMA ProvenanceStepInv == Inv /\ CheckProvenance => Inv'
<1> SUFFICES ASSUME Inv, CheckProvenance PROVE Inv'
  OBVIOUS
<1>1. /\ UNCHANGED <<plan, document, now, refs, moves, next, latest, machine, manifest>>
      /\ pc = "provenance" /\ verdict \in [Gates -> Results]
  BY DEF Inv, CheckProvenance
<1>2. PICK r \in {"pass", "fail", "skipped"} :
        /\ Judged("provenance", r, "done")
        /\ r = "pass" => TargetProven /\ SourcesCovered
  BY Zenon DEF CheckProvenance
<1>3. /\ pc' = "done" /\ verdict' \in [Gates -> Results]
      /\ verdict'["provenance"] = r
      /\ verdict'["candidate"] = verdict["candidate"]
      /\ verdict'["git"] = verdict["git"]
  BY <1>1, <1>2, JudgedFacts DEF Gates, Results
<1>4. (TargetProven /\ SourcesCovered)' = (TargetProven /\ SourcesCovered)
  BY <1>1, <1>3 DEF TargetProven, SourcesCovered, MachineChecks, Evidence
<1>5. ProvenanceInv'
  BY <1>2, <1>3, <1>4 DEF ProvenanceInv
<1>6. GitInv'
  BY <1>1, <1>3 DEF Inv, GitInv
<1>7. /\ document' \in Documents
      /\ next' \in 1..(Len(document'.evidence) + 1)
      /\ HoldsMachine(document'.evidence, machine', next' - 1)
      /\ HoldsLatest(document'.evidence, latest', next' - 1)
      /\ CandidateInv'
  BY <1>1, <1>3, CandidateKept
<1>8. plan' \in Plans /\ moves' \in 0..MaxMoves /\ refs' \in Histories
  BY <1>1 DEF Inv
<1> QED BY <1>3, <1>5, <1>6, <1>7, <1>8 DEF Inv

LEMMA StepInv == Inv /\ [Next]_vars => Inv'
<1> SUFFICES ASSUME Inv, [Next]_vars PROVE Inv'
  OBVIOUS
<1>1. CASE UNCHANGED vars
  BY <1>1 DEF vars, Inv, CandidateInv, GitInv, ProvenanceInv, Settled, EvidenceSuffices,
              CriterionSound, CheckSound, Sound, SourceMatches, EvidenceFresh, Evidence,
              TargetProven, SourcesCovered, MachineChecks
<1> QED BY <1>1, LoadInv, ScanInv, JudgeInv, GitStepInv, MoveInv, ProvenanceStepInv DEF Next

THEOREM Invariant == Spec => []Inv
BY InitInv, StepInv, PTL DEF Spec

-----------------------------------------------------------------------------
\* What is held has been scanned, one evidence for each check and criterion.
THEOREM TypeCorrect == Spec => []TypeOK
<1>1. Inv => TypeOK
  BY DEF Inv, TypeOK, HoldsMachine, HoldsLatest, Scanned, Evidence, Results
<1> QED BY <1>1, Invariant, PTL

\* All that has been scanned, once the candidate is judged on its evidence.
LEMMA AllScanned ==
  ASSUME Inv, verdict["candidate"] \in {"pass", "rejected"}
  PROVE  /\ TypedEvidence(document.evidence)
         /\ HoldsMachine(document.evidence, machine, Len(document.evidence))
         /\ HoldsLatest(document.evidence, latest, Len(document.evidence))
         /\ None \notin Ids(document.criteria)
         /\ \A j \in DOMAIN document.evidence :
              document.evidence[j].criterion \in {None} \cup Ids(document.criteria)
<1>1. TypedEvidence(document.evidence)
  BY Typing DEF Inv
<1>2. next = Len(document.evidence) + 1 /\ next - 1 = Len(document.evidence)
  BY <1>1 DEF Inv, CandidateInv, TypedEvidence
<1>3. DOMAIN document.evidence = 1..(next - 1)
  BY <1>1, <1>2 DEF TypedEvidence
<1> QED BY <1>1, <1>2, <1>3 DEF Inv, CandidateInv

\* Nothing supersedes what is held.
LEMMA HeldIsNewest ==
  ASSUME Inv, verdict["candidate"] \in {"pass", "rejected"},
         NEW i \in machine, NEW j \in DOMAIN document.evidence
  PROVE  ~Supersedes(j, i)
<1> DEFINE ev == document.evidence
<1>1. /\ TypedEvidence(ev) /\ HoldsMachine(ev, machine, Len(ev))
      /\ i \in DOMAIN ev /\ j \in 1..Len(ev)
  BY AllScanned DEF TypedEvidence, HoldsMachine
<1> SUFFICES ASSUME Supersedes(j, i) PROVE FALSE
  OBVIOUS
<1>2. ev[j].machine /\ SameCheck(ev[j], ev[i])
  BY DEF Supersedes, Evidence
<1>3. PICK k \in machine : SameCheck(ev[k], ev[j]) /\ NoOlderCheck(ev[k], ev[j])
  BY <1>1, <1>2 DEF HoldsMachine
<1>4. SameCheck(ev[k], ev[i])
  BY <1>2, <1>3, SameCheckEquivalence
<1>5. k = i
  BY <1>1, <1>4 DEF HoldsMachine
<1>6. /\ ev[i].at \in Nat /\ ev[j].at \in Nat
      /\ ev[i].attempt \in Nat /\ ev[j].attempt \in Nat
  BY <1>1 DEF TypedEvidence
<1>7. Attempt(ev[i]) \in Nat /\ Attempt(ev[j]) \in Nat
  BY <1>6 DEF Attempt
<1>8. /\ NoOlderCheck(ev[i], ev[j])
      /\ \/ Attempt(ev[j]) > Attempt(ev[i])
         \/ Attempt(ev[j]) = Attempt(ev[i]) /\ ev[j].at > ev[i].at
  BY <1>3, <1>5 DEF Supersedes, Evidence
<1> HIDE DEF ev
<1> QED BY <1>6, <1>7, <1>8 DEF NoOlderCheck, NoOlder

\* A failure keeps a candidate from passing unless its own check has succeeded
\* since, in whatever order the file lists the two.
THEOREM FailuresCount == Spec => []NewestDecides
<1>1. ASSUME Inv, verdict["candidate"] = "pass", NEW j \in DOMAIN document.evidence,
             Evidence(j).status # "passed"
      PROVE  /\ Evidence(j).machine =>
                  \E i \in DOMAIN document.evidence :
                    Supersedes(i, j) /\ CheckSound(Evidence(i))
             /\ Evidence(j).criterion # None =>
                  \E i \in DOMAIN document.evidence :
                    Outdates(i, j) /\ Sound(Evidence(i))
  <2> DEFINE ev == document.evidence
  <2>1. /\ TypedEvidence(ev) /\ HoldsMachine(ev, machine, Len(ev))
        /\ HoldsLatest(ev, latest, Len(ev))
        /\ j \in 1..Len(ev) /\ EvidenceSuffices
    BY <1>1, AllScanned DEF Inv, CandidateInv, TypedEvidence
  <2>2. ASSUME ev[j].machine
        PROVE  \E i \in DOMAIN ev : Supersedes(i, j) /\ CheckSound(Evidence(i))
    <3>1. PICK i \in machine : SameCheck(ev[i], ev[j]) /\ NoOlderCheck(ev[i], ev[j])
      BY <2>1, <2>2 DEF HoldsMachine
    <3>2. i \in DOMAIN ev /\ ev[i].machine /\ CheckSound(ev[i])
      BY <2>1, <3>1 DEF HoldsMachine, TypedEvidence, EvidenceSuffices, Evidence
    <3>3. ev[i].status = "passed"
      BY <3>2 DEF CheckSound, Sound
    <3>4. \/ Attempt(ev[i]) > Attempt(ev[j])
          \/ Attempt(ev[i]) = Attempt(ev[j]) /\ ev[i].at > ev[j].at
      BY <1>1, <3>1, <3>3 DEF NoOlderCheck, NoOlder, Evidence
    <3> QED BY <2>2, <3>1, <3>2, <3>4 DEF Supersedes, Evidence
  <2>3. ASSUME ev[j].criterion # None
        PROVE  \E i \in DOMAIN ev : Outdates(i, j) /\ Sound(Evidence(i))
    <3>1. PICK i \in latest : ev[i].criterion = ev[j].criterion /\ NoOlder(ev[i], ev[j])
      BY <2>1, <2>3 DEF HoldsLatest
    <3>2. ev[j].criterion \in Ids(document.criteria)
      BY <1>1, <2>3, AllScanned
    <3>3. PICK k \in latest : ev[k].criterion = ev[j].criterion /\ Sound(ev[k])
      BY <2>1, <3>2 DEF EvidenceSuffices, CriterionSound, Evidence
    <3>4. k = i
      BY <2>1, <3>1, <3>3 DEF HoldsLatest
    <3>5. i \in DOMAIN ev /\ Sound(ev[i]) /\ ev[i].status = "passed"
      BY <2>1, <3>1, <3>3, <3>4 DEF HoldsLatest, TypedEvidence, Sound
    <3>6. ev[i].at > ev[j].at
      BY <1>1, <3>1, <3>5 DEF NoOlder, Evidence
    <3> QED BY <3>1, <3>5, <3>6 DEF Outdates, Evidence
  <2> QED BY <2>2, <2>3 DEF Evidence
<1>2. Inv => NewestDecides
  BY <1>1 DEF NewestDecides
<1> QED BY <1>2, Invariant, PTL

\* A candidate is rejected only for what none has superseded.
THEOREM OldIsForgiven == Spec => []OldFailuresForgiven
<1>1. ASSUME Inv, verdict["candidate"] = "rejected"
      PROVE  OldFailuresForgiven
  <2> DEFINE ev == document.evidence
  <2>1. /\ TypedEvidence(ev) /\ HoldsMachine(ev, machine, Len(ev))
        /\ HoldsLatest(ev, latest, Len(ev)) /\ DOMAIN ev = 1..Len(ev)
        /\ None \notin Ids(document.criteria) /\ ~EvidenceSuffices
    BY <1>1, AllScanned DEF Inv, CandidateInv, TypedEvidence
  <2>2. CASE machine = {}
    BY <2>1, <2>2 DEF HoldsMachine, OldFailuresForgiven, Evidence
  <2>3. ASSUME NEW i \in machine, ~CheckSound(Evidence(i))
        PROVE  OldFailuresForgiven
    <3>1. i \in DOMAIN ev /\ Evidence(i).machine
      BY <2>1, <2>3 DEF HoldsMachine, Evidence
    <3>2. ~ \E j \in DOMAIN ev : Supersedes(j, i)
      BY <1>1, <2>3, HeldIsNewest
    <3> QED BY <2>3, <3>1, <3>2 DEF OldFailuresForgiven
  <2>4. ASSUME NEW c \in Ids(document.criteria), ~CriterionSound(c)
        PROVE  OldFailuresForgiven
    <3>1. ASSUME NEW j \in DOMAIN ev, Evidence(j).criterion = c, Sound(Evidence(j))
          PROVE  \E i \in DOMAIN ev :
                   /\ Evidence(i).criterion = c /\ ~Sound(Evidence(i))
                   /\ Evidence(i).at >= Evidence(j).at
      <4>1. PICK i \in latest : ev[i].criterion = ev[j].criterion /\ NoOlder(ev[i], ev[j])
        BY <2>1, <3>1 DEF HoldsLatest, Evidence
      <4>2. i \in DOMAIN ev /\ ~Sound(Evidence(i))
        BY <2>1, <2>4, <3>1, <4>1 DEF HoldsLatest, CriterionSound, Evidence
      <4>3. ev[i].at \in Nat /\ ev[j].at \in Nat
        BY <2>1, <4>2 DEF TypedEvidence
      <4>4. ev[i].at >= ev[j].at
        BY <4>1, <4>3 DEF NoOlder
      <4> QED BY <3>1, <4>1, <4>2, <4>4 DEF Evidence
    <3> QED BY <3>1 DEF OldFailuresForgiven
  <2> QED BY <2>1, <2>2, <2>3, <2>4 DEF EvidenceSuffices
<1>2. Inv => OldFailuresForgiven
  BY <1>1 DEF OldFailuresForgiven
<1> QED BY <1>2, Invariant, PTL

\* The released commit, and a commit that contains each source, are verified.
THEOREM TargetIsVerified == Spec => []ReleasedIsVerified
<1>1. ASSUME Inv, verdict["candidate"] = "pass", NEW i \in machine
      PROVE  i \in DOMAIN document.evidence /\ Proves(i, Evidence(i).commit)
  <2>1. i \in DOMAIN document.evidence /\ Evidence(i).machine
    BY <1>1, AllScanned DEF HoldsMachine, TypedEvidence, Evidence
  <2>2. CheckSound(Evidence(i))
    BY <1>1 DEF Inv, CandidateInv, EvidenceSuffices
  <2>3. \A j \in DOMAIN document.evidence : ~Supersedes(j, i)
    BY <1>1, HeldIsNewest
  <2> QED BY <2>1, <2>2, <2>3 DEF Proves, CheckSound, SourceMatches
<1>2. ASSUME Inv, Delivered
      PROVE  ReleasedIsVerified
  <2>1. MachineChecks = machine /\ TargetProven /\ SourcesCovered
    BY <1>2 DEF Delivered, MachineChecks, Inv, ProvenanceInv
  <2>2. PICK s \in DOMAIN document.sources, i \in machine :
          /\ SameDirectory(plan.repository, document.sources[s].repository)
          /\ Evidence(i).commit = manifest.target
          /\ SamePath(Evidence(i).repository, document.sources[s].repository)
    BY <2>1 DEF TargetProven
  <2>3. /\ i \in DOMAIN document.evidence /\ Proves(i, manifest.target)
        /\ SameDirectory(plan.repository, Evidence(i).repository)
    BY <1>1, <1>2, <2>2 DEF Delivered, SamePath
  <2>4. \A t \in DOMAIN document.sources :
          \E k \in machine :
            /\ SameDirectory(document.sources[t].repository, Evidence(k).repository)
            /\ document.sources[t].commit \in AncestorsOf[Evidence(k).commit]
    BY <2>1 DEF SourcesCovered
  <2>5. \A t \in DOMAIN document.sources :
          \E k \in DOMAIN document.evidence :
            /\ Proves(k, Evidence(k).commit)
            /\ document.sources[t].commit \in AncestorsOf[Evidence(k).commit]
            /\ SameDirectory(document.sources[t].repository, Evidence(k).repository)
    BY <1>1, <1>2, <2>4 DEF Delivered
  <2> QED BY <2>3, <2>5 DEF ReleasedIsVerified
<1>3. Inv => ReleasedIsVerified
  BY <1>2 DEF ReleasedIsVerified
<1> QED BY <1>3, Invariant, PTL

\* What the gate has accepted covers every file in view.
LEMMA AcceptedInView ==
  ASSUME NEW expected, NEW base, NEW target, Accepts(expected, base, target),
         NEW f \in Written(base, target) \cup Removed(base, target),
         InView(base, target, f), Sensitive(f)
  PROVE  \/ MatchesAnyPath(expected, f)
         \/ f \in Removed(base, target) /\ Added(base, target) # {}
<1> DEFINE all == Written(base, target) \cup Removed(base, target)
<1>0. PICK renamed \in SUBSET Removed(base, target) :
        /\ Cardinality(renamed) <= Cardinality(Added(base, target))
        /\ \E names \in LinesLeft(Written(base, target) \cup (Removed(base, target) \ renamed)) :
             \A n \in names : Sensitive(n) => MatchesAnyPath(expected, n)
  BY DEF Accepts, Listings
<1> DEFINE paths == Written(base, target) \cup (Removed(base, target) \ renamed)
<1>1. PICK names \in LinesLeft(paths) :
        \A n \in names : Sensitive(n) => MatchesAnyPath(expected, n)
  BY <1>0
<1>2. IsFiniteSet(DOMAIN TreeOf[base]) /\ IsFiniteSet(DOMAIN TreeOf[target])
  BY TreesAssumption DEF Accepts
<1>3. IsFiniteSet(Written(base, target)) /\ IsFiniteSet(Removed(base, target))
  BY <1>2, FS_Subset DEF Written, Removed
<1>4. CASE f \in paths
  <2>1. IsFiniteSet(all) /\ Onwards(all, f) \subseteq all
    BY <1>3, FS_Union DEF Onwards
  <2>2. IsFiniteSet(Onwards(all, f)) /\ Onwards(paths, f) \subseteq Onwards(all, f)
    BY <2>1, FS_Subset DEF Onwards
  <2>3. /\ Cardinality(Onwards(paths, f)) <= Cardinality(Onwards(all, f))
        /\ Cardinality(Onwards(paths, f)) \in Nat /\ Cardinality(Onwards(all, f)) \in Nat
    BY <2>2, FS_Subset, FS_CardinalityType
  <2>4. Cardinality(Onwards(all, f)) <= Room /\ Printed[f] = f
    BY DEF InView
  <2>5. f \in TailOf(paths)
    BY <1>4, <2>3, <2>4, TreesAssumption DEF TailOf
  <2>6. {Printed[g] : g \in TailOf(paths)} \subseteq names
    BY <1>1 DEF LinesLeft
  <2>7. f \in names
    BY <2>4, <2>5, <2>6
  <2> QED BY <1>1, <2>7
<1>5. CASE f \notin paths
  <2>1. f \in renamed
    BY <1>5
  <2>2. IsFiniteSet(renamed) /\ Cardinality(renamed) # 0
    BY <1>3, <2>1, FS_Subset, FS_EmptySet
  <2>3. Cardinality(renamed) \in Nat /\ Cardinality(renamed) <= Cardinality(Added(base, target))
    BY <1>0, <2>2, FS_CardinalityType
  <2>4. Added(base, target) # {}
    BY <2>2, <2>3, FS_EmptySet
  <2> QED BY <2>1, <2>4
<1> QED BY <1>4, <1>5

\* A passing git gate has found every sensitive file in its view expected.
THEOREM SensitiveIsDeclared == Spec => []SensitiveDeclared
<1>1. ASSUME Inv, verdict["git"] = "pass", moves = 0
      PROVE  SensitiveDeclared
  <2>1. /\ manifest.base \in AncestorsOf[manifest.target]
        /\ Accepts(plan.expected, manifest.base, manifest.target)
    BY <1>1 DEF Inv, GitInv
  <2> QED BY <2>1, AcceptedInView DEF SensitiveDeclared
<1>2. Inv => SensitiveDeclared
  BY <1>1 DEF SensitiveDeclared
<1> QED BY <1>2, Invariant, PTL
=============================================================================
