------------------------------- MODULE Delivery -------------------------------
(***************************************************************************)
(* The delivery gates of a plan with a candidate: internal/guard/          *)
(* candidate.go, and loadCandidate, buildGitManifest, checkCandidateGit    *)
(* in evidence.go.  The candidate's evidence is scanned in the order of    *)
(* the file, the release range is read with one git command after another  *)
(* while the repository is in use, and the target must be verified.        *)
(*                                                                         *)
(* Of a machine evidence, `check` stands for its command and the mission,  *)
(* plan task and logical check of a team's controller; `bound` for the run *)
(* id, sourceVerified and the repository and worktree after the check;     *)
(* `consistent` for its exit code and run status.  Dates are numbers, zero *)
(* the missing one.  None is the empty string.                             *)
(*                                                                         *)
(* What git prints passes through the buffer of buildGitManifest, which    *)
(* keeps the last 64 KiB: Room is how many names that is.  A path is what  *)
(* a tree has, a name what git prints of it.                               *)
(***************************************************************************)
EXTENDS Naturals, Sequences, FiniteSets

CONSTANTS
  Documents,      \* exported candidates
  Clock,          \* when the candidate is read
  Plans,          \* [repository, base, target, expected]
  Histories,      \* where the refs may point: functions to commits
  AncestorsOf,    \* a commit and its ancestors
  TreeOf,         \* the files of a commit: functions from paths to versions
  Rank,           \* where a path stands in git's order
  Printed,        \* the name that git prints of a path: quoted, if it is unusual
  Room,           \* maxCommandEvidenceBytes, in names
  Fragments,      \* what may be left of the name at which the output is cut
  Migrations, Configuration,  \* the names classifySensitiveReleaseFile finds
  MatchedBy,      \* the names that a pattern of expected_files covers
  DirectoryOf,    \* the directory that a path leads to
  Gone,           \* ... when there is none
  MaxAge, Skew,   \* candidateMaxAge and candidateClockSkew
  MaxMoves,       \* bound: how often refs move during a run
  None

ASSUME DatesAssumption == /\ MaxAge \in Nat /\ Skew \in Nat /\ Clock \subseteq Nat
                          /\ MaxMoves \in Nat

\* A ref names a commit, and a commit has finitely many files.
ASSUME TreesAssumption ==
  /\ Room \in Nat
  /\ \A c \in DOMAIN TreeOf : IsFiniteSet(DOMAIN TreeOf[c])
  /\ \A p \in Plans, h \in Histories : {h[p.base], h[p.target]} \subseteq DOMAIN TreeOf

ASSUME DocumentsAssumption ==
  \A d \in Documents :
    /\ Len(d.evidence) \in Nat
    /\ DOMAIN d.evidence = 1..Len(d.evidence)
    /\ \A i \in DOMAIN d.evidence :
         d.evidence[i].at \in Nat /\ d.evidence[i].attempt \in Nat

VARIABLES
  plan, document, now,
  refs,        \* the repository's refs, which others move
  moves,       \* how often they did
  pc,
  next,        \* the evidence to scan
  latest,      \* the evidence held for each criterion
  machine,     \* the evidence held for each machine check
  manifest,    \* what the git gate has read
  verdict      \* of the gates: candidate, git, provenance

inputs == <<plan, document, now>>
vars == <<plan, document, now, refs, moves, pc, next, latest, machine, manifest, verdict>>

-----------------------------------------------------------------------------
Evidence(i) == document.evidence[i]

SamePath(left, right) == left # None /\ left = right

\* No date is older than a day, nor a minute ahead.
CandidateFresh(d) == now <= d.generated + MaxAge /\ d.generated <= now + Skew

EvidenceFresh(e) ==
  /\ now <= e.at + MaxAge
  /\ e.at <= document.generated + Skew
  /\ e.at <= now + Skew

Unique(items) == \A i, j \in DOMAIN items : items[i].id = items[j].id => i = j

Ids(items) == {items[i].id : i \in DOMAIN items}

SourceOfTask(source, task) ==
  source.branch = task.branch /\ SamePath(task.worktree, source.worktree)

\* Before the evidence is looked at: a ready candidate whose counts agree with
\* its criteria, tasks and sources (`ready`), all of them done and linked.
WellFormed(d) ==
  /\ d.ready /\ CandidateFresh(d)
  /\ d.criteria # <<>> /\ d.tasks # <<>> /\ d.sources # <<>>
  /\ Unique(d.criteria) /\ Unique(d.tasks)
  /\ None \notin Ids(d.criteria) \cup Ids(d.tasks)
  /\ \A i \in DOMAIN d.criteria : d.criteria[i].satisfied
  /\ \A i \in DOMAIN d.tasks :
       /\ d.tasks[i].done
       /\ d.tasks[i].needs \subseteq Ids(d.tasks) \ {d.tasks[i].id}
       /\ d.tasks[i].worktree # None =>
            \E s \in DOMAIN d.sources : d.sources[s].task = d.tasks[i].id
  /\ \A s \in DOMAIN d.sources :
       /\ d.sources[s].clean
       /\ \A t \in DOMAIN d.sources : d.sources[t].task = d.sources[s].task => s = t
       /\ \E i \in DOMAIN d.tasks : /\ d.tasks[i].id = d.sources[s].task
                                    /\ SourceOfTask(d.sources[s], d.tasks[i])

\* An evidence that names what the candidate has; a machine evidence with a
\* controller's attempt names its whole scope.
Acceptable(i) ==
  LET e == Evidence(i)
  IN /\ \A j \in 1..(i - 1) : Evidence(j).id # e.id
     /\ e.criterion = None \/ e.criterion \in Ids(document.criteria)
     /\ e.task = None \/ e.task \in Ids(document.tasks)
     /\ e.at # 0
     /\ e.status \in {"passed", "failed", "informational"}
     /\ e.machine => e.scope # "broken"

\* candidateMachineKey: a controller's scope spans worktrees, else the
\* directory counts.
SameCheck(e, f) ==
  /\ e.scope = f.scope
  /\ e.check = f.check
  /\ e.task = f.task
  /\ e.scope = "plain" => e.dir = f.dir

Attempt(e) == IF e.scope = "team" THEN e.attempt ELSE 0

\* Seeded bug: only the date counts, as it did before there were attempts.
NewerByDate(e, f) == e.at > f.at \/ (e.at = f.at /\ e.status # "passed")

\* Seeded bug: of two at the same date, the later in the file counts.
NewerInFile(e, f) ==
  \/ Attempt(e) > Attempt(f)
  \/ (Attempt(e) = Attempt(f) /\ e.at >= f.at)

\* candidateMachineNewer: at the same date, what has not passed counts.
Newer(e, f) ==
  \/ Attempt(e) > Attempt(f)
  \/ /\ Attempt(e) = Attempt(f)
     /\ e.at > f.at \/ (e.at = f.at /\ e.status # "passed")

\* The same for the evidence of a criterion, of whatever kind.
CriterionNewer(e, f) == e.at > f.at \/ (e.at = f.at /\ e.status # "passed")

\* Seeded bug: the superseded evidence is held as well.
HeldWithRivals(held, rivals, i) == held \cup {i}

Held(held, rivals, i) == (held \ rivals) \cup {i}

\* latest[criterion] = evidence i, if that is newer.
LatestWith(i) ==
  LET rivals == {j \in latest : Evidence(j).criterion = Evidence(i).criterion}
  IN IF Evidence(i).criterion # None
        /\ \A j \in rivals : CriterionNewer(Evidence(i), Evidence(j))
     THEN Held(latest, rivals, i) ELSE latest

\* machine[key] = evidence i, if that is newer.
MachineWith(i) ==
  LET rivals == {j \in machine : SameCheck(Evidence(j), Evidence(i))}
  IN IF Evidence(i).machine /\ \A j \in rivals : Newer(Evidence(i), Evidence(j))
     THEN Held(machine, rivals, i) ELSE machine

\* Seeded bug: what the check has left behind is not looked at.
SourceMatchesBefore(e) ==
  \E s \in DOMAIN document.sources :
    /\ document.sources[s].clean
    /\ e.task \in {None, document.sources[s].task}
    /\ e.commit = document.sources[s].commit
    /\ SamePath(e.repository, document.sources[s].repository)
    /\ SamePath(e.worktree, document.sources[s].worktree)

\* The check ran, and left unchanged, a source of the candidate.
SourceMatches(e) ==
  /\ e.bound /\ e.clean /\ e.cleanAfter /\ e.commit = e.commitAfter
  /\ \E s \in DOMAIN document.sources :
       LET source == document.sources[s]
       IN /\ source.clean
          /\ \/ e.task = source.task
             \/ /\ e.task = None
                /\ SamePath(e.dir, source.worktree) \/ SamePath(e.dir, source.repository)
          /\ e.commit = source.commit
          /\ SamePath(e.repository, source.repository)
          /\ SamePath(e.worktree, source.worktree)

Sound(e) == EvidenceFresh(e) /\ e.status = "passed"

CheckSound(e) == Sound(e) /\ e.consistent /\ SourceMatches(e)

CriterionSound(c) == \E i \in latest : Evidence(i).criterion = c /\ Sound(Evidence(i))

-----------------------------------------------------------------------------
Gates == {"candidate", "git", "provenance"}

NoManifest == [base |-> None, target |-> None, clean |-> FALSE]

Init ==
  /\ plan \in Plans /\ document \in Documents /\ now \in Clock
  /\ refs \in Histories
  /\ moves = 0
  /\ pc = "candidate"
  /\ next = 1
  /\ latest = {} /\ machine = {}
  /\ manifest = NoManifest
  /\ verdict = [gate \in Gates |-> "none"]

Judged(gate, result, then) ==
  /\ verdict' = [verdict EXCEPT ![gate] = result]
  /\ pc' = then

\* A file that cannot be read leaves no candidate to compare with.
LoadCandidate ==
  /\ pc = "candidate"
  /\ \/ /\ WellFormed(document)
        /\ pc' = "scan"
        /\ UNCHANGED verdict
     \/ /\ ~WellFormed(document)
        /\ Judged("candidate", "malformed", "base")
     \/ Judged("candidate", "unreadable", "base")
  /\ UNCHANGED <<plan, document, now, refs, moves, next, latest, machine, manifest>>

\* One turn of the loop over the evidence.
ScanEvidence ==
  /\ pc = "scan"
  /\ next <= Len(document.evidence)
  /\ \/ /\ Acceptable(next)
        /\ latest' = LatestWith(next)
        /\ machine' = MachineWith(next)
        /\ next' = next + 1
        /\ UNCHANGED <<pc, verdict>>
     \/ /\ ~Acceptable(next)
        /\ Judged("candidate", "malformed", "base")
        /\ UNCHANGED <<next, latest, machine>>
  /\ UNCHANGED <<plan, document, now, refs, moves, manifest>>

EvidenceSuffices ==
  /\ \A c \in Ids(document.criteria) : CriterionSound(c)
  /\ machine # {}
  /\ \A i \in machine : CheckSound(Evidence(i))

JudgeCandidate ==
  /\ pc = "scan"
  /\ next > Len(document.evidence)
  /\ Judged("candidate", IF EvidenceSuffices THEN "pass" ELSE "rejected", "base")
  /\ UNCHANGED <<plan, document, now, refs, moves, next, latest, machine, manifest>>

-----------------------------------------------------------------------------
\* buildGitManifest: each step is one git command, which may fail.
GitFails == Judged("git", "fail", "provenance") /\ UNCHANGED manifest

GitStep(step, then) ==
  /\ pc = step
  /\ UNCHANGED <<plan, document, now, refs, moves, next, latest, machine>>
  /\ GitFails \/ then

GoOn(step) == pc' = step /\ UNCHANGED verdict

ResolveBase ==
  GitStep("base", /\ manifest' = [manifest EXCEPT !.base = refs[plan.base]]
                  /\ GoOn("target"))

ResolveTarget ==
  GitStep("target", /\ manifest' = [manifest EXCEPT !.target = refs[plan.target]]
                    /\ GoOn("ancestry"))

CheckAncestry ==
  GitStep("ancestry", /\ manifest.base \in AncestorsOf[manifest.target]
                      /\ GoOn("status")
                      /\ UNCHANGED manifest)

\* Between two commits: the files that were added or changed, and those removed.
Written(base, target) ==
  {f \in DOMAIN TreeOf[target] :
     f \in DOMAIN TreeOf[base] => TreeOf[base][f] # TreeOf[target][f]}

Removed(base, target) == DOMAIN TreeOf[base] \ DOMAIN TreeOf[target]

Added(base, target) == DOMAIN TreeOf[target] \ DOMAIN TreeOf[base]

\* git diff --name-only: a removed file may be taken for the old name of an
\* added one, by its contents and git's configuration, and is then not listed.
Listings(base, target) ==
  {Written(base, target) \cup (Removed(base, target) \ renamed) :
     renamed \in {r \in SUBSET Removed(base, target) :
                   Cardinality(r) <= Cardinality(Added(base, target))}}

\* A path and those after it.
Onwards(paths, f) == {g \in paths : Rank[g] >= Rank[f]}

\* Seeded bug: the buffer keeps what is printed first.
HeadOf(paths) == {f \in paths : Cardinality({g \in paths : Rank[g] <= Rank[f]}) <= Room}

\* boundedTail: what was printed last stays.
TailOf(paths) == {f \in paths : Cardinality(Onwards(paths, f)) <= Room}

\* The lines that are left of a listing, the first of them perhaps cut.
LinesLeft(paths) ==
  LET names == {Printed[f] : f \in TailOf(paths)}
  IN IF TailOf(paths) = paths THEN {names} ELSE {names \cup {n} : n \in Fragments}

MatchesAnyPath(patterns, n) == \E p \in patterns : n \in MatchedBy[p]

\* The names that are sensitive and that the plan does not expect.
UnexpectedFiles(names) ==
  {n \in names \cap (Migrations \cup Configuration) : ~MatchesAnyPath(plan.expected, n)}

\* git status
ReadStatus ==
  GitStep("status", /\ \E clean \in BOOLEAN :
                         manifest' = [manifest EXCEPT !.clean = clean]
                    /\ GoOn("diff"))

\* git log and git diff base_ref..target_ref, which resolve the refs again, and
\* the verdict.
ReadDiff ==
  GitStep("diff",
    \E paths \in Listings(refs[plan.base], refs[plan.target]) :
      \E names \in LinesLeft(paths) :
        LET passed == manifest.clean /\ UnexpectedFiles(names) = {}
        IN /\ Judged("git", IF passed THEN "pass" ELSE "fail", "provenance")
           /\ UNCHANGED manifest)

\* Somebody commits to, or moves, a branch that the plan names.
MoveRef ==
  /\ pc # "done"
  /\ moves < MaxMoves
  /\ moves' = moves + 1
  /\ refs' \in Histories
  /\ UNCHANGED <<plan, document, now, pc, next, latest, machine, manifest, verdict>>

-----------------------------------------------------------------------------
\* loadCandidate lists the machine checks of a candidate that passes.
MachineChecks == IF verdict.candidate = "pass" THEN machine ELSE {}

Available(path) == DirectoryOf[path] # Gone

SameDirectory(left, right) == Available(left) /\ DirectoryOf[left] = DirectoryOf[right]

\* candidateSourcesMachineCovered
SourcesCovered ==
  \A s \in DOMAIN document.sources :
    \E i \in MachineChecks :
      /\ SameDirectory(document.sources[s].repository, Evidence(i).repository)
      /\ document.sources[s].commit \in AncestorsOf[Evidence(i).commit]

\* A clean source is at the target, and so is a machine check of it.
TargetProven ==
  \E s \in DOMAIN document.sources, i \in MachineChecks :
    LET source == document.sources[s]
    IN /\ source.clean
       /\ source.commit = manifest.target
       /\ SameDirectory(plan.repository, source.repository)
       /\ Evidence(i).commit = manifest.target
       /\ SamePath(Evidence(i).repository, source.repository)

\* The gate is skipped without a candidate; git merge-base may fail.
CheckProvenance ==
  /\ pc = "provenance"
  /\ \/ /\ verdict.candidate = "unreadable"
        /\ Judged("provenance", "skipped", "done")
     \/ /\ verdict.candidate # "unreadable"
        /\ \/ Judged("provenance", IF TargetProven /\ SourcesCovered
                                   THEN "pass" ELSE "fail", "done")
           \/ Judged("provenance", "fail", "done")
  /\ UNCHANGED <<plan, document, now, refs, moves, next, latest, machine, manifest>>

Next ==
  \/ LoadCandidate
  \/ ScanEvidence
  \/ JudgeCandidate
  \/ ResolveBase
  \/ ResolveTarget
  \/ CheckAncestry
  \/ ReadStatus
  \/ ReadDiff
  \/ MoveRef
  \/ CheckProvenance

Spec == Init /\ [][Next]_vars

-----------------------------------------------------------------------------
Scanned == 1..(next - 1)

\* The type invariant: what is held has been scanned, and only one evidence
\* is held for a criterion and one for a check.
TypeOK ==
  /\ next \in 1..(Len(document.evidence) + 1)
  /\ moves \in 0..MaxMoves
  /\ refs \in Histories
  /\ verdict \in [Gates -> {"none", "pass", "fail", "skipped",
                           "malformed", "rejected", "unreadable"}]
  /\ latest \subseteq Scanned /\ machine \subseteq Scanned
  /\ \A i, j \in latest : Evidence(i).criterion = Evidence(j).criterion => i = j
  /\ \A i, j \in machine : SameCheck(Evidence(i), Evidence(j)) => i = j

\* Evidence i is of the same check as j, and of a later attempt or date.
Supersedes(i, j) ==
  LET e == Evidence(i)
      f == Evidence(j)
  IN /\ e.machine /\ f.machine /\ SameCheck(e, f)
     /\ Attempt(e) > Attempt(f) \/ (Attempt(e) = Attempt(f) /\ e.at > f.at)

Outdates(i, j) ==
  /\ Evidence(i).criterion = Evidence(j).criterion
  /\ Evidence(i).at > Evidence(j).at

\* In whatever order the file lists it, a failure of a machine check or of a
\* criterion keeps the candidate from passing, unless the same check, in the
\* same directory or the same controller's scope, has succeeded since, on a
\* source of the candidate (candidateMachineNewer and the loop around it).
NewestDecides ==
  verdict.candidate = "pass" =>
    \A j \in DOMAIN document.evidence :
      Evidence(j).status # "passed" =>
        /\ Evidence(j).machine =>
             \E i \in DOMAIN document.evidence :
               Supersedes(i, j) /\ CheckSound(Evidence(i))
        /\ Evidence(j).criterion # None =>
             \E i \in DOMAIN document.evidence :
               Outdates(i, j) /\ Sound(Evidence(i))

\* An old failure is forgiven: a candidate is rejected only for an evidence
\* that none has superseded, or for one that is missing.
OldFailuresForgiven ==
  verdict.candidate = "rejected" =>
    \/ ~ \E i \in DOMAIN document.evidence : Evidence(i).machine
    \/ \E j \in DOMAIN document.evidence :
         /\ Evidence(j).machine /\ ~CheckSound(Evidence(j))
         /\ ~ \E i \in DOMAIN document.evidence : Supersedes(i, j)
    \/ \E c \in Ids(document.criteria) :
         \A j \in DOMAIN document.evidence :
           Evidence(j).criterion = c /\ Sound(Evidence(j)) =>
             \E i \in DOMAIN document.evidence :
               /\ Evidence(i).criterion = c /\ ~Sound(Evidence(i))
               /\ Evidence(i).at >= Evidence(j).at

\* A check that ran on this commit, passed, left the source as it was, and has
\* not failed since.
Proves(i, commit) ==
  LET e == Evidence(i)
  IN /\ e.machine /\ Sound(e) /\ e.bound /\ e.clean /\ e.cleanAfter
     /\ e.commit = commit /\ e.commitAfter = commit
     /\ \A j \in DOMAIN document.evidence : Supersedes(j, i) => Evidence(j).status = "passed"

Delivered ==
  verdict.candidate = "pass" /\ verdict.git = "pass" /\ verdict.provenance = "pass"

\* The commit that is released has itself been verified in the plan's own
\* repository, and every source of the candidate is contained in a verified
\* commit of its repository, even if branches move while the gates run
\* (checkCandidateGit and candidateSourcesMachineCovered).
ReleasedIsVerified ==
  Delivered =>
    /\ \E i \in DOMAIN document.evidence :
         /\ Proves(i, manifest.target)
         /\ SameDirectory(plan.repository, Evidence(i).repository)
    /\ \A s \in DOMAIN document.sources :
         \E i \in DOMAIN document.evidence :
           /\ Proves(i, Evidence(i).commit)
           /\ document.sources[s].commit \in AncestorsOf[Evidence(i).commit]
           /\ SameDirectory(document.sources[s].repository, Evidence(i).repository)

Sensitive(n) == n \in Migrations \cup Configuration

\* The file is printed with its path, near enough to the end for the buffer.
InView(base, target, f) ==
  /\ Printed[f] = f
  /\ Cardinality(Onwards(Written(base, target) \cup Removed(base, target), f)) <= Room

\* While no ref moves, a release that passes the git gate descends from its
\* base, and the plan expects the migration and configuration files in which
\* the two commits of the manifest differ, as far as the gate can see them:
\* those among the last Room paths of the diff and with a name that git prints
\* as it is.  One that is removed can hide behind a file that is added
\* (buildGitManifest, boundedTail).
SensitiveDeclared ==
  verdict.git = "pass" /\ moves = 0 =>
    LET base == manifest.base
        target == manifest.target
    IN /\ base \in AncestorsOf[target]
       /\ \A f \in Written(base, target) \cup Removed(base, target) :
            InView(base, target, f) /\ Sensitive(f) =>
              \/ MatchesAnyPath(plan.expected, f)
              \/ f \in Removed(base, target) /\ Added(base, target) # {}
=============================================================================
