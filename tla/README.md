# ReleaseGuard in TLA+

ReleaseGuard (`cmd/releaseguard`, `internal/guard`, `internal/runstore`,
`internal/web`) checks a release against a plan, watches it for an observation
window, writes an immutable report and lets a human approve it. Its hard part is
that one validation is spread over several processes, survives signals and
crashes at every point, and keeps its state in places that cannot be written
together: a SQLite row, a report file and the approvals beside it. Around that are
three decisions that are easy to get wrong and hard to test: which evidence of a
candidate counts, which observed change explains which declared one, and whether
a report may still be approved.

## Inventory

| Part | State | Operations | What makes it correct | Modules |
|---|---|---|---|---|
| Run store (`runstore/store.go`) | table `runs`: stage, report, lease owner and expiry; the schema | open and migrate, Create, FindActive, AcquireLease, RenewLease, ReleaseLease, Update, UpdateOwned, Abandon | one active run of a plan; stages only go forward; finished runs never change; only the lease holder saves; whoever opened the store can use it, and the schema never goes back | `RunStore`, `RunLifecycle`, `Stages`, `Migration`, `Store` |
| check (`main.go`, `lease.go`) | in each process: record read, report, heartbeat goroutine, context; shared: the `--out` file | find, create, lease, run the engine, publish, complete; heartbeat; `runs --abandon` | one process executes a run; completed implies published; a GO was watched to the end; the lease is given back; a rerun completes | `CheckRun` |
| Engine (`guard.go`, `observe` in `evidence.go`) | the report in memory: results, samples, observation status, decision | RunWithProgress, ResumeObservation, observe, decide, checkpoints | a GO is backed by every required gate; nothing observed is lost; every plan is decided | `Engine` |
| Expected changes (`changes.go`, `checkDrift`) | coverage in the report | load, link, collect, correlate, judge | each required declaration has an observation of its own; nothing undeclared passes; what is complete passes, whatever the order | `ChangeCoverage` |
| Candidate, Git range, provenance (`candidate.go`, `evidence.go`) | none; the repository is shared | scan the evidence, read the range, compare | failures are neither lost nor kept for ever; what is released is what was verified | `Delivery` |
| Report and approvals (`guard.go`) | report and approval files | publish, choose a path, create, find the bound approval | never overwritten; an approval is bound to a digest and never relaxes; an answer is given once | `CheckRun` (report), `Approvals`, `ApprovalRegister` |
| Console (`web.go`) | failure counts | serve the report, POST an approval | no approval of a report whose run goes on; bounded token attempts | `Approvals` |
| Metrics (`metrics.go`) | baselines in the report | capture, compare | thresholds, zero baselines | `Engine` (order and early stop only) |
| Other gates (`checks.go`, fleet, HTTP, SQL) | none | run one check each | outcomes as the documents say | outcomes free in `Engine` |
| Onboarding, diagnostics, browser boundary, guidance, installers | none | | | |

How they interact: `check` calls the engine, which calls back `progress` at each
checkpoint; `progress` is `Store.UpdateOwned` under the lease of the process.
The heartbeat goroutine renews the lease and cancels the context of the run when
it cannot. Processes share the database and the `--out` path and nothing else.
`runs --abandon`, `confirm` and the console reach the database from other processes,
and the last two write approvals beside a report that `check` may be replacing.

What is hard: the SELECT and the UPDATE of a save are two statements; the record
that chooses the entry into the engine is read before the lease is held; the
heartbeat runs until the very end; a save may commit and still report an error;
the publication and the completing update are two steps; refs move between the
git commands of one gate; `confirm` and the console read the report several times
and ask for active runs in between; an interruption can come between any two of
them. `PROJECT.json` lists each as a hazard at its line.

## Modules

| Module | What it is |
|---|---|
| `Stages` | the stages and the `allowed` table of `Store.update` |
| `RunLifecycle` | abstract specification: what a caller may rely on, without SQL or clocks |
| `RunStore` | the table, one action per SQL statement; implements `RunLifecycle` |
| `Migration` | open and migrate, one action per statement, by processes that share a file of any earlier schema |
| `Store` | the whole of `runstore`: the table, called once the file is open |
| `CheckRun` | concurrent `check` processes over an instance of `RunStore`, their heartbeats, the file, an operator, faults |
| `Engine` | the engine under one process at a time, rerun until the run is completed |
| `ChangeCoverage` | expected changes, from the document to the coverage gate, over interruptions and resumptions |
| `Delivery` | the candidate, Git range and provenance gates |
| `Approvals` | `confirm`, the POST of the console and its limiter, and the sidecars, against runs and a report that changes; implements `ApprovalRegister` |
| `ApprovalRegister` | abstract specification: for each report one answer, written once, of somebody who asked for it |
| `RunStoreProofs`, `StoreProofs`, `CheckRunProofs`, `EngineProofs`, `ChangeCoverageProofs`, `DeliveryProofs`, `ApprovalsProofs` | theorems about the module they are named for |
| `MCRunStore` (of `Store`), `MCCheckRun`, `MCEngine`, `MCChangeCoverage`, `MCDelivery`, `MCApprovals` | instances for TLC |

### RunStore

`rows` are the columns that matter of the rows of one (release, plan) pair, since
the unique index and every query are per pair. `call[c]` holds the locals of a
call of `update` or `Abandon` between its two statements: `UpdateRead` and
`AbandonRead` are the SELECT with the tests that follow it, `WriteCommits` and
`WriteMisses` the conditional UPDATE. `WriteCommits` may answer with an error, since
`secureFiles` runs after the commit. `StatementFails` is a busy database or a
deadline, `Forget` the death of the caller.

The lease time is relative: `left` is `lease_expires_at` minus now in ticks of
several seconds, so that the state space is finite without a bound on time. The
two tests of the expiry are not exact. `update` reads its `now` before a SELECT that
may wait for the database, and `AcquireLease` compares texts: `RFC3339Nano` drops
trailing zeros, so of two instants in one second the later can sort first. In the
tick of the expiry, `left = 0`, either test therefore goes either way (`Leasable` and
`Unleasable`, `UpdateAccepted` and `UpdateRefused` overlap): a lease can be taken over
a moment early, while its owner still passes the test of its own save.

`RunLifecycle` has one step for a save. Its variable `asking` is the set of clients
waiting for an answer, and a `Save` must be by a client that asks and that holds the
run at that moment, or while nobody does. Without `asking` the condition on the
holder would say nothing, because some client always satisfies it.

### Migration

`schema` is `user_version`, the index, the columns, and whether the table has two
active runs of a plan. `opener[p]` is the next statement of process `p`: the branches
of `migrate` by the version read, `CREATE UNIQUE INDEX`, two `ALTER TABLE`, two `PRAGMA
user_version`. Version 0 is one transaction; the later statements commit one by one.
`DuplicateRun` is an old release that still adds a run. `Store` composes it with
`RunStore`: processes open a file of any schema in any order, and the table is called
from the first `Open` that returns. The run restricts it to calls that come once both
clients have opened the file (the action constraint `UsedByBoth`): a client that opens later reads
a version and changes nothing, which is what `OpenedIsUsable` says, so the order in between is not
lost. The theorems do without the restriction.

What the model shows besides its properties: a fault between two of these
statements leaves a file that no later open can migrate (`WedgedOnlyByFault` says that
nothing else does); and the advice of the duplicate error, to abandon one of the runs,
cannot be followed with the tool, whose `runs --abandon` opens the store first.

### CheckRun

`pc` follows the main goroutine of `check`: `find` (FindActive), `create`,
`refind` (the second look inside `Create`), `acquire`, then the engine as its
progress calls (`checks`, `opened`, `poll`, `polled`, `last`, `final`,
`interrupted`), then `returned`, `publish`, `complete`, `completing`, `stop`
(`lease.close` stops the heartbeat) and `release`. `run`, `stage` and `work` are the
record and then the report in memory. A save is `Emit`, after which the process waits
for `call[p]`. The heartbeat is the separate action `Heartbeat`, enabled until `Stop`.
A report is its author, status, decision and set of samples: enough to tell whose
report a row or a file holds, and whether samples were lost.

Every gate passes in this module, on purpose. A report that is not GO is then the
work of the store, the lease or an interruption. The outcomes of gates are
`Engine`'s subject.

Faults are drawn from the constant `Faults`: a signal, a crash, a failed statement
(before or after its commit, in a save, a renewal, a release or before the lease),
a report that cannot be written, an abandon. A lease that was acquired but answered with an
error (`AcquireUnanswered`: the deadline or a signal strikes after the commit) leaves no
lease object behind, so nothing releases it and the next invocation waits for the TTL.

### Engine

The gates run in the order of the source (`GateOrder`); `at` is the position of the
next gate, or of the next metric once the window is open, and gates that are not due
are passed over. The outcome of a gate is chosen freely, but `cancel` only when the
context is done. Each gate is followed by `Checkpoint`, which is the closure of that
name: leave when interrupted, end with NO-GO when the save is refused, else go on.
`Save` applies the stage table of the store. A plan's `metrics` is a sequence that
says of each metric whether it is required; `baseline` and `optionalBaseline` stand
for the baselines of all required and all optional ones; the comparisons come one per
step, and the window ends at the first required one that fails. A result keeps why
it failed, which the code does not store; the properties use it to tell a failure of
the release from an interruption. `Conclude` is the tail of `check` in one step, as
`CheckRun` has its interleavings. A comparison whose baseline is missing always fails in
the code and is free in the model, which only adds behaviours.

### ChangeCoverage

One invocation is `load`, `links`, `drift`, `window`, `finalize`, `correlate` (one
declaration a step), `checkpoint`, `decide`. The gates end in the engine's `Checkpoint`,
here with only what matters to the coverage: the report may be saved or not, the
process may go on or be interrupted, and a run that observes is resumed from the saved report, coverage
included. Declarations, artifacts and fleet answers are records of the fields that
`changeMatches`, `validateExpectedChangeLinks` and the gate look at; `Any` is a field that
a declaration leaves open. `used` is the local of `correlateChanges`.

Worth knowing: the verdict depends on the order of the declarations. A broad one in
front of a narrow one takes both observations, is ambiguous, and leaves the narrow one
missing; in the other order both match. It errs only towards failing, which
`PassAccountsForAll` states. Only declarations that compete for an observation can have
that: `VerdictIsExact` says that where none do, the gate passes only if each required
change happened exactly once and nothing undeclared did, and that such a coverage passes unless a
declaration is ambiguous. It leaves open what an ambiguity does, because code and documentation disagree:
a required declaration that fits two observations blocks, an optional one is only counted among
the `missingOptional` and the release passes, while line 36 of the repository's README says that what is
ambiguous blocks. The run `ambiguous_optional` shows it. Fleet changes are
looked at only if some declaration has the source fleet or topology. The sorting of
observations, whose order the verdict does not depend on otherwise, is left out.

### Delivery

`LoadCandidate` decides what can be decided before the evidence, `ScanEvidence` is one
turn of the loop with both maps (`latest` by criterion, `machine` by
`candidateMachineKey`), `JudgeCandidate` the verdict. `buildGitManifest` is one step per git
command, and `MoveRef` moves the repository's refs between them: the base and the
target are resolved once, but `git diff` resolves the names again. `CheckProvenance`
compares the target with the candidate's sources and checks. Patterns, the
classification of sensitive files and directories are constants.

What `ReadDiff` sees of two trees is what the code sees. `Listings` is what `git diff --name-only`
may print with git's default rename detection: each file that was added or changed, and those removed
ones that git does not take for the old name of an added one (a free choice, by contents and
configuration). `Printed` is the name git prints of a path, quoted when it is unusual
(`core.quotePath`), and it is that name which is classified and compared with `expected_files`.
`TailOf` and `LinesLeft` are `boundedTail`: the last 64 KiB stay, here `Room` names, and of the
name at the cut any fragment.

Worth knowing: two passing evidences of one check with the same date and attempt
leave the first in the file; freshness is judged when the gate runs, so a long
window may end with a candidate that has gone stale; the target need not contain
every source. `SensitiveDeclared` holds while no ref moves: the manifest names commits,
the diff is of names. And it speaks only of the files that the gate can see: of a diff whose names
fill more than 64 KiB the first are dropped, in git's order (`.github/`, `config/` and `deploy/`
sort early), and an undeclared migration or configuration file among them passes the gate; so does
one whose name git quotes and the classification no longer knows, and a removed one that git pairs
with an added file. Warnings that git prints to stderr go to the same buffer: they take room in a diff,
and make `rev-parse` and `git status` fail the gate rather than pass it.

### Approvals

A report stands for its run and its digest. `stage` is what the run store would answer,
`report` the file at the path, which `ReplaceReport` publishes, removes or puts back (also
after a failed save or an abandonment, as `CheckRun` shows). `op[a]` is what an approver is
doing: `confirm` goes `identify`, `choose` (ApprovalOutputPath), `load`, `find`
(FindActive), `create`, `link`; a request goes `token`, `list` and `scan`
(latestActive), `identify`, `choose`, `create`, `link`, `reload`, `lookup`. Each is one read or
write of a file or of the store. `window` is the client's entry in the failure limiter.
What an approver asked for, `Asking`, is what the abstract register sees of it until the
answer is linked to its path (`os.Link`, which never replaces). Every other end is a
`Withdraw`, and so is an approval that lands at the path of another digest, because no reader
takes it for an answer. Choosing a path and reading the report again are stutters.
`steady` is a history variable: the report has not changed since the approver asked
for active runs. Without it the properties would be false, because nothing ties the
path to a run.

Worth knowing: `docs/operations.md:70` says that approval is disabled while any run is
active; the code blocks only runs of the same release and plan. The console lists the
runs before it reads the report and `confirm` does so after: a report that is published
after the listing can be approved from the console while its run is still being
finalized. latestActive lists 100 runs, and an active one beyond them is not seen.
When the report is replaced between the choice of the path and the creation, an
approval can land at the path of another digest, and blocks that report's own.

## What each run checks

| Run | Instance | What it shows |
|---|---|---|
| `run_store` | a file of any schema, 2 clients that open it, 2 runs, 2 reports, TTL 2 | an opened store is usable, a race of two migrations wedges nothing; one active run, leases on active runs only, finished runs final, stages forward, the schema never going back, and the refinement of `RunLifecycle` |
| `check_run` | 2 processes and an operator, 2 checkpoints, 2 samples, TTL 2, one fault of any kind, fairness | completed implies published, exclusive execution, lease freed on exit, gates not repeated once observing (nor what they found lost to a late `Abandon`), no GO from a window nobody watched to its end; every invocation ends; a rerun completes the run |
| `engine` | 5 plans, 2 samples before the deadline, two faults | decisions are sound, published reports are the saved ones, observation only grows, the plan is decided |
| `change_coverage` | documents of 1 or 2 overlapping declarations, artifacts of up to 2 changes, 4 fleet answers, any interruptions | an observation explains one declaration; what passes is accounted for; where declarations neither compete nor are ambiguous the verdict is exact; database changes are verified; no source is counted twice or forgotten |
| `delivery` | candidates with up to 3 evidences in every order, read on time or late, 6 commits, a buffer of 2 names, one moving ref | an unsuperseded failure counts, a superseded one does not; what is released was verified; the sensitive files in view are declared |
| `approvals` | a confirm and 2 requests, 2 reports, 3 calls | approvals are never relaxed, never replaced, of runs that are over; answers are one's own; attempts are bounded; the refinement of `ApprovalRegister` |
| `stale_entry` | 2 processes, one signal | violated: a saved final report is replaced |
| `failed_checkpoint` | 1 process, one failed statement | violated: a report is published that was never saved as final |
| `late_heartbeat` | 1 process, no fault | violated: GO exits with a failure |
| `interrupted_verdict` | 1 signal | violated: an interruption becomes a NO-GO |
| `lost_bad_sample` | no fault | violated: a window passes with a failed sample in it |
| `ambiguous_optional` | that of `change_coverage` | violated: a release passes with an ambiguous optional declaration |

The six violated properties are statements of the documentation or of the tool's
own output; each counterexample is an entry under "findings", with the sentence.

### Bounds, and why they are enough

- Two clients in `run_store`: every conflict in the store is between the SELECT
  and the UPDATE of one client and a statement of another, and every conflict of a
  migration between two processes. Two runs: the index is about a pair. TTL 2 has a
  fresh, an ageing, an expiring and an expired lease. `UsedByBoth` leaves out calls of one
  client while the other still migrates; nothing else is bounded. The theorems lift the safety
  part to all sizes and to the order that `UsedByBoth` leaves out.
- Two processes in `check_run`: one that holds a stale record or fails, and one that
  overtakes it or reruns. A third adds no conflict of another kind, and the theorems hold the safety
  properties for any number. Checkpoints 2: one before a refusal and one
  after. MaxSamples 2: one between the start and the deadline. MaxFaults 1 bounds
  the faults of a behaviour, not their place; the theorems have no such bound.
- MaxSamples in `Engine` bounds the samples after which only the deadline is
  left; a resumed observation takes one of its own at the start, as in the code, so
  the list still grows with every rerun. MaxFaults 2 gives an interruption of
  the run and one of its rerun. The five plans: a candidate with its repository and an
  optional check; checks with expected changes and drift; observations with a
  fleet alone, with expected changes, and with a required and an optional metric.
- `change_coverage`: two declarations are what one observation can be disputed between,
  two observations what makes one ambiguous. The declarations are chosen to
  overlap: broad and narrow, required and optional, verified and not; the changes
  have a denied one, one without changed fields and one of another node. The
  number of interruptions is not bounded.
- `delivery`: three evidences are a failure, what supersedes it, and another that must
  not; dates 1 to 6 around the export at 5 and readings at 5 and 7 with MaxAge 3 and
  Skew 1 put evidences on both sides of each limit. Sources are one or two, of the
  target, an ancestor and an unrelated commit, by the path of the plan's repository and by
  another path to it; one plan's repository is gone. MaxMoves 1: a ref moves between any two commands.
  Room 2 and a commit that changes three files: the first is cut away or left as a fragment, which may
  itself look sensitive. One commit removes a file, one replaces it by one whose name is quoted, so that
  each limit of `SensitiveDeclared` is met by a behaviour that needs it.
- `approvals`: MaxCalls 3 lets every approver act, or one request fail, wait and come
  back. Limit 1 and two requests is the least at which requests in flight pass the
  limiter together; ListLimit 1 and two runs the least at which a listing misses one.

### Fairness and time

`FairSpec` of `CheckRun` has weak fairness for each process, each heartbeat, each
pending statement and the clock. The code justifies it: goroutines are scheduled,
every statement has a five-second deadline or a busy timeout, a command has a timeout,
and the observation ends at its deadline. No fault has to happen. `Engine` has weak
fairness for its progress, that is, the operator reruns an unfinished plan: the
documentation asks for that after exit 3. The other modules state safety only: their
parts end by themselves, or wait for somebody to call.

`Timely` says that a heartbeat renews at least once per tick, with a TTL of two ticks or
more; the code ticks every third of the TTL. `ExclusiveExecution` needs it: a process that
is suspended for longer than the TTL can be overtaken while it is in a gate, and only
finds out at its next save. What a late process still cannot do, save anything, does
not depend on `Timely`: it is `ImplementsLifecycle` of the store.

Symmetry is used for safety runs only.

## What is proved

For every value of the constants that satisfies the named assumptions, all of which
TLC evaluates in the runs:

| Module | Theorems | Assumptions |
|---|---|---|
| `RunStoreProofs` | `TypeCorrect`, `Invariance`, `OneActiveHolds`, `LeaseOnlyOnActiveHolds`, `StageOrderHolds`, `TerminalFinalHolds`, `Refinement` (`Spec => ImplementsLifecycle`) | the TTL is positive; a lease token is never the empty owner; `Abandon` makes a report of a report |
| `StoreProofs` | `MigrationInvariant`, `StoreMigrates`, `StoreIsTable`, `Usable`, `OnlyFaultsWedge`, `NeverBack`, `StoreImplements` (`StoreSpec => ImplementsLifecycle`) | those of `RunStoreProofs`; the schema of the code has version 3 |
| `CheckRunProofs` | `Invariant`, `TypeCorrect`, `Published`, `Freed`, `Exclusive` (assuming `Timely`), `GatesOnce`, `GoWatched`, `ImplementsStore` (`Spec => Store!Spec`), `DecidedStays`, `ImplementsRun` (`Spec => Store!ImplementsLifecycle`) | names are distinct; the TTL is at least two ticks; at least one checkpoint; an observation has two samples |
| `EngineProofs` | `Invariant`, `TypeCorrect`, `SoundDecisions`, `PublishedSaved`, `ObservationGrows` | plans are what `ValidatePlan` lets through |
| `ChangeCoverageProofs` | `Invariant`, `TypeCorrect`, `EachItsOwn`, `PassIsEarned`, `DatabaseIsVerified`, `SourcesOnce`, `ExactVerdict` | plans are what `ValidatePlan` lets through; a document is a list of declarations |
| `DeliveryProofs` | `Invariant`, `TypeCorrect`, `FailuresCount`, `OldIsForgiven`, `TargetIsVerified`, `SensitiveIsDeclared` | dates and attempts are numbers, evidence is a finite list, a commit has finitely many files |
| `ApprovalsProofs` | `Invariant`, `TypeCorrect`, `NotRelaxed`, `AnswersStay`, `OwnAnswers`, `OnlyFinishedRuns`, `BoundedAttempts`, `Refinement` (`Spec => ImplementsRegister`) | decisions are the three of the code; approvers are distinct and requests finitely many |

**RunStore.** None of the safety properties is inductive alone. A pending UPDATE could
move a run anywhere as far as `OneActive` is concerned, so `IInv` adds `PendingAllowed`:
each pending write is one its SELECT allowed, from the stage it saw, in the name of its
client or of nobody. `TerminalFinal` needs `NoStrayExpiry`: a row without an owner
has no expiry, otherwise the passing of time would change a finished row. With these,
`CommitMoves` says what a write that finds its row does, and each property needs one
more lemma about a single step. The refinement maps `left <= 0` to the set `lapsed` and
the clients with a pending write to `asking`; its lemma `LifecycleStep` maps each
statement to one abstract action or a stutter.

**Store.** That an opened store is usable says nothing of a process between two statements of
`migrate`. `MigrationInv` therefore says what each process knows of the file at its next
statement (`Knows`), that at most one is behind the index or behind the first column
(`OneWinner`: every other one is refused by the same statement), and that a schema between
two versions has that one at work or has seen a fault (`Attended`). A statement that gets
through then takes the file from one of nine schemas to the next (`StatementMoves`),
and no other process knew anything that it changes (`Beside`). Opening and using touch
disjoint variables, so `Store` is a migration and a table at once, and the theorems of both hold of it.

**CheckRun.** `RunStoreProofs` is instantiated with the processes and the operator as
clients, so its invariant holds of the store in the composition. To it `Inv` adds, for each
process: the run it has started (`Started`), its heartbeat (`Beats`, and no two of one
run), the save it waits for, which is of its own run and token, and of the
published report if it completes (`Calls`, `Publishing`, `Closing`), that who
owns a row is a process at its lease or one that ended without giving it back (`Owns`), and that a timely
heartbeat keeps an active lease from lapsing (`Beating`). `Published`, `Freed` and
`Exclusive` follow. Each step is one statement of the store or none (`Sound`), which is
`ImplementsStore`: the theorems of the store, and through `Refinement` the abstract run, hold
of the whole. `GatesOnce` needs a second invariant, `AuthorInv`: who wrote an observing
run's report is carried by the lease, a process that still has a `checking` record is
refused its first checkpoint, a run past its gates has a report (`Reported`), and an `Abandon`
that read it while it observed brings a report of its author (`ClosesOwn`). `GoWatched` needs a
third, `WatchInv`, about every place a report can be: memory, row, pending save, file. A GO there
is of a completed window; an open window has HOLD; and no sample of a process is anywhere before
it takes its first (`Clear`), so that the number it counts is the number it took.

**Engine.** Each gate that the engine has passed is `Settled`: it has an answer in the
results, or the report already has a required failure and can only become NO-GO. `Inv`
says which gates are settled at each `pc` (`Ready` after the gates, `ComparedUpTo` during the
comparisons, `Complete` before deciding); `PublishInv` that a report about to be
published is saved or says that it was not; `GrowthInv` that the memory extends the saved
observation.

**ChangeCoverage.** The invariant gives the shape of the coverage, that a matched
declaration's observation fits it and is in `used`, that sources are distinct, and that a
gate which ran has left its mark: a link check that failed is in `failed`, an artifact
that was due is among the sources or failed. Passing then means every mark is good.
For `ExactVerdict`, `VerdictInv` adds that `used` is at each turn exactly what fits an
earlier declaration, and the verdict the one of the loop; without disputes nothing that fits
the next declaration can be in `used`.

**Delivery.** After scanning n evidences the maps hold, for each check and criterion seen,
one that is no older than any of its kind, failures first at equal dates (`HoldsMachine`,
`HoldsLatest`); the order of the file does not matter. `GitInv` says how far the manifest
has been read, and `Accepts` that of a passing diff no sensitive name in view was unexpected: a listing is a
part of the paths that differ, so what is among the last of these is among the last of those it prints
(`AcceptedInView`).

**Approvals.** A sidecar with a digest in its name exists only beside a legacy one of
another report, and the legacy one never changes: hence the first answer stays
(`SidecarInv`). What an approver knows of a steady report stays true (`Knows`, `KnowsRun`).
The count and the requests in flight are bounded together (`LimiterInv`). In the refinement of
the register each step moves the request of one approver (`OneMoves`), and only a link changes an
answer: at a path of its own report it is the `Record`, since what is linked is what was asked for
and does not relax the report; at any other path no answer changes (`LinkStep`).

Only model-checked: liveness (`Termination`, `RerunCompletes`, `EventuallyDecided`), which under
fairness is out of the prover's reach, and the six violations. Every invariant and
action property of a passing run is a theorem.

## What is not modelled, and why

- `--force`, and `check` without a state database: the first gives up immutability
  on request, the second has no second state to disagree with. `confirm --out`,
  `confirm --state ""` and a missing database of `confirm` likewise skip what `Approvals` is
  about.
- Errors of `store.Close` on the last exit: as in `late_heartbeat`, they can make a
  completed GO exit with 1.
- Gates of checks, fleet, HTTP, SQL and files: I/O. Their outcome is free in `Engine`.
- Metric arithmetic: floating point. Which comparisons are made, and when the window
  stops for one, is in `Engine`.
- `ArtifactMatches` compares bytes. A report that went through the database and back
  is taken to print as it did. `decodeApproval`, and `by`, note and time of an approval.
- The GET routes, the list of runs and a read-only open (which takes any version from
  1 to 3) only read.
- A sample that is saved between the SELECT and the UPDATE of an `Abandon` is overwritten. The
  model has it, the abstract run allows it and no document promises otherwise; what stays is the author
  (`GatesNotRepeated`).
- The tail buffer of the checks that run a command, which only shortens the evidence they keep, and
  in `Delivery` the bytes of a name: `Room` counts names. Ending a process group is the operating
  system's.
- Onboarding, guidance, diagnostics, the browser boundary and the installers keep
  no state.

## Plan

Done: every module and theorem above.

What would come next:

1. The faults of the gates that talk to a fleet: paging, retries and deadlines
   of the HTTP client, as a source of the outcomes that `Engine` chooses freely.
2. `Approvals` over an instance of `CheckRun` rather than its own summary of the runs:
   the summary is written to allow all that the runs do, and its theorems carry over
   if it does; nothing checked here shows it yet.
