------------------------------ MODULE CheckRun ------------------------------
(***************************************************************************)
(* cmd/releaseguard: concurrent invocations of `releaseguard check` for    *)
(* one plan, one state database (RunStore) and one --out path, each with   *)
(* its main goroutine and its lease heartbeat, and an operator who may     *)
(* abandon a run.  internal/guard appears by its calls of `progress`: the  *)
(* checkpoints, the observation samples and the final one.                 *)
(*                                                                         *)
(* Every gate passes here, so a report that is not GO is the work of the   *)
(* store, the lease or an interruption, never of the release.              *)
(***************************************************************************)
EXTENDS Integers, FiniteSets

CONSTANTS
  Procs,        \* invocations; each runs once, with a fresh lease token
  Operator,     \* the caller of `runs --abandon`
  None, NoReport, TTL,
  Checkpoints,  \* checkpoints of the deterministic gates
  Observes,     \* the plan asks for an observation window
  MaxSamples,   \* bound: samples one invocation takes
  MaxFaults,    \* bound: faults in a behaviour
  Faults,       \* kinds of fault that happen (a subset of FaultKinds)
  Timely        \* heartbeats keep pace with the clock

FaultKinds == {"signal", "crash", "store", "disk", "abandon"}

ASSUME ProcsAssumption == Operator \notin Procs /\ None \notin Procs \cup {Operator}
\* The heartbeat renews three times per LeaseTTL: the TTL has several ticks.
ASSUME BoundsAssumption == /\ TTL \in Nat \ {0, 1}
                           /\ Checkpoints \in Nat \ {0}
                           /\ MaxSamples \in Nat
                           /\ MaxFaults \in Nat
ASSUME SwitchesAssumption == /\ Observes \in BOOLEAN /\ Timely \in BOOLEAN
                             /\ Observes => MaxSamples >= 2
ASSUME FaultsAssumption == Faults \subseteq FaultKinds

VARIABLES
  rows, call,  \* the store
  pc,       \* process -> where its main goroutine is
  run,      \* process -> record.ID
  stage,    \* process -> record.Stage, as FindActive read it
  work,     \* process -> the report in memory (record.Report before the gates)
  todo,     \* process -> checkpoints still to come
  hb,       \* process -> its heartbeat goroutine
  ctx,      \* process -> ctx.Err() # nil
  out,      \* process -> why it is closing, then how it exited
  file,     \* the report at --out
  faults    \* faults so far

local == <<pc, run, stage, work, todo, hb, ctx, out>>
vars  == <<rows, call, local, file, faults>>

-----------------------------------------------------------------------------
Samples == Procs \X (1 .. MaxSamples)

\* A report: its author, Observation.Status, Decision, Observation.Samples.
Report == [by       : Procs \cup {Operator},
           status   : {"none", "observing", "completed"},
           decision : {"GO", "HOLD", "NO-GO"},
           samples  : SUBSET Samples]

\* Abandon: the report it read with Decision HOLD, or a new HOLD report.
HeldReport == [r \in Report \cup {NoReport} |->
  IF r = NoReport
  THEN [by |-> Operator, status |-> "none", decision |-> "HOLD", samples |-> {}]
  ELSE [r EXCEPT !.decision = "HOLD"]]

\* report_json IS NULL is no report.
ASSUME NoReportAssumption == NoReport \notin Report

Store == INSTANCE RunStore WITH
  Runs <- Procs, Clients <- Procs \cup {Operator},
  Reports <- Report, Held <- HeldReport

Init ==
  /\ Store!Init
  /\ pc     = [p \in Procs |-> "find"]
  /\ run    = [p \in Procs |-> None]
  /\ stage  = [p \in Procs |-> "absent"]
  /\ work   = [p \in Procs |-> NoReport]
  /\ todo   = [p \in Procs |-> 0]
  /\ hb     = [p \in Procs |-> "off"]
  /\ ctx    = [p \in Procs |-> FALSE]
  /\ out    = [p \in Procs |-> "none"]
  /\ file   = NoReport
  /\ faults = 0

Fault(kind) ==
  /\ kind \in Faults
  /\ faults < MaxFaults
  /\ faults' = faults + 1

Goto(p, label) == pc' = [pc EXCEPT ![p] = label]

\* log.Fatal before a lease is held: exit 1, the store is simply closed.
Die(p) ==
  /\ pc'  = [pc EXCEPT ![p] = "done"]
  /\ out' = [out EXCEPT ![p] = "fatal"]

-----------------------------------------------------------------------------
(***************************************************************************)
(* check, up to the lease (main.go 135-151).                               *)
(***************************************************************************)

\* FindActive: ErrNoRows leads to Create, or ends Create's own second look.
Find(p) ==
  /\ pc[p] \in {"find", "refind"}
  /\ IF ctx[p]
     THEN Die(p) /\ UNCHANGED <<run, stage, work>>
     ELSE IF Store!Active = {}
     THEN /\ IF pc[p] = "find"
             THEN Goto(p, "create") /\ UNCHANGED out
             ELSE Die(p)
          /\ UNCHANGED <<run, stage, work>>
     ELSE \E id \in Store!Active :
            /\ run'   = [run EXCEPT ![p] = id]
            /\ stage' = [stage EXCEPT ![p] = rows[id].stage]
            /\ work'  = [work EXCEPT ![p] = rows[id].report]
            /\ Goto(p, "acquire")
            /\ UNCHANGED out
  /\ UNCHANGED <<rows, call, todo, hb, ctx, file, faults>>

\* The INSERT; when it conflicts Create looks for the active run again.
Create(p) ==
  /\ pc[p] = "create"
  /\ IF Store!Insertable(p) /\ ~ctx[p]
     THEN /\ Store!Create(p)
          /\ run'   = [run EXCEPT ![p] = p]
          /\ stage' = [stage EXCEPT ![p] = "checking"]
          /\ Goto(p, "acquire")
     ELSE /\ Goto(p, "refind")
          /\ UNCHANGED <<rows, call, run, stage>>
  /\ UNCHANGED <<work, todo, hb, ctx, out, file, faults>>

\* Seeded bug: a run at "finalizing" is executed again from the start.
EntryRestarting(p) ==
  IF work[p] # NoReport /\ stage[p] = "observing" THEN "poll" ELSE "checks"

\* Which engine entry main.go picks, from the record FindActive returned.
Entry(p) ==
  IF work[p] # NoReport /\ stage[p] = "observing" THEN "poll"
  ELSE IF work[p] # NoReport /\ stage[p] = "finalizing" THEN "returned"
  ELSE "checks"

\* Seeded bug: the new report's Decision is left at its zero value.
NewReportUndecided(p) == [by |-> p, status |-> "none", decision |-> "", samples |-> {}]

\* RunWithProgress starts a report of its own; the other two keep the record's.
NewReport(p) == [by |-> p, status |-> "none", decision |-> "GO", samples |-> {}]

\* Seeded bug: a refused process waits for the lease.
AcquireRefusedWaits(p) == UNCHANGED <<pc, out>>

\* "run is already being executed by another process": exit 1.
AcquireRefused(p) == Die(p)

\* acquireRunLease, and the choice at main.go 176-182.
Acquire(p) ==
  /\ pc[p] = "acquire"
  /\ \/ /\ Store!AcquireLease(p, run[p]) /\ ~ctx[p]
        /\ hb'    = [hb EXCEPT ![p] = "on"]
        /\ work'  = [work EXCEPT ![p] = IF Entry(p) = "checks" THEN NewReport(p) ELSE @]
        /\ todo'  = [todo EXCEPT ![p] = IF Entry(p) = "checks" THEN Checkpoints ELSE 0]
        /\ stage' = [stage EXCEPT ![p] = "absent"]
        /\ Goto(p, Entry(p))
        /\ UNCHANGED out
     \/ /\ Store!Unleasable(p, run[p]) \/ ctx[p]
        /\ AcquireRefused(p)
        /\ UNCHANGED <<rows, call, hb, work, todo, stage>>
  /\ UNCHANGED <<run, ctx, file, faults>>

-----------------------------------------------------------------------------
(***************************************************************************)
(* The engine, by its progress calls.  Emit starts UpdateOwned; the next   *)
(* step of the process waits for its result.                               *)
(***************************************************************************)
Emit(p, to, report) == Store!UpdateRead(p, run[p], p, to, report)

Ready(p)   == call[p].op = "ok"
Refused(p) == call[p].op = "error"

\* A gate has run and checkpoint() saves the report as HOLD.  When the context
\* is done, the engine returns whatever the save says.
Checkpoint(p) ==
  /\ pc[p] = "checks" /\ Ready(p) /\ todo[p] > 0
  /\ Emit(p, "checking", [work[p] EXCEPT !.decision = "HOLD"])
  /\ todo' = [todo EXCEPT ![p] = @ - 1]
  /\ IF ctx[p]
     THEN /\ work' = [work EXCEPT ![p].decision = "HOLD"]
          /\ Goto(p, "interrupted")
     ELSE UNCHANGED <<work, pc>>
  /\ UNCHANGED <<run, stage, hb, ctx, out, file, faults>>

\* A checkpoint that was not saved ends the run with NO-GO.
CheckpointRefused(p) ==
  /\ pc[p] = "checks" /\ Refused(p)
  /\ work' = [work EXCEPT ![p].decision = "NO-GO"]
  /\ Goto(p, "returned")
  /\ UNCHANGED <<rows, call, run, stage, todo, hb, ctx, out, file, faults>>

\* The final progress call; "completed" is saved as "finalizing".
Finish(p, decision) ==
  LET final == [work[p] EXCEPT !.decision = decision,
                               !.status = IF @ = "none" THEN @ ELSE "completed"]
  IN /\ Emit(p, "finalizing", final)
     /\ work' = [work EXCEPT ![p] = final]
     /\ Goto(p, "final")
     /\ UNCHANGED <<run, stage, todo, hb, ctx, out, file, faults>>

\* The gates are done: open the observation window, or finish.
GatesDone(p) ==
  /\ pc[p] = "checks" /\ Ready(p) /\ todo[p] = 0
  /\ IF Observes
     THEN LET opened == [work[p] EXCEPT !.status = "observing", !.decision = "HOLD"]
          IN /\ Emit(p, "observing", opened)
             /\ work' = [work EXCEPT ![p] = opened]
             /\ Goto(p, "opened")
             /\ UNCHANGED <<run, stage, todo, hb, ctx, out, file, faults>>
     ELSE Finish(p, "GO")

\* The opening was saved, or it was not: NO-GO with Status still "observing".
Opened(p) ==
  /\ pc[p] = "opened" /\ Store!Idle(p)
  /\ IF Ready(p)
     THEN Goto(p, "poll") /\ UNCHANGED work
     ELSE /\ work' = [work EXCEPT ![p].decision = "NO-GO"]
          /\ Goto(p, "returned")
  /\ UNCHANGED <<rows, call, run, stage, todo, hb, ctx, out, file, faults>>

SamplesBy(p) == {s \in work[p].samples : s[1] = p}

\* One sample of observe, at the start, at a poll or at the deadline.
Sample(p) ==
  /\ \/ pc[p] = "poll"
     \/ pc[p] = "polled" /\ Ready(p)
  /\ Cardinality(SamplesBy(p)) < MaxSamples
  /\ LET more == [work[p] EXCEPT
                    !.samples = @ \cup {<<p, Cardinality(SamplesBy(p)) + 1>>}]
     IN /\ Emit(p, "observing", more)
        /\ work' = [work EXCEPT ![p] = more]
  /\ \/ pc[p] = "polled" /\ Goto(p, "last")
     \/ Cardinality(SamplesBy(p)) + 1 < MaxSamples /\ Goto(p, "polled")
  /\ UNCHANGED <<run, stage, todo, hb, ctx, out, file, faults>>

\* Seeded bug: what stopped the observation is asked of the last save alone.
ObservedUnlessRefused(p) ==
  /\ \/ pc[p] = "last" /\ Store!Idle(p)
     \/ pc[p] = "polled" /\ Store!Idle(p) /\ (Refused(p) \/ ctx[p])
  /\ Finish(p, IF Ready(p) THEN "GO" ELSE "NO-GO")

\* observe has returned: passed after the deadline sample, failed when a
\* sample was not saved, stopped when the context is done.
Observed(p) ==
  /\ \/ pc[p] = "last" /\ Store!Idle(p)
     \/ pc[p] = "polled" /\ Store!Idle(p) /\ (Refused(p) \/ ctx[p])
  /\ IF ctx[p]
     THEN LET held == [work[p] EXCEPT !.decision = "HOLD"]
          IN /\ Emit(p, "observing", held)
             /\ work' = [work EXCEPT ![p] = held]
             /\ Goto(p, "interrupted")
             /\ UNCHANGED <<run, stage, todo, hb, ctx, out, file, faults>>
     ELSE Finish(p, IF Ready(p) THEN "GO" ELSE "NO-GO")

\* The engine returns once its last save has been tried: a final report that
\* was not saved becomes NO-GO, an interrupted one stays as it is.
EngineReturns(p) ==
  /\ pc[p] \in {"final", "interrupted"} /\ Store!Idle(p)
  /\ work' = IF pc[p] = "final" /\ Refused(p)
             THEN [work EXCEPT ![p].decision = "NO-GO"] ELSE work
  /\ Goto(p, "returned")
  /\ UNCHANGED <<rows, call, run, stage, todo, hb, ctx, out, file, faults>>

-----------------------------------------------------------------------------
(***************************************************************************)
(* check, after the engine (main.go 183-221).                              *)
(***************************************************************************)
Close(p, why) ==
  /\ out' = [out EXCEPT ![p] = why]
  /\ Goto(p, "stop")

\* Interrupted reports are not published: exit 3.
Returned(p) ==
  /\ pc[p] = "returned"
  /\ IF ctx[p] \/ work[p].status = "observing"
     THEN Close(p, "interrupted")
     ELSE Goto(p, "publish") /\ UNCHANGED out
  /\ UNCHANGED <<rows, call, run, stage, work, todo, hb, ctx, file, faults>>

\* Seeded bug: any report already at the path will do.
PublishableAnything(p) == TRUE

\* os.Link succeeds on a free path, ArtifactMatches on the very same report.
Publishable(p) == file \in {NoReport, work[p]}

Publish(p) ==
  /\ pc[p] = "publish"
  /\ IF Publishable(p)
     THEN /\ file' = IF file = NoReport THEN work[p] ELSE file
          /\ Goto(p, "complete")
          /\ UNCHANGED out
     ELSE Close(p, "fatal") /\ UNCHANGED file
  /\ UNCHANGED <<rows, call, run, stage, work, todo, hb, ctx, faults>>

\* UpdateOwned(completed), of the report that was published.
Complete(p) ==
  /\ pc[p] = "complete"
  /\ Emit(p, "completed", work[p])
  /\ Goto(p, "completing")
  /\ UNCHANGED <<run, stage, work, todo, hb, ctx, out, file, faults>>

Completed(p) ==
  /\ pc[p] = "completing" /\ Store!Idle(p)
  /\ Close(p, IF Ready(p) THEN "decided" ELSE "fatal")
  /\ UNCHANGED <<rows, call, run, stage, work, todo, hb, ctx, file, faults>>

\* Seeded bug: log.Fatal without closeStore(true).
ReleasesIfInterrupted(why) == why = "interrupted"

\* closeStore(true) on every way out but the one through "completed", whose
\* UPDATE has cleared the lease.
Releases(why) == why # "decided"

\* lease.close: the heartbeat is stopped, and its error is ours.
Stop(p) ==
  /\ pc[p] = "stop"
  /\ hb' = [hb EXCEPT ![p] = IF @ = "on" THEN "off" ELSE @]
  /\ Goto(p, IF Releases(out[p]) THEN "release" ELSE "done")
  /\ out' = [out EXCEPT ![p] = IF @ # "decided" THEN @
                               ELSE IF hb[p] = "failed" THEN "fatal"
                               ELSE work[p].decision]
  /\ UNCHANGED <<rows, call, run, stage, work, todo, ctx, file, faults>>

Release(p) ==
  /\ pc[p] = "release"
  /\ Store!ReleaseLease(p, run[p])
  /\ Goto(p, "done")
  /\ UNCHANGED <<run, stage, work, todo, hb, ctx, out, file, faults>>

-----------------------------------------------------------------------------
\* Seeded bug: a failed renewal is recorded but the context is left alone.
HeartbeatLostSilently(p) ==
  /\ hb' = [hb EXCEPT ![p] = "failed"]
  /\ UNCHANGED ctx

\* A failed renewal ends the heartbeat and cancels the run's context.
HeartbeatLost(p) ==
  /\ hb'  = [hb EXCEPT ![p] = "failed"]
  /\ ctx' = [ctx EXCEPT ![p] = TRUE]

\* The heartbeat's ticker fires, at any moment until Stop.
Heartbeat(p) ==
  /\ hb[p] = "on"
  /\ IF Store!Renewable(p, run[p])
     THEN Store!RenewLease(p, run[p]) /\ UNCHANGED <<hb, ctx>>
     ELSE HeartbeatLost(p) /\ UNCHANGED <<rows, call>>
  /\ UNCHANGED <<pc, run, stage, work, todo, out, file, faults>>

\* The statement a call waits for ends; saving may report an error although
\* the row has changed, which is a fault of the store or of the file system.
StatementEnds(c) ==
  /\ ~Store!Idle(c)
  /\ \/ Store!WriteCommits(c) /\ call'[c].op = "ok" /\ UNCHANGED faults
     \/ Store!WriteCommits(c) /\ call'[c].op = "error" /\ Fault("store")
     \/ Store!WriteMisses(c) /\ UNCHANGED faults
     \/ Store!StatementFails(c) /\ Fault("store")
  /\ UNCHANGED <<local, file>>

\* A statement before the lease fails: exit 1, or Create's second look.
StartFails(p) ==
  /\ pc[p] \in {"find", "refind", "create", "acquire"}
  /\ Fault("store")
  /\ IF pc[p] = "create" THEN Goto(p, "refind") /\ UNCHANGED out ELSE Die(p)
  /\ UNCHANGED <<rows, call, run, stage, work, todo, hb, ctx, file>>

\* The UPDATE of AcquireLease commits, but its deadline, a signal or the driver
\* makes it an error: exit 1, with nobody to release the lease.
AcquireUnanswered(p) ==
  /\ pc[p] = "acquire"
  /\ Store!AcquireLease(p, run[p])
  /\ \/ ctx[p] /\ UNCHANGED faults
     \/ Fault("store")
  /\ pc'  = [pc EXCEPT ![p] = "done"]
  /\ out' = [out EXCEPT ![p] = "unanswered"]
  /\ UNCHANGED <<run, stage, work, todo, hb, ctx, file>>

\* secureFiles fails after the INSERT: exit 1, and the run stays active.
CreateUnsecured(p) ==
  /\ pc[p] = "create" /\ Store!Insertable(p)
  /\ Fault("store")
  /\ Store!Create(p)
  /\ Die(p)
  /\ UNCHANGED <<run, stage, work, todo, hb, ctx, file>>

\* Faults elsewhere: RenewLease or ReleaseLease fail, SIGINT or SIGTERM, a
\* crash at any point, and a report that cannot be written.  A release that is
\* carried out but reported as an error is a Release: only the log shows it.
RenewFails(p) ==
  /\ hb[p] = "on"
  /\ Fault("store")
  /\ HeartbeatLost(p)
  /\ UNCHANGED <<rows, call, pc, run, stage, work, todo, out, file>>

\* secureFiles fails after the renewal, or its answer is lost: the heartbeat
\* ends all the same.
RenewUnanswered(p) ==
  /\ hb[p] = "on"
  /\ Store!RenewLease(p, run[p])
  /\ Fault("store")
  /\ HeartbeatLost(p)
  /\ UNCHANGED <<pc, run, stage, work, todo, out, file>>

ReleaseFails(p) ==
  /\ pc[p] = "release"
  /\ Fault("store")
  /\ Goto(p, "done")
  /\ out' = [out EXCEPT ![p] = "unreleased"]
  /\ UNCHANGED <<rows, call, run, stage, work, todo, hb, ctx, file>>

Signal(p) ==
  /\ pc[p] # "done" /\ ~ctx[p]
  /\ Fault("signal")
  /\ ctx' = [ctx EXCEPT ![p] = TRUE]
  /\ UNCHANGED <<rows, call, pc, run, stage, work, todo, hb, out, file>>

Crash(p) ==
  /\ pc[p] # "done"
  /\ Fault("crash")
  /\ Store!Forget(p)
  /\ pc'  = [pc EXCEPT ![p] = "done"]
  /\ out' = [out EXCEPT ![p] = "crashed"]
  /\ hb'  = [hb EXCEPT ![p] = "off"]
  /\ UNCHANGED <<run, stage, work, todo, ctx, file>>

PublishFails(p) ==
  /\ pc[p] = "publish"
  /\ Fault("disk")
  /\ Close(p, "fatal")
  /\ UNCHANGED <<rows, call, run, stage, work, todo, hb, ctx, file>>

\* runs --abandon RUN_ID.
Abandon(id) ==
  /\ rows[id].stage # "absent"
  /\ Fault("abandon")
  /\ Store!AbandonRead(Operator, id)
  /\ UNCHANGED <<local, file>>

\* Time.  When Timely, every running heartbeat ticks at least once per tick.
Tick ==
  /\ Timely => \A p \in Procs : hb[p] = "on" =>
                 rows[run[p]].owner = p /\ rows[run[p]].left = TTL
  /\ Store!Tick
  /\ UNCHANGED <<local, file, faults>>

\* Every process has ended and no statement is pending.
AllDone ==
  /\ \A p \in Procs : pc[p] = "done"
  /\ \A c \in Procs \cup {Operator} : Store!Idle(c)
  /\ UNCHANGED vars

-----------------------------------------------------------------------------
Step(p) ==
  \/ Find(p) \/ Create(p) \/ Acquire(p)
  \/ Checkpoint(p) \/ CheckpointRefused(p) \/ GatesDone(p)
  \/ Opened(p) \/ Sample(p) \/ Observed(p) \/ EngineReturns(p)
  \/ Returned(p) \/ Publish(p) \/ Complete(p) \/ Completed(p)
  \/ Stop(p) \/ Release(p)

Misfortune(p) ==
  \/ StartFails(p) \/ CreateUnsecured(p) \/ AcquireUnanswered(p)
  \/ RenewFails(p) \/ RenewUnanswered(p) \/ ReleaseFails(p)
  \/ Signal(p) \/ Crash(p) \/ PublishFails(p)

Next ==
  \/ \E p \in Procs : Step(p) \/ Heartbeat(p) \/ Misfortune(p)
  \/ \E c \in Procs \cup {Operator} : StatementEnds(c)
  \/ \E id \in Procs : Abandon(id)
  \/ Tick
  \/ AllDone

Spec == Init /\ [][Next]_vars

\* Goroutines that can run do; statements end (the store's 5 s deadlines, the
\* driver); the clock advances.  Nothing obliges a fault to happen.
FairSpec ==
  /\ Spec
  /\ \A p \in Procs : WF_vars(Step(p)) /\ WF_vars(Heartbeat(p))
  /\ \A c \in Procs \cup {Operator} : WF_vars(StatementEnds(c))
  /\ WF_vars(Tick)

-----------------------------------------------------------------------------
Labels == {"find", "create", "refind", "acquire", "checks", "opened", "poll",
           "polled", "last", "final", "interrupted", "returned", "publish",
           "complete", "completing", "stop", "release", "done"}

\* The type invariant of the composition.
TypeOK ==
  /\ Store!TypeOK
  /\ pc \in [Procs -> Labels]
  /\ run \in [Procs -> Procs \cup {None}]
  /\ stage \in [Procs -> {"absent", "checking", "observing", "finalizing"}]
  /\ work \in [Procs -> Report \cup {NoReport}]
  /\ todo \in [Procs -> 0 .. Checkpoints]
  /\ hb \in [Procs -> {"off", "on", "failed"}]
  /\ ctx \in [Procs -> BOOLEAN]
  /\ out \in [Procs -> {"none", "interrupted", "fatal", "decided", "crashed",
                        "unanswered", "unreleased", "GO", "HOLD", "NO-GO"}]
  /\ file \in Report \cup {NoReport}
  /\ faults \in 0 .. MaxFaults

\* A run "only becomes completed after the immutable report is on disk"
\* (operations.md): and it is that very report, whoever published it and
\* whatever was interrupted, refused or retried in between.
CompletedIsPublished ==
  \A id \in Procs : rows[id].stage = "completed" => rows[id].report = file

\* The engine runs gates or samples for this process and has not been told
\* to stop.
Executing(p) ==
  /\ pc[p] \in {"checks", "opened", "poll", "polled", "last", "final"}
  /\ ~ctx[p]

\* With heartbeats that keep pace, two processes never execute the same run,
\* through crashes, failed renewals, take-overs and late signals (lease.go).
ExclusiveExecution ==
  \A p, q \in Procs :
    Executing(p) /\ Executing(q) /\ run[p] = run[q] => p = q

\* Every way out of check gives the lease back, save a crash, a release that
\* the store refused and an acquisition it carried out but reported as an error:
\* after any other exit the next invocation need not wait for the TTL.
LeaseFreedOnExit ==
  \A p, id \in Procs : pc[p] = "done" /\ rows[id].owner = p
                         => out[p] \in {"crashed", "unreleased", "unanswered"}

\* From the moment a run observes, nobody repeats its gates: a process that
\* still holds an older record does not put a report of its own in the row, and
\* an Abandon, however old the report it has read, puts back what those gates
\* found and not the empty HOLD of a run without a report.
GatesNotRepeated ==
  [][\A id \in Procs :
       rows[id].stage = "observing"
         => rows'[id].report.by = rows[id].report.by]_vars

\* The observation this report concludes was watched to its end: one invocation
\* took the first sample and, at the deadline, a later one.
Watched(r) ==
  /\ r.status = "completed"
  /\ \E p \in Procs, n \in 2 .. MaxSamples : {<<p, 1>>, <<p, n>>} \subseteq r.samples

\* A plan that observes never gets a GO, on disk or in a row, from a window that
\* nobody watched to its end: not by resuming from a record that is out of date,
\* by a save that was refused, or by an interruption in between (observe and
\* ResumeObservation, entered as main.go chooses before it holds the lease).
GoIsWatched ==
  Observes => \A r \in {file} \cup {rows[id].report : id \in Procs} :
                r # NoReport /\ r.decision = "GO" => Watched(r)

\* Every invocation ends: no wait for the store, the lease or the heartbeat
\* holds a process for ever.
Termination == \A p \in Procs : <>(pc[p] = "done")

\* Only p is left to run, the lease is free, and --out is free or holds the
\* report that the active run is about to complete with.
Undisturbed(p) ==
  /\ pc[p] = "find" /\ ~ctx[p]
  /\ \A q \in Procs \ {p} : pc[q] = "done"
  /\ \A c \in Procs \cup {Operator} : Store!Idle(c)
  /\ \A id \in Procs : rows[id].left < 0
  /\ \/ file = NoReport
     \/ \E id \in Procs : rows[id].stage = "finalizing" /\ rows[id].report = file

\* Whatever point a crash, a signal, a failed statement or an abandon struck,
\* the next invocation, if no further fault strikes it, completes the run with
\* the report it leaves at --out.
RerunCompletes ==
  \A p \in Procs : \A k \in 0 .. MaxFaults :
    Undisturbed(p) /\ faults = k
      ~> \/ \E id \in Procs : rows[id].stage = "completed" /\ rows[id].report = file
         \/ faults > k

-----------------------------------------------------------------------------
(***************************************************************************)
(* Three statements of the documentation that the code does not keep.      *)
(***************************************************************************)

\* CHANGELOG.md promises that reports are preserved "across interruption,
\* process contention, database locks, and resumed observation": the final
\* report of a run, once saved, is the one the run completes with.
FinalReportKept ==
  [][\A id \in Procs :
       rows[id].stage = "finalizing" /\ rows'[id].stage # "abandoned"
         => rows'[id].report = rows[id].report]_vars

\* operations.md: "after checks finish the run enters `finalizing`, and only
\* becomes `completed` after the immutable report is on disk".  So a report
\* goes to disk as the saved final report of a finalizing run.
PublishesFinalReport ==
  [][file' # file => \E id \in Procs : /\ rows[id].stage = "finalizing"
                                      /\ rows[id].report = file']_vars

\* operations.md, exit table: GO exits 0.  A process that has published its GO
\* report and completed its run does not exit with a failure.
GoExitsZero ==
  \A p \in Procs :
    /\ pc[p] = "done"
    /\ run[p] # None
    /\ rows[run[p]].stage = "completed"
    /\ work[p] = file
    /\ file.decision = "GO"
    => out[p] # "fatal"
=============================================================================
