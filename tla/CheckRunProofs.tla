--------------------------- MODULE CheckRunProofs ---------------------------
(***************************************************************************)
(* Theorems about CheckRun, for any number of invocations, checkpoints,    *)
(* samples and faults of every kind.  The concurrent invocations use the   *)
(* store as RunStore allows, so its invariants hold here as well.          *)
(* Inv ties each process to its row: what it waits for, what it owns, what *)
(* it published.  AuthorInv adds whose report it may save, WatchInv which  *)
(* samples that report has.                                                *)
(***************************************************************************)
EXTENDS CheckRun, FiniteSetTheorems, TLAPS

Table == INSTANCE RunStoreProofs WITH
  Runs <- Procs, Clients <- Procs \cup {Operator},
  Reports <- Report, Held <- HeldReport

Clients == Procs \cup {Operator}

-----------------------------------------------------------------------------
(***************************************************************************)
(* The store of CheckRun is the one that the theorems are about.           *)
(***************************************************************************)
LEMMA TableAssumptions ==
  Table!TTLAssumption /\ Table!NoneAssumption /\ Table!HeldAssumption
<1>1. Table!TTLAssumption
  BY BoundsAssumption DEF Table!TTLAssumption
<1>2. Table!NoneAssumption
  BY ProcsAssumption DEF Table!NoneAssumption
<1>3. Table!HeldAssumption
  BY DEF Table!HeldAssumption, HeldReport, Report
<1> QED BY <1>1, <1>2, <1>3

\* The two instances of RunStore define the same things.
LEMMA SameTypes ==
  /\ Table!TypeOK <=> Store!TypeOK
  /\ Table!Init <=> Store!Init
  /\ \A c : Table!Idle(c) <=> Store!Idle(c)
  /\ Table!Active = Store!Active
  /\ Table!ActiveStages = Store!ActiveStages
  /\ Store!ActiveStages = {"checking", "observing", "finalizing"}
  /\ \A s : Table!Allowed(s) = Store!Allowed(s)
BY DEF Table!TypeOK, Store!TypeOK, Table!Row, Store!Row, Table!AllStages, Store!AllStages,
       Table!ActiveStages, Store!ActiveStages, Table!TerminalStages, Store!TerminalStages,
       Table!Results, Store!Results, Table!PendingWrite, Store!PendingWrite,
       Table!Init, Store!Init, Table!NoRow, Store!NoRow, Table!Result, Store!Result,
       Table!Idle, Store!Idle, Table!Active, Store!Active, Table!Allowed, Store!Allowed

\* And the same statements.
LEMMA SameStatements ==
  /\ Table!Tick <=> Store!Tick
  /\ \A id : Table!Create(id) <=> Store!Create(id)
  /\ \A c, id : /\ Table!AcquireLease(c, id) <=> Store!AcquireLease(c, id)
                /\ Table!RenewLease(c, id) <=> Store!RenewLease(c, id)
                /\ Table!ReleaseLease(c, id) <=> Store!ReleaseLease(c, id)
                /\ Table!AbandonRead(c, id) <=> Store!AbandonRead(c, id)
  /\ \A c : /\ Table!WriteCommits(c) <=> Store!WriteCommits(c)
            /\ Table!WriteMisses(c) <=> Store!WriteMisses(c)
            /\ Table!StatementFails(c) <=> Store!StatementFails(c)
            /\ Table!Forget(c) <=> Store!Forget(c)
  /\ \A c, id, as, to, report :
       Table!UpdateRead(c, id, as, to, report) <=> Store!UpdateRead(c, id, as, to, report)
<1>1. Table!Tick <=> Store!Tick
  BY DEF Table!Tick, Store!Tick
<1>2. \A id : Table!Create(id) <=> Store!Create(id)
  BY SameTypes DEF Table!Create, Store!Create, Table!Insertable, Store!Insertable
<1>3. \A c, id : /\ Table!AcquireLease(c, id) <=> Store!AcquireLease(c, id)
                 /\ Table!RenewLease(c, id) <=> Store!RenewLease(c, id)
  BY SameTypes DEF Table!AcquireLease, Store!AcquireLease, Table!Leasable, Store!Leasable,
     Table!RenewLease, Store!RenewLease, Table!Renewable, Store!Renewable
<1>4. \A c, id : Table!ReleaseLease(c, id) <=> Store!ReleaseLease(c, id)
  BY DEF Table!ReleaseLease, Store!ReleaseLease
<1>5. \A c, id : Table!AbandonRead(c, id) <=> Store!AbandonRead(c, id)
  BY SameTypes DEF Table!AbandonRead, Store!AbandonRead, Table!Abandonable, Store!Abandonable,
     Table!Result, Store!Result
<1>6. \A c : Table!WriteCommits(c) <=> Store!WriteCommits(c)
  BY SameTypes DEF Table!WriteCommits, Store!WriteCommits, Table!WriteMatches,
     Store!WriteMatches, Table!Written, Store!Written, Table!Result, Store!Result,
     Table!TerminalStages, Store!TerminalStages
<1>7. \A c : /\ Table!WriteMisses(c) <=> Store!WriteMisses(c)
             /\ Table!StatementFails(c) <=> Store!StatementFails(c)
             /\ Table!Forget(c) <=> Store!Forget(c)
  BY SameTypes DEF Table!WriteMisses, Store!WriteMisses, Table!WriteMatches,
     Store!WriteMatches, Table!Result, Store!Result, Table!StatementFails,
     Store!StatementFails, Table!Forget, Store!Forget
<1>8. ASSUME NEW c, NEW id, NEW as, NEW to, NEW report
      PROVE  Table!UpdateRead(c, id, as, to, report) <=> Store!UpdateRead(c, id, as, to, report)
  <2>1. Table!UpdateAccepted(id, as, to) <=> Store!UpdateAccepted(id, as, to)
    BY SameTypes DEF Table!UpdateAccepted, Store!UpdateAccepted
  <2>2. Table!UpdateRefused(id, as, to) <=> Store!UpdateRefused(id, as, to)
    BY <2>1 DEF Table!UpdateRefused, Store!UpdateRefused
  <2> QED BY <2>1, <2>2, SameTypes DEF Table!UpdateRead, Store!UpdateRead, Table!Result, Store!Result
<1> QED BY <1>1, <1>2, <1>3, <1>4, <1>5, <1>6, <1>7, <1>8

-----------------------------------------------------------------------------
(***************************************************************************)
(* The inductive invariant.                                                *)
(***************************************************************************)

\* Where a process has its lease, or had it.
Leased == {"checks", "opened", "poll", "polled", "last", "final", "interrupted",
           "returned", "publish", "complete", "completing", "stop", "release"}

\* Where a process waits for a save.
Waiting == {"checks", "opened", "polled", "last", "final", "interrupted", "completing"}

\* A process knows its run, and has a report from its lease on.
Started(p) ==
  /\ pc[p] \in Leased \cup {"acquire"} => run[p] \in Procs /\ rows[run[p]].stage # "absent"
  /\ pc[p] \in Leased => work[p] \in Report

\* The heartbeat runs from the lease to its release, unless it has failed.
Beats(p) ==
  /\ hb[p] = "on" => pc[p] \in Leased \ {"release"}
  /\ pc[p] \in Leased \ {"release"} => hb[p] # "off"
  /\ hb[p] = "failed" => ctx[p]

\* What a process waits for is a save of its own run under its own token; the
\* one to "completed" is of the report it has published.
Calls(p) ==
  ~Store!Idle(p) =>
    /\ pc[p] \in Waiting
    /\ call[p].op = "update" /\ call[p].id = run[p] /\ call[p].as = p
    /\ call[p].to = "completed" <=> pc[p] = "completing"
    /\ pc[p] = "completing" => call[p].report = work[p]

Publishing(p) == pc[p] \in {"complete", "completing"} => file = work[p]

\* A run that was completed is no longer active.
Closing(p) ==
  \/ pc[p] = "completing" /\ call[p].op = "ok"
  \/ pc[p] = "stop" /\ out[p] = "decided"
  => rows[run[p]].stage \notin Store!ActiveStages

\* Only a process that has its lease, or ended without giving it back, owns a row.
Owns(p) ==
  \A id \in Procs : rows[id].owner = p =>
    \/ pc[p] \in Leased /\ run[p] = id
    \/ pc[p] = "done" /\ out[p] \in {"crashed", "unreleased", "unanswered"}

\* A lease that is kept alive stays, as long as its run is active.
Beating(p) ==
  Timely /\ hb[p] = "on" /\ rows[run[p]].stage \in Store!ActiveStages =>
    rows[run[p]].owner = p /\ rows[run[p]].left > 0

Process(p) ==
  /\ Started(p) /\ Beats(p) /\ Calls(p) /\ Publishing(p)
  /\ Closing(p) /\ Owns(p) /\ Beating(p)

\* No two heartbeats of one run.
OneBeat ==
  Timely => \A p, q \in Procs : hb[p] = "on" /\ hb[q] = "on" /\ run[p] = run[q] => p = q

\* The operator only abandons; what is completed is on disk.
Finished ==
  /\ ~Store!Idle(Operator) => call[Operator].op = "abandon"
  /\ \A id \in Procs : rows[id].stage = "completed" =>
       rows[id].report = file /\ file # NoReport

Inv == TypeOK /\ Table!IInv /\ (\A p \in Procs : Process(p)) /\ OneBeat /\ Finished

-----------------------------------------------------------------------------
\* The types of everything but the store.
LocalTypes ==
  /\ pc \in [Procs -> Labels]
  /\ run \in [Procs -> Procs \cup {None}]
  /\ stage \in [Procs -> {"absent", "checking", "observing", "finalizing"}]
  /\ work \in [Procs -> Report \cup {NoReport}]
  /\ todo \in [Procs -> 0 .. Checkpoints]
  /\ hb \in [Procs -> {"off", "on", "failed"}]
  /\ ctx \in [Procs -> BOOLEAN]
  /\ out \in [Procs -> {"none", "interrupted", "fatal", "decided", "crashed",
                        "unanswered", "unreleased", "GO", "HOLD", "NO-GO"}]
  /\ file \in Report \cup {NoReport}
  /\ faults \in 0 .. MaxFaults

LEMMA Types == TypeOK <=> Store!TypeOK /\ LocalTypes
BY DEF TypeOK, LocalTypes

\* What a step of the store does to the rows: no run comes back.
LEMMA RowsForward ==
  ASSUME Inv, [Table!Next]_(Table!vars), NEW id \in Procs
  PROVE  /\ rows[id].stage # "absent" => rows'[id].stage # "absent"
         /\ rows[id].stage \notin Store!ActiveStages \cup {"absent"} => rows'[id] = rows[id]
         /\ Table!IInv' /\ Store!TypeOK'
<1>1. Table!IInv /\ TypeOK
  BY DEF Inv
<1>2. Table!MovesForward(id)
  BY <1>1, TableAssumptions, Table!ForwardStep
<1>3. Table!KeepsDecided(id)
  BY <1>1, TableAssumptions, Table!DecidedStep
<1>4. Table!IInv'
  <2>1. Table!TypeOK' /\ Table!PendingAllowed' /\ Table!OneActive' /\ Table!LeaseOnlyOnActive'
        /\ Table!NoStrayExpiry'
    BY <1>1, TableAssumptions, Table!TypeStep, Table!PendingStep, Table!OneActiveStep,
       Table!LeaseStep, Table!ExpiryStep DEF Table!IInv
  <2> QED BY <2>1 DEF Table!IInv
<1>5. Store!TypeOK'
  <2>1. Table!TypeOK'
    BY <1>4 DEF Table!IInv
  <2> QED BY <2>1, SameTypes, PTL
<1>6. rows[id].stage \in Store!ActiveStages \cup {"absent", "completed", "abandoned"}
  BY <1>1 DEF TypeOK, Store!TypeOK, Store!Row, Store!AllStages, Store!TerminalStages
<1>7. rows[id].stage # "absent" => rows'[id].stage # "absent"
  BY <1>2 DEF Table!MovesForward, Table!Allowed
<1>8. rows[id].stage \notin Store!ActiveStages \cup {"absent"} => rows'[id] = rows[id]
  BY <1>3, <1>6 DEF Table!KeepsDecided, Table!TerminalStages
<1> QED BY <1>4, <1>5, <1>7, <1>8

\* A process that a step leaves alone.
Same(q) ==
  /\ pc'[q] = pc[q] /\ run'[q] = run[q] /\ work'[q] = work[q] /\ hb'[q] = hb[q]
  /\ ctx'[q] = ctx[q] /\ out'[q] = out[q] /\ call'[q] = call[q]
  /\ stage'[q] = stage[q] /\ todo'[q] = todo[q]

\* What the rows may do to such a process: it gets no lease, and keeps one that
\* it keeps alive.
Spared(q) ==
  \A id \in Procs :
    /\ rows'[id].owner = q => rows[id].owner = q
    /\ Timely /\ hb[q] = "on" /\ id = run[q] /\ rows'[id].stage \in Store!ActiveStages
         /\ rows[id].stage \in Store!ActiveStages
         /\ rows[id].owner = q /\ rows[id].left > 0
       => rows'[id].owner = q /\ rows'[id].left > 0

\* A file is published once.
FileKept == file' = file \/ file = NoReport

LEMMA SameProcess ==
  ASSUME Inv, [Table!Next]_(Table!vars), NEW q \in Procs, Same(q), Spared(q), FileKept
  PROVE  Process(q)'
<1>1. /\ Process(q)
      /\ Started(q) /\ Beats(q) /\ Calls(q) /\ Publishing(q) /\ Closing(q) /\ Owns(q) /\ Beating(q)
  BY DEF Inv, Process
<1>2. ASSUME NEW id \in Procs
      PROVE  /\ rows[id].stage # "absent" => rows'[id].stage # "absent"
             /\ rows[id].stage \notin Store!ActiveStages \cup {"absent"} => rows'[id] = rows[id]
  BY RowsForward
<1>3. (Started(q) /\ Beats(q))'
  BY <1>1, <1>2 DEF Started, Beats, Same
<1>4. Calls(q)'
  BY <1>1 DEF Calls, Same, Store!Idle
<1>5. Publishing(q)'
  <2>1. pc[q] \in {"complete", "completing"} => work[q] \in Report
    BY <1>1 DEF Started, Leased
  <2> QED BY <1>1, <2>1, NoReportAssumption DEF Publishing, Same, FileKept
<1>6. Closing(q)'
  <2>1. pc[q] \in {"completing", "stop"} => run[q] \in Procs /\ rows[run[q]].stage # "absent"
    BY <1>1 DEF Started, Leased
  <2> QED BY <1>1, <1>2, <2>1 DEF Closing, Same
<1>7. Owns(q)'
  BY <1>1 DEF Owns, Same, Spared
<1>8. Beating(q)'
  <2> SUFFICES ASSUME Timely, hb[q] = "on", rows'[run[q]].stage \in Store!ActiveStages
               PROVE  rows'[run[q]].owner = q /\ rows'[run[q]].left > 0
    BY DEF Beating, Same
  <2>1. run[q] \in Procs /\ rows[run[q]].stage # "absent"
    BY <1>1 DEF Beats, Started
  <2>2. rows[run[q]].stage \in Store!ActiveStages
    BY <1>2, <2>1
  <2> QED BY <1>1, <2>1, <2>2 DEF Beating, Spared
<1> QED BY <1>3, <1>4, <1>5, <1>6, <1>7, <1>8 DEF Process

\* A step of client c keeps the invariant, is at most one statement of the
\* store, and leaves the other processes alone.
Sound(c) ==
  /\ Inv' /\ [Table!Next]_(Table!vars)
  /\ \A q \in Procs \ {c} : Same(q)

\* A step of one process that changes no row.
LEMMA LocalStep ==
  ASSUME Inv, [Table!Next]_(Table!vars), NEW p \in Procs, rows' = rows,
         \A q \in Procs \ {p} : Same(q), call'[Operator] = call[Operator],
         FileKept, LocalTypes', Process(p)',
         hb'[p] = "on" => hb[p] = "on" /\ run'[p] = run[p]
  PROVE  Sound(p)
<1>1. ASSUME NEW q \in Procs \ {p} PROVE Process(q)'
  <2>1. Spared(q)
    BY DEF Spared
  <2> QED BY <2>1, SameProcess
<1>2. OneBeat'
  BY DEF Inv, OneBeat, Same
<1>3. Finished'
  <2>1. ~Store!Idle(Operator)' => call'[Operator].op = "abandon"
    BY DEF Inv, Finished, Store!Idle
  <2> QED BY <2>1 DEF Inv, Finished, FileKept
<1>4. Table!IInv' /\ Store!TypeOK'
  BY RowsForward
<1>5. TypeOK'
  BY <1>4 DEF TypeOK, LocalTypes
<1>6. \A q \in Procs : Process(q)'
  BY <1>1
<1>7. Inv'
  BY <1>2, <1>3, <1>4, <1>5, <1>6 DEF Inv
<1> QED BY <1>7 DEF Sound

-----------------------------------------------------------------------------
(***************************************************************************)
(* Steps of one process that leave the store alone, or only read it.       *)
(***************************************************************************)
\* A step of process p that changes neither rows nor calls.
LEMMA QuietStep ==
  ASSUME Inv, NEW p \in Procs, rows' = rows, call' = call,
         \A q \in Procs \ {p} : Same(q), FileKept, LocalTypes', Process(p)',
         hb'[p] = "on" => hb[p] = "on" /\ run'[p] = run[p]
  PROVE  Sound(p)
<1>1. [Table!Next]_(Table!vars)
  BY DEF Table!vars
<1> QED BY <1>1, LocalStep

Quiet(p) ==
  \/ Find(p) \/ StartFails(p)
  \/ CheckpointRefused(p) \/ Opened(p) \/ EngineReturns(p)
  \/ Returned(p) \/ Publish(p) \/ PublishFails(p)
  \/ Completed(p) \/ Stop(p) \/ ReleaseFails(p)
  \/ Signal(p) \/ RenewFails(p)
  \/ Heartbeat(p) /\ ~Store!Renewable(p, run[p])

\* A report keeps its type when its decision changes.
Decisions == {"GO", "HOLD", "NO-GO"}

LEMMA Redecided ==
  ASSUME NEW r \in Report
  PROVE  /\ r.decision \in Decisions
         /\ \A d \in Decisions : [r EXCEPT !.decision = d] \in Report
BY DEF Report, Decisions

\* Every quiet action keeps the invariant.
LEMMA QuietSteps ==
  ASSUME Inv, NEW p \in Procs
  PROVE  Quiet(p) => Sound(p)
<1>0. TypeOK /\ LocalTypes /\ Process(p)
  BY Types DEF Inv
<1> USE DEF Goto, Die, Process, Leased, Waiting, Labels
<1>a. pc[p] \in Leased => /\ work[p] \in Report /\ work[p].decision \in Decisions
                          /\ \A d \in Decisions : [work[p] EXCEPT !.decision = d] \in Report
  BY <1>0, Redecided DEF Started
<1>1. ASSUME Find(p) PROVE Sound(p)
  <2>1. rows' = rows /\ call' = call
    BY <1>1 DEF Find
  <2>2. LocalTypes'
    BY <1>0, <1>1 DEF Find, LocalTypes, TypeOK, Store!TypeOK, Store!Row, Store!Active, Store!ActiveStages
  <2>3. FileKept /\ \A q \in Procs \ {p} : Same(q)
    BY <1>0, <1>1 DEF Find, LocalTypes, FileKept, Same
  <2>4. Process(p)'
    BY <1>0, <1>a, <1>1, <2>1 DEF Find, Started, Beats, Calls, Publishing, Closing, Owns, Beating,
       LocalTypes, Store!Idle, Store!Active, Store!ActiveStages
  <2>5. hb'[p] = "on" => hb[p] = "on" /\ run'[p] = run[p]
    BY <1>0, <1>1 DEF Find, Beats, LocalTypes
  <2> QED BY <2>1, <2>2, <2>3, <2>4, <2>5, QuietStep
<1>2. ASSUME CheckpointRefused(p) PROVE Sound(p)
  <2>1. rows' = rows /\ call' = call
    BY <1>2 DEF CheckpointRefused, Refused, Ready
  <2>2. LocalTypes'
    BY <1>0, <1>a, <1>2 DEF CheckpointRefused, Refused, Ready, LocalTypes, Decisions
  <2>3. FileKept /\ \A q \in Procs \ {p} : Same(q)
    BY <1>0, <1>2 DEF CheckpointRefused, Refused, Ready, LocalTypes, FileKept, Same
  <2>a. /\ pc'[p] \in {"returned", "poll"} /\ pc[p] \in Waiting \ {"completing"} /\ Store!Idle(p)
        /\ run' = run /\ hb' = hb /\ ctx' = ctx /\ out' = out /\ file' = file
    BY <1>0, <1>2 DEF CheckpointRefused, Refused, LocalTypes, Calls
  <2>b. work'[p] \in Report
    BY <1>0, <1>a, <1>2 DEF CheckpointRefused, Refused, LocalTypes, Decisions, Refused
  <2>4. Process(p)'
    BY <1>0, <2>1, <2>a, <2>b DEF Started, Beats, Calls, Publishing, Closing, Owns, Beating,
       Store!Idle
  <2>5. hb'[p] = "on" => hb[p] = "on" /\ run'[p] = run[p]
    BY <1>0, <1>2 DEF CheckpointRefused, Refused, Ready, Beats, LocalTypes
  <2> QED BY <2>1, <2>2, <2>3, <2>4, <2>5, QuietStep
<1>3. ASSUME Opened(p) PROVE Sound(p)
  <2>1. rows' = rows /\ call' = call
    BY <1>3 DEF Opened, Ready
  <2>2. LocalTypes'
    BY <1>0, <1>a, <1>3 DEF Opened, Ready, LocalTypes, Decisions
  <2>3. FileKept /\ \A q \in Procs \ {p} : Same(q)
    BY <1>0, <1>3 DEF Opened, Ready, LocalTypes, FileKept, Same
  <2>a. /\ pc'[p] \in {"returned", "poll"} /\ pc[p] \in Waiting \ {"completing"} /\ Store!Idle(p)
        /\ run' = run /\ hb' = hb /\ ctx' = ctx /\ out' = out /\ file' = file
    BY <1>0, <1>3 DEF Opened, LocalTypes, Calls
  <2>b. work'[p] \in Report
    BY <1>0, <1>a, <1>3 DEF Opened, LocalTypes, Decisions, Refused
  <2>4. Process(p)'
    BY <1>0, <2>1, <2>a, <2>b DEF Started, Beats, Calls, Publishing, Closing, Owns, Beating,
       Store!Idle
  <2>5. hb'[p] = "on" => hb[p] = "on" /\ run'[p] = run[p]
    BY <1>0, <1>3 DEF Opened, Ready, Beats, LocalTypes
  <2> QED BY <2>1, <2>2, <2>3, <2>4, <2>5, QuietStep
<1>4. ASSUME EngineReturns(p) PROVE Sound(p)
  <2>1. rows' = rows /\ call' = call
    BY <1>4 DEF EngineReturns, Refused
  <2>2. LocalTypes'
    BY <1>0, <1>a, <1>4 DEF EngineReturns, Refused, LocalTypes, Decisions
  <2>3. FileKept /\ \A q \in Procs \ {p} : Same(q)
    BY <1>0, <1>4 DEF EngineReturns, Refused, LocalTypes, FileKept, Same
  <2>a. /\ pc'[p] \in {"returned", "poll"} /\ pc[p] \in Waiting \ {"completing"} /\ Store!Idle(p)
        /\ run' = run /\ hb' = hb /\ ctx' = ctx /\ out' = out /\ file' = file
    BY <1>0, <1>4 DEF EngineReturns, LocalTypes, Calls
  <2>b. work'[p] \in Report
    BY <1>0, <1>a, <1>4 DEF EngineReturns, LocalTypes, Decisions, Refused
  <2>4. Process(p)'
    BY <1>0, <2>1, <2>a, <2>b DEF Started, Beats, Calls, Publishing, Closing, Owns, Beating,
       Store!Idle
  <2>5. hb'[p] = "on" => hb[p] = "on" /\ run'[p] = run[p]
    BY <1>0, <1>4 DEF EngineReturns, Refused, Beats, LocalTypes
  <2> QED BY <2>1, <2>2, <2>3, <2>4, <2>5, QuietStep
<1>5. ASSUME Returned(p) PROVE Sound(p)
  <2>1. rows' = rows /\ call' = call
    BY <1>5 DEF Returned, Close
  <2>2. LocalTypes'
    BY <1>0, <1>a, <1>5 DEF Returned, Close, LocalTypes, Decisions
  <2>3. FileKept /\ \A q \in Procs \ {p} : Same(q)
    BY <1>0, <1>5 DEF Returned, Close, LocalTypes, FileKept, Same
  <2>4. Process(p)'
    BY <1>0, <1>a, <1>5, <2>1 DEF Returned, Close, Started, Beats, Calls, Publishing, Closing, Owns, Beating,
       LocalTypes, Store!Idle, Store!Active, Store!ActiveStages
  <2>5. hb'[p] = "on" => hb[p] = "on" /\ run'[p] = run[p]
    BY <1>0, <1>5 DEF Returned, Close, Beats, LocalTypes
  <2> QED BY <2>1, <2>2, <2>3, <2>4, <2>5, QuietStep
<1>6. ASSUME Publish(p) PROVE Sound(p)
  <2>1. rows' = rows /\ call' = call
    BY <1>6 DEF Publish, Publishable, Close
  <2>2. LocalTypes'
    BY <1>0, <1>a, <1>6 DEF Publish, Publishable, Close, LocalTypes, Decisions
  <2>3. FileKept /\ \A q \in Procs \ {p} : Same(q)
    BY <1>0, <1>6 DEF Publish, Publishable, Close, LocalTypes, FileKept, Same
  <2>4. Process(p)'
    BY <1>0, <1>a, <1>6, <2>1 DEF Publish, Publishable, Close, Started, Beats, Calls, Publishing, Closing, Owns, Beating,
       LocalTypes, Store!Idle, Store!Active, Store!ActiveStages
  <2>5. hb'[p] = "on" => hb[p] = "on" /\ run'[p] = run[p]
    BY <1>0, <1>6 DEF Publish, Publishable, Close, Beats, LocalTypes
  <2> QED BY <2>1, <2>2, <2>3, <2>4, <2>5, QuietStep
<1>7. ASSUME Completed(p) PROVE Sound(p)
  <2>1. rows' = rows /\ call' = call
    BY <1>7 DEF Completed, Close, Ready
  <2>2. LocalTypes'
    BY <1>0, <1>a, <1>7 DEF Completed, Close, Ready, LocalTypes, Decisions
  <2>3. FileKept /\ \A q \in Procs \ {p} : Same(q)
    BY <1>0, <1>7 DEF Completed, Close, Ready, LocalTypes, FileKept, Same
  <2>4. Process(p)'
    BY <1>0, <1>a, <1>7, <2>1 DEF Completed, Close, Ready, Started, Beats, Calls, Publishing, Closing, Owns, Beating,
       LocalTypes, Store!Idle, Store!Active, Store!ActiveStages
  <2>5. hb'[p] = "on" => hb[p] = "on" /\ run'[p] = run[p]
    BY <1>0, <1>7 DEF Completed, Close, Ready, Beats, LocalTypes
  <2> QED BY <2>1, <2>2, <2>3, <2>4, <2>5, QuietStep
<1>8. ASSUME Stop(p) PROVE Sound(p)
  <2>1. rows' = rows /\ call' = call
    BY <1>8 DEF Stop, Releases
  <2>2. LocalTypes'
    BY <1>0, <1>a, <1>8 DEF Stop, Releases, LocalTypes, Decisions
  <2>3. FileKept /\ \A q \in Procs \ {p} : Same(q)
    BY <1>0, <1>8 DEF Stop, Releases, LocalTypes, FileKept, Same
  <2>a. /\ pc[p] = "stop" /\ Store!Idle(p) /\ hb'[p] # "on"
        /\ hb'[p] = "failed" => hb[p] = "failed"
        /\ run' = run /\ ctx' = ctx /\ work' = work /\ file' = file
        /\ IF out[p] = "decided" THEN pc'[p] = "done" ELSE pc'[p] = "release" /\ out' = out
    BY <1>0, <1>8 DEF Stop, Releases, LocalTypes, Calls
  <2>b. out[p] = "decided" => \A id \in Procs : rows[id].owner # p
    <3> SUFFICES ASSUME out[p] = "decided", NEW id \in Procs, rows[id].owner = p PROVE FALSE
      OBVIOUS
    <3>1. run[p] = id /\ rows[id].stage \notin Store!ActiveStages
      BY <1>0, <2>a DEF Owns, Closing
    <3>2. rows[id].owner = None
      BY <3>1, SameTypes DEF Inv, Table!IInv, Table!LeaseOnlyOnActive
    <3> QED BY <3>2, ProcsAssumption
  <2>4. Process(p)'
    BY <1>0, <1>a, <2>1, <2>a, <2>b DEF Started, Beats, Calls, Publishing, Closing, Owns, Beating,
       Store!Idle
  <2>5. hb'[p] = "on" => hb[p] = "on" /\ run'[p] = run[p]
    BY <1>0, <1>8 DEF Stop, Releases, Beats, LocalTypes
  <2> QED BY <2>1, <2>2, <2>3, <2>4, <2>5, QuietStep
<1>9. ASSUME StartFails(p) PROVE Sound(p)
  <2>1. rows' = rows /\ call' = call
    BY <1>9 DEF StartFails, Fault
  <2>2. LocalTypes'
    BY <1>0, <1>a, BoundsAssumption, <1>9 DEF StartFails, Fault, LocalTypes, Decisions
  <2>3. FileKept /\ \A q \in Procs \ {p} : Same(q)
    BY <1>0, <1>9 DEF StartFails, Fault, LocalTypes, FileKept, Same
  <2>4. Process(p)'
    BY <1>0, <1>a, <1>9, <2>1 DEF StartFails, Fault, Started, Beats, Calls, Publishing, Closing, Owns, Beating,
       LocalTypes, Store!Idle, Store!Active, Store!ActiveStages
  <2>5. hb'[p] = "on" => hb[p] = "on" /\ run'[p] = run[p]
    BY <1>0, <1>9 DEF StartFails, Fault, Beats, LocalTypes
  <2> QED BY <2>1, <2>2, <2>3, <2>4, <2>5, QuietStep
<1>10. ASSUME ReleaseFails(p) PROVE Sound(p)
  <2>1. rows' = rows /\ call' = call
    BY <1>10 DEF ReleaseFails, Fault
  <2>2. LocalTypes'
    BY <1>0, <1>a, BoundsAssumption, <1>10 DEF ReleaseFails, Fault, LocalTypes, Decisions
  <2>3. FileKept /\ \A q \in Procs \ {p} : Same(q)
    BY <1>0, <1>10 DEF ReleaseFails, Fault, LocalTypes, FileKept, Same
  <2>4. Process(p)'
    BY <1>0, <1>a, <1>10, <2>1 DEF ReleaseFails, Fault, Started, Beats, Calls, Publishing, Closing, Owns, Beating,
       LocalTypes, Store!Idle, Store!Active, Store!ActiveStages
  <2>5. hb'[p] = "on" => hb[p] = "on" /\ run'[p] = run[p]
    BY <1>0, <1>10 DEF ReleaseFails, Fault, Beats, LocalTypes
  <2> QED BY <2>1, <2>2, <2>3, <2>4, <2>5, QuietStep
<1>11. ASSUME Signal(p) PROVE Sound(p)
  <2>1. rows' = rows /\ call' = call
    BY <1>11 DEF Signal, Fault
  <2>2. LocalTypes'
    BY <1>0, <1>a, BoundsAssumption, <1>11 DEF Signal, Fault, LocalTypes, Decisions
  <2>3. FileKept /\ \A q \in Procs \ {p} : Same(q)
    BY <1>0, <1>11 DEF Signal, Fault, LocalTypes, FileKept, Same
  <2>4. Process(p)'
    BY <1>0, <1>a, <1>11, <2>1 DEF Signal, Fault, Started, Beats, Calls, Publishing, Closing, Owns, Beating,
       LocalTypes, Store!Idle, Store!Active, Store!ActiveStages
  <2>5. hb'[p] = "on" => hb[p] = "on" /\ run'[p] = run[p]
    BY <1>0, <1>11 DEF Signal, Fault, Beats, LocalTypes
  <2> QED BY <2>1, <2>2, <2>3, <2>4, <2>5, QuietStep
<1>12. ASSUME PublishFails(p) PROVE Sound(p)
  <2>1. rows' = rows /\ call' = call
    BY <1>12 DEF PublishFails, Close, Fault
  <2>2. LocalTypes'
    BY <1>0, <1>a, BoundsAssumption, <1>12 DEF PublishFails, Close, Fault, LocalTypes, Decisions
  <2>3. FileKept /\ \A q \in Procs \ {p} : Same(q)
    BY <1>0, <1>12 DEF PublishFails, Close, Fault, LocalTypes, FileKept, Same
  <2>4. Process(p)'
    BY <1>0, <1>a, <1>12, <2>1 DEF PublishFails, Close, Fault, Started, Beats, Calls, Publishing, Closing, Owns, Beating,
       LocalTypes, Store!Idle, Store!Active, Store!ActiveStages
  <2>5. hb'[p] = "on" => hb[p] = "on" /\ run'[p] = run[p]
    BY <1>0, <1>12 DEF PublishFails, Close, Fault, Beats, LocalTypes
  <2> QED BY <2>1, <2>2, <2>3, <2>4, <2>5, QuietStep
<1>13. ASSUME Heartbeat(p), ~Store!Renewable(p, run[p]) PROVE Sound(p)
  <2>1. rows' = rows /\ call' = call
    BY <1>13 DEF Heartbeat, HeartbeatLost
  <2>2. LocalTypes'
    BY <1>0, <1>a, <1>13 DEF Heartbeat, HeartbeatLost, LocalTypes, Decisions
  <2>3. FileKept /\ \A q \in Procs \ {p} : Same(q)
    BY <1>0, <1>13 DEF Heartbeat, HeartbeatLost, LocalTypes, FileKept, Same
  <2>4. Process(p)'
    BY <1>0, <1>a, <1>13, <2>1 DEF Heartbeat, HeartbeatLost, Started, Beats, Calls, Publishing, Closing, Owns, Beating,
       LocalTypes, Store!Idle, Store!Active, Store!ActiveStages
  <2>5. hb'[p] = "on" => hb[p] = "on" /\ run'[p] = run[p]
    BY <1>0, <1>13 DEF Heartbeat, HeartbeatLost, Beats, LocalTypes
  <2> QED BY <2>1, <2>2, <2>3, <2>4, <2>5, QuietStep
<1>14. ASSUME RenewFails(p) PROVE Sound(p)
  <2>1. rows' = rows /\ call' = call
    BY <1>14 DEF RenewFails, HeartbeatLost, Fault
  <2>2. LocalTypes'
    BY <1>0, <1>a, BoundsAssumption, <1>14 DEF RenewFails, HeartbeatLost, Fault, LocalTypes, Decisions
  <2>3. FileKept /\ \A q \in Procs \ {p} : Same(q)
    BY <1>0, <1>14 DEF RenewFails, HeartbeatLost, Fault, LocalTypes, FileKept, Same
  <2>4. Process(p)'
    BY <1>0, <1>a, <1>14, <2>1 DEF RenewFails, HeartbeatLost, Fault, Started, Beats, Calls, Publishing, Closing, Owns, Beating,
       LocalTypes, Store!Idle, Store!Active, Store!ActiveStages
  <2>5. hb'[p] = "on" => hb[p] = "on" /\ run'[p] = run[p]
    BY <1>0, <1>14 DEF RenewFails, HeartbeatLost, Fault, Beats, LocalTypes
  <2> QED BY <2>1, <2>2, <2>3, <2>4, <2>5, QuietStep
<1> QED BY <1>1, <1>2, <1>3, <1>4, <1>5, <1>6, <1>7, <1>8, <1>9, <1>10, <1>11, <1>12, <1>13, <1>14 DEF Quiet

-----------------------------------------------------------------------------
(***************************************************************************)
(* Steps that start a save.                                                *)
(***************************************************************************)

\* What a process that starts a save finds afterwards.
Asked(p, to, report) ==
  /\ rows' = rows
  /\ \A c \in Clients \ {p} : call'[c] = call[c]
  /\ \/ Store!Idle(p)' /\ call'[p].op = "error"
     \/ /\ call'[p].op = "update" /\ call'[p].id = run[p] /\ call'[p].as = p
        /\ call'[p].to = to /\ call'[p].report = report
        /\ call'[p].seen = rows[run[p]].stage /\ to \in Store!Allowed(rows[run[p]].stage)
        /\ rows[run[p]].owner = p

\* Starting a save is the SELECT of an update, by its process, of its run.
LEMMA EmitStep ==
  ASSUME Inv, NEW p \in Procs, NEW to \in Store!ActiveStages \cup {"completed"},
         NEW report \in Report, run[p] \in Procs, Emit(p, to, report)
  PROVE  Asked(p, to, report) /\ [Table!Next]_(Table!vars)
<1>0. call \in [Clients -> Store!Results \cup Store!PendingWrite]
  BY DEF Inv, TypeOK, Store!TypeOK, Clients
<1>1. Asked(p, to, report)
  BY <1>0 DEF Emit, Store!UpdateRead, Store!UpdateAccepted, Store!UpdateRefused, Asked, Store!Result, Clients,
     Store!Results, Store!Idle
<1>2. Table!UpdateRead(p, run[p], p, to, report)
  BY SameStatements DEF Emit
<1>3. Table!Next
  <2>1. p \in Procs \cup {Operator} /\ to \in Table!ActiveStages \cup {"completed"}
    BY SameTypes
  <2> QED BY <1>2, <2>1 DEF Table!Next
<1> QED BY <1>1, <1>3

\* A process that starts a save, from the rest of its state.
LEMMA SaveStep ==
  ASSUME Inv, NEW p \in Procs, NEW to \in Store!ActiveStages \cup {"completed"},
         NEW report \in Report, Emit(p, to, report),
         pc[p] \in Leased \ {"stop", "release"}, pc'[p] \in Waiting,
         to = "completed" <=> pc'[p] = "completing",
         pc'[p] = "completing" => report = work'[p] /\ file = work'[p],
         pc' = [pc EXCEPT ![p] = pc'[p]],
         work' = [work EXCEPT ![p] = work'[p]], work'[p] \in Report,
         todo' = [todo EXCEPT ![p] = todo'[p]], todo'[p] \in 0 .. Checkpoints,
         UNCHANGED <<run, stage, hb, ctx, out, file, faults>>
  PROVE  Sound(p)
<1>0. LocalTypes /\ Process(p)
  BY Types DEF Inv
<1>1. run[p] \in Procs
  BY <1>0 DEF Process, Started
<1>2. Asked(p, to, report) /\ [Table!Next]_(Table!vars)
  BY <1>1, EmitStep
<1>3. LocalTypes'
  BY <1>0 DEF LocalTypes, Waiting, Labels
<1>4. \A q \in Procs \ {p} : Same(q)
  BY <1>0, <1>2 DEF Same, Asked, Clients, LocalTypes
<1>5. Process(p)'
  <2>1. Started(p)' /\ Beats(p)' /\ Publishing(p)' /\ Closing(p)' /\ Owns(p)' /\ Beating(p)'
    BY <1>0, <1>2 DEF Process, Started, Beats, Publishing, Closing, Owns, Beating, Asked,
       Leased, Waiting
  <2>2. Calls(p)'
    BY <1>2 DEF Calls, Asked, Store!Idle
  <2> QED BY <2>1, <2>2 DEF Process
<1>6. rows' = rows /\ call'[Operator] = call[Operator] /\ FileKept
  BY <1>2, ProcsAssumption DEF Asked, Clients, FileKept
<1> QED BY <1>2, <1>3, <1>4, <1>5, <1>6, LocalStep

Saving(p) == Checkpoint(p) \/ GatesDone(p) \/ Sample(p) \/ Observed(p) \/ Complete(p)

\* Every action that starts a save keeps the invariant.
LEMMA SavingSteps ==
  ASSUME Inv, NEW p \in Procs
  PROVE  Saving(p) => Sound(p)
<1>0. LocalTypes /\ Process(p)
  BY Types DEF Inv
<1>a. pc[p] \in Leased => /\ work[p] \in Report
                          /\ \A d \in Decisions : [work[p] EXCEPT !.decision = d] \in Report
  BY <1>0, Redecided DEF Process, Started
<1>b. Store!ActiveStages = {"checking", "observing", "finalizing"}
  BY SameTypes
<1>1. ASSUME Checkpoint(p) PROVE Sound(p)
  <2>1. Emit(p, "checking", [work[p] EXCEPT !.decision = "HOLD"])
    BY <1>1 DEF Checkpoint
  <2>2. [work[p] EXCEPT !.decision = "HOLD"] \in Report
    BY <1>1, <1>a DEF Checkpoint, Leased, Decisions
  <2>3. /\ pc[p] = "checks" /\ pc'[p] \in {"checks", "interrupted"}
        /\ pc' = [pc EXCEPT ![p] = pc'[p]]
        /\ UNCHANGED <<run, stage, hb, ctx, out, file, faults>>
    BY <1>0, <1>1 DEF Checkpoint, Goto, LocalTypes
  <2>4. work' = [work EXCEPT ![p] = work'[p]] /\ work'[p] \in Report
    BY <1>0, <1>1, <1>a, <2>2, <2>3 DEF Checkpoint, LocalTypes, Leased
  <2>5. todo' = [todo EXCEPT ![p] = todo'[p]] /\ todo'[p] \in 0 .. Checkpoints
    BY <1>0, <1>1, BoundsAssumption DEF Checkpoint, LocalTypes
  <2> QED BY <1>b, <2>1, <2>2, <2>3, <2>4, <2>5, SaveStep DEF Leased, Waiting
<1>2. ASSUME NEW d \in Decisions, Finish(p, d),
             pc[p] \in {"checks", "polled", "last"}
      PROVE  Sound(p)
  <2> DEFINE final == [work[p] EXCEPT !.decision = d,
                                      !.status = IF @ = "none" THEN @ ELSE "completed"]
  <2>1. Emit(p, "finalizing", final) /\ final \in Report
    BY <1>2, <1>a DEF Finish, Report, Leased, Decisions
  <2>2. /\ work' = [work EXCEPT ![p] = final] /\ pc' = [pc EXCEPT ![p] = "final"]
        /\ UNCHANGED <<run, stage, todo, hb, ctx, out, file, faults>>
    BY <1>2 DEF Finish, Goto
  <2> HIDE DEF final
  <2>3. work'[p] = final /\ pc'[p] = "final"
    BY <1>0, <2>2 DEF LocalTypes
  <2>4. todo' = [todo EXCEPT ![p] = todo'[p]] /\ todo'[p] \in 0 .. Checkpoints
    BY <1>0, <2>2 DEF LocalTypes
  <2> QED BY <1>2, <1>b, <2>1, <2>2, <2>3, <2>4, SaveStep DEF Leased, Waiting
<1>3. ASSUME GatesDone(p) PROVE Sound(p)
  <2>1. CASE ~Observes
    BY <1>2, <1>3, <2>1 DEF GatesDone, Decisions
  <2>2. CASE Observes
    <3> DEFINE opened == [work[p] EXCEPT !.status = "observing", !.decision = "HOLD"]
    <3>1. Emit(p, "observing", opened) /\ opened \in Report
      BY <1>3, <1>a, <2>2 DEF GatesDone, Report, Leased
    <3>2. /\ work' = [work EXCEPT ![p] = opened] /\ pc' = [pc EXCEPT ![p] = "opened"]
          /\ pc[p] = "checks"
          /\ UNCHANGED <<run, stage, todo, hb, ctx, out, file, faults>>
      BY <1>3, <2>2 DEF GatesDone, Goto
    <3> HIDE DEF opened
    <3>3. work'[p] = opened /\ pc'[p] = "opened"
      BY <1>0, <3>2 DEF LocalTypes
    <3>4. todo' = [todo EXCEPT ![p] = todo'[p]] /\ todo'[p] \in 0 .. Checkpoints
      BY <1>0, <3>2 DEF LocalTypes
    <3> QED BY <1>b, <3>1, <3>2, <3>3, <3>4, SaveStep DEF Leased, Waiting
  <2> QED BY <2>1, <2>2
<1>4. ASSUME Sample(p) PROVE Sound(p)
  <2> DEFINE n == Cardinality(SamplesBy(p))
             more == [work[p] EXCEPT !.samples = @ \cup {<<p, n + 1>>}]
  <2>1. pc[p] \in {"poll", "polled"} /\ work[p] \in Report
    BY <1>4, <1>a DEF Sample, Leased
  <2>2. n + 1 \in 1 .. MaxSamples
    <3>1. IsFiniteSet(SamplesBy(p))
      <4>1. IsFiniteSet(1 .. MaxSamples)
        BY BoundsAssumption, FS_Interval
      <4>2. IsFiniteSet({p} \X (1 .. MaxSamples))
        BY <4>1, FS_Product, FS_Singleton
      <4>3. SamplesBy(p) \subseteq {p} \X (1 .. MaxSamples)
        BY <2>1 DEF SamplesBy, Report, Samples
      <4> QED BY <4>2, <4>3, FS_Subset
    <3>2. n \in Nat
      BY <3>1, FS_CardinalityType
    <3>3. n < MaxSamples
      BY <1>4 DEF Sample
    <3> QED BY <3>2, <3>3, BoundsAssumption
  <2>3. more \in Report
    BY <2>1, <2>2 DEF Report, Samples
  <2>4. /\ Emit(p, "observing", more) /\ work' = [work EXCEPT ![p] = more]
        /\ UNCHANGED <<run, stage, todo, hb, ctx, out, file, faults>>
        /\ pc' = [pc EXCEPT ![p] = "last"] \/ pc' = [pc EXCEPT ![p] = "polled"]
    BY <1>4 DEF Sample, Goto
  <2> HIDE DEF more
  <2>5. /\ work'[p] = more /\ pc'[p] \in {"last", "polled"}
        /\ pc' = [pc EXCEPT ![p] = pc'[p]] /\ todo' = [todo EXCEPT ![p] = todo'[p]] /\ todo'[p] \in 0 .. Checkpoints
    BY <1>0, <2>4 DEF LocalTypes
  <2> QED BY <1>b, <2>1, <2>3, <2>4, <2>5, SaveStep DEF Leased, Waiting
<1>5. ASSUME Observed(p) PROVE Sound(p)
  <2>1. pc[p] \in {"last", "polled"}
    BY <1>5 DEF Observed
  <2>2. CASE ~ctx[p]
    BY <1>2, <1>5, <2>1, <2>2 DEF Observed, Decisions
  <2>3. CASE ctx[p]
    <3> DEFINE held == [work[p] EXCEPT !.decision = "HOLD"]
    <3>1. Emit(p, "observing", held) /\ held \in Report
      BY <1>5, <1>a, <2>1, <2>3 DEF Observed, Leased, Decisions
    <3>2. /\ work' = [work EXCEPT ![p] = held] /\ pc' = [pc EXCEPT ![p] = "interrupted"]
          /\ UNCHANGED <<run, stage, todo, hb, ctx, out, file, faults>>
      BY <1>5, <2>3 DEF Observed, Goto
    <3> HIDE DEF held
    <3>3. work'[p] = held /\ pc'[p] = "interrupted"
      BY <1>0, <3>2 DEF LocalTypes
    <3>4. todo' = [todo EXCEPT ![p] = todo'[p]] /\ todo'[p] \in 0 .. Checkpoints
      BY <1>0, <3>2 DEF LocalTypes
    <3> QED BY <1>b, <2>1, <3>1, <3>2, <3>3, <3>4, SaveStep DEF Leased, Waiting
  <2> QED BY <2>2, <2>3
<1>6. ASSUME Complete(p) PROVE Sound(p)
  <2>1. /\ pc[p] = "complete" /\ Emit(p, "completed", work[p])
        /\ pc' = [pc EXCEPT ![p] = "completing"]
        /\ UNCHANGED <<run, stage, work, todo, hb, ctx, out, file, faults>>
    BY <1>6 DEF Complete, Goto
  <2>2. /\ work[p] \in Report /\ file = work[p] /\ pc'[p] = "completing"
        /\ work' = [work EXCEPT ![p] = work'[p]] /\ todo' = [todo EXCEPT ![p] = todo'[p]] /\ todo'[p] \in 0 .. Checkpoints
    BY <1>0, <1>a, <2>1 DEF LocalTypes, Process, Publishing, Leased
  <2> QED BY <2>1, <2>2, SaveStep DEF Leased, Waiting
<1> QED BY <1>1, <1>3, <1>4, <1>5, <1>6 DEF Saving

\* A process that dies leaves its lease behind.
LEMMA CrashStep ==
  ASSUME Inv, NEW p \in Procs, Crash(p)
  PROVE  Sound(p)
<1>0. TypeOK /\ LocalTypes /\ Process(p)
  BY Types DEF Inv
<1>1. [Table!Next]_(Table!vars)
  <2>1. Table!Forget(p)
    BY SameStatements DEF Crash
  <2> QED BY <2>1 DEF Table!Next
<1>2. /\ rows' = rows /\ file' = file /\ pc'[p] = "done" /\ out'[p] = "crashed"
      /\ hb'[p] = "off" /\ Store!Idle(p)'
      /\ \A c \in Clients \ {p} : call'[c] = call[c]
  BY <1>0 DEF Crash, Store!Forget, Store!Idle, Store!Result, Store!Results, LocalTypes, TypeOK,
     Store!TypeOK, Clients
<1>3. LocalTypes'
  BY <1>0, BoundsAssumption DEF Crash, Fault, LocalTypes, Labels
<1>4. \A q \in Procs \ {p} : Same(q)
  BY <1>0, <1>2 DEF Crash, Same, LocalTypes, Clients
<1>5. Process(p)'
  BY <1>0, <1>2 DEF Process, Started, Beats, Calls, Publishing, Closing, Owns, Beating, Leased
<1> QED BY <1>1, <1>2, <1>3, <1>4, <1>5, ProcsAssumption, LocalStep DEF Clients, FileKept

-----------------------------------------------------------------------------
(***************************************************************************)
(* Steps that change rows.                                                 *)
(***************************************************************************)

\* Every step, from what it does to the processes.
LEMMA Preserved ==
  ASSUME Inv, [Table!Next]_(Table!vars), LocalTypes', FileKept,
         \A q \in Procs : Process(q)' \/ (Same(q) /\ Spared(q)),
         OneBeat', Finished', NEW c \in Clients, \A q \in Procs \ {c} : Same(q)
  PROVE  Sound(c)
<1>1. Table!IInv' /\ Store!TypeOK'
  <2>1. CASE Procs = {}
    <3>1. Table!TypeOK' /\ Table!PendingAllowed' /\ Table!OneActive'
          /\ Table!LeaseOnlyOnActive' /\ Table!NoStrayExpiry'
      BY TableAssumptions, Table!TypeStep, Table!PendingStep, Table!OneActiveStep,
         Table!LeaseStep, Table!ExpiryStep DEF Inv, Table!IInv
    <3>2. Store!TypeOK'
      BY <3>1, SameTypes, PTL
    <3> QED BY <3>1, <3>2 DEF Table!IInv
  <2>2. CASE Procs # {}
    BY <2>2, RowsForward
  <2> QED BY <2>1, <2>2
<1>2. \A q \in Procs : Process(q)'
  BY SameProcess
<1>3. TypeOK'
  BY <1>1 DEF TypeOK, LocalTypes
<1>4. Inv'
  BY <1>1, <1>2, <1>3 DEF Inv
<1> QED BY <1>4 DEF Sound

\* A new run is owned by nobody, and its process owns no other.
LEMMA CreateSteps ==
  ASSUME Inv, NEW p \in Procs, Create(p) \/ CreateUnsecured(p)
  PROVE  Sound(p)
<1>0. LocalTypes /\ Process(p) /\ rows \in [Procs -> Store!Row]
  BY Types DEF Inv, Store!TypeOK
<1>1. CASE Create(p) /\ ~(Store!Insertable(p) /\ ~ctx[p])
  <2>1. /\ rows' = rows /\ call' = call /\ pc[p] = "create" /\ pc' = [pc EXCEPT ![p] = "refind"]
        /\ UNCHANGED <<run, stage, work, todo, hb, ctx, out, file, faults>>
    BY <1>1 DEF Create, Goto
  <2>2. LocalTypes' /\ FileKept
    BY <1>0, <2>1 DEF LocalTypes, Labels, FileKept
  <2>3. \A q \in Procs \ {p} : Same(q)
    BY <1>0, <2>1 DEF LocalTypes, Same
  <2>4. Process(p)'
    BY <1>0, <2>1 DEF LocalTypes, Process, Started, Beats, Calls, Publishing, Closing, Owns,
       Beating, Leased, Waiting, Store!Idle
  <2> QED BY <2>1, <2>2, <2>3, <2>4, QuietStep
<1>2. CASE \/ Create(p) /\ Store!Insertable(p) /\ ~ctx[p]
         \/ CreateUnsecured(p)
  <2>1. /\ pc[p] = "create" /\ pc' = [pc EXCEPT ![p] = pc'[p]]
        /\ \/ pc'[p] = "acquire" /\ run'[p] = p /\ out' = out
           \/ pc'[p] = "done"
        /\ run' = [run EXCEPT ![p] = run'[p]] /\ out' = [out EXCEPT ![p] = out'[p]]
        /\ stage' = [stage EXCEPT ![p] = stage'[p]]
        /\ UNCHANGED <<work, todo, hb, ctx, file>>
    BY <1>0, <1>2 DEF Create, CreateUnsecured, Goto, Die, LocalTypes
  <2>a. Store!Create(p)
    BY <1>2 DEF Create, CreateUnsecured
  <2>2. /\ call' = call /\ rows[p].stage = "absent"
        /\ rows' = [rows EXCEPT ![p].stage = "checking"]
    BY <2>a DEF Store!Create, Store!Insertable
  <2>3. [Table!Next]_(Table!vars)
    BY <2>a, SameStatements DEF Table!Next
  <2>4. LocalTypes'
    BY <1>0, <1>2, BoundsAssumption DEF Create, CreateUnsecured, Goto, Die, Fault, LocalTypes, Labels
  <2>5. \A id \in Procs : /\ rows'[id].owner = rows[id].owner /\ rows'[id].left = rows[id].left
                          /\ id # p => rows'[id] = rows[id]
                          /\ rows'[id].report = rows[id].report
    BY <1>0, <2>2 DEF Store!Row
  <2>6. rows'[p].stage = "checking"
    BY <1>0, <2>2 DEF Store!Row
  <2>7. \A q \in Procs \ {p} : Same(q) /\ Spared(q)
    BY <1>0, <2>1, <2>2, <2>5 DEF LocalTypes, Same, Spared
  <2>8. Process(p)'
    BY <1>0, <2>1, <2>2, <2>5, <2>6 DEF LocalTypes, Process, Started, Beats, Calls, Publishing,
       Closing, Owns, Beating, Leased, Waiting, Store!Idle
  <2>9. hb[p] # "on"
    BY <1>0, <2>1 DEF Process, Beats, Leased
  <2>10. OneBeat'
    BY <1>0, <2>1, <2>9 DEF Inv, OneBeat, LocalTypes
  <2>11. Finished'
    BY <2>1, <2>2, <2>5, <2>6 DEF Inv, Finished, Store!Idle
  <2>12. FileKept /\ \A q \in Procs : Process(q)' \/ (Same(q) /\ Spared(q))
    BY <2>1, <2>7, <2>8 DEF FileKept
  <2> QED BY <2>3, <2>4, <2>7, <2>10, <2>11, <2>12, Preserved DEF Clients
<1> QED BY <1>1, <1>2

\* A lease is only had where nobody's heartbeat keeps it.
LEMMA AcquireStep ==
  ASSUME Inv, NEW p \in Procs, Acquire(p)
  PROVE  Sound(p)
<1>0. LocalTypes /\ Process(p) /\ rows \in [Procs -> Store!Row]
  BY Types DEF Inv, Store!TypeOK
<1>1. pc[p] = "acquire" /\ run[p] \in Procs /\ rows[run[p]].stage # "absent"
  BY <1>0 DEF Acquire, Process, Started
<1>2. hb[p] # "on" /\ Store!Idle(p) /\ \A id \in Procs : rows[id].owner # p
  BY <1>0, <1>1 DEF Process, Beats, Calls, Owns, Leased, Waiting
<1>3. CASE /\ Store!Unleasable(p, run[p]) \/ ctx[p]
           /\ AcquireRefused(p) /\ UNCHANGED <<rows, call, hb, work, todo, stage>>
  <2>1. /\ rows' = rows /\ call' = call /\ pc' = [pc EXCEPT ![p] = "done"]
        /\ out' = [out EXCEPT ![p] = "fatal"]
        /\ UNCHANGED <<run, stage, work, todo, hb, ctx, file, faults>>
    BY <1>3 DEF Acquire, AcquireRefused, Die
  <2>2. LocalTypes' /\ FileKept
    BY <1>0, <2>1 DEF LocalTypes, Labels, FileKept
  <2>3. \A q \in Procs \ {p} : Same(q)
    BY <1>0, <2>1 DEF LocalTypes, Same
  <2>4. Process(p)'
    BY <1>0, <1>1, <1>2, <2>1 DEF LocalTypes, Process, Started, Beats, Calls, Publishing, Closing,
       Owns, Beating, Leased, Waiting, Store!Idle
  <2> QED BY <2>1, <2>2, <2>3, <2>4, QuietStep
<1>4. CASE /\ Store!AcquireLease(p, run[p]) /\ ~ctx[p]
           /\ hb' = [hb EXCEPT ![p] = "on"] /\ stage' = [stage EXCEPT ![p] = "absent"]
           /\ work' = [work EXCEPT ![p] = IF Entry(p) = "checks" THEN NewReport(p) ELSE @]
           /\ todo' = [todo EXCEPT ![p] = IF Entry(p) = "checks" THEN Checkpoints ELSE 0]
           /\ Goto(p, Entry(p)) /\ UNCHANGED out
  <2>1. /\ Store!AcquireLease(p, run[p]) /\ pc' = [pc EXCEPT ![p] = Entry(p)]
        /\ hb' = [hb EXCEPT ![p] = "on"] /\ stage' = [stage EXCEPT ![p] = "absent"]
        /\ work' = [work EXCEPT ![p] = IF Entry(p) = "checks" THEN NewReport(p) ELSE @]
        /\ todo' = [todo EXCEPT ![p] = IF Entry(p) = "checks" THEN Checkpoints ELSE 0]
        /\ UNCHANGED <<run, ctx, out, file, faults>>
    BY <1>4 DEF Acquire, Goto
  <2>2. Entry(p) \in {"checks", "poll", "returned"} /\ NewReport(p) \in Report
        /\ (Entry(p) # "checks" => work[p] \in Report)
    BY <1>0 DEF Entry, NewReport, Report, LocalTypes
  <2>3. [Table!Next]_(Table!vars)
    BY <1>1, <2>1, SameStatements DEF Table!Next
  <2>4. /\ call' = call /\ rows[run[p]].stage \in Store!ActiveStages
        /\ rows[run[p]].owner \in {None, p} \/ rows[run[p]].left <= 0
        /\ rows' = [rows EXCEPT ![run[p]] = [@ EXCEPT !.owner = p, !.left = TTL]]
    BY <2>1 DEF Store!AcquireLease, Store!Leasable
  <2>5. \A id \in Procs : /\ rows'[id].stage = rows[id].stage
                          /\ rows'[id].report = rows[id].report
                          /\ id # run[p] => rows'[id] = rows[id]
    BY <1>0, <2>4 DEF Store!Row
  <2>6. rows'[run[p]].owner = p /\ rows'[run[p]].left = TTL
    BY <1>0, <1>1, <2>4 DEF Store!Row
  <2>7. /\ hb'[p] = "on" /\ pc'[p] = Entry(p) /\ work'[p] \in Report
        /\ run'[p] = run[p] /\ ctx'[p] = ctx[p]
    BY <1>0, <2>1, <2>2 DEF LocalTypes
  <2>8. LocalTypes'
    <3>1. todo' \in [Procs -> 0 .. Checkpoints]
      BY <1>0, <2>1, BoundsAssumption DEF LocalTypes
    <3>2. work' \in [Procs -> Report \cup {NoReport}]
      BY <1>0, <2>1, <2>2 DEF LocalTypes
    <3> QED BY <1>0, <2>1, <2>2, <3>1, <3>2 DEF LocalTypes, Labels
  <2>9. \A q \in Procs \ {p} : Same(q)
    BY <1>0, <2>1, <2>4 DEF LocalTypes, Same
  <2>10. ASSUME NEW q \in Procs \ {p}, Timely, hb[q] = "on" PROVE run[q] # run[p]
    <3> SUFFICES ASSUME run[q] = run[p] PROVE FALSE
      OBVIOUS
    <3>1. rows[run[p]].owner = q /\ rows[run[p]].left > 0
      BY <2>4, <2>10 DEF Inv, Process, Beating
    <3>2. rows[run[p]].left \in -1 .. TTL
      BY <1>0, <1>1 DEF Store!Row
    <3> QED BY <2>4, <3>1, <3>2, ProcsAssumption, BoundsAssumption
  <2>11. \A q \in Procs \ {p} : Spared(q)
    BY <2>5, <2>6, <2>10 DEF Spared
  <2>12. OneBeat'
    BY <1>0, <2>1, <2>9, <2>10 DEF Inv, OneBeat, Same
  <2>13. Process(p)'
    <3>1. Started(p)' /\ Beats(p)'
      BY <1>1, <1>2, <1>4, <1>0, <2>2, <2>5, <2>7 DEF Started, Beats, Leased
    <3>2. Calls(p)' /\ Publishing(p)' /\ Closing(p)'
      BY <1>2, <2>2, <2>4, <2>7 DEF Calls, Publishing, Closing, Store!Idle
    <3>3. Owns(p)'
      BY <1>2, <2>2, <2>5, <2>7 DEF Owns, Leased
    <3>4. Beating(p)'
      BY <2>6, <2>7, BoundsAssumption DEF Beating
    <3> QED BY <3>1, <3>2, <3>3, <3>4 DEF Process
  <2>14. Finished'
    BY <2>1, <2>4, <2>5 DEF Inv, Finished, Store!Idle
  <2>15. FileKept /\ \A q \in Procs : Process(q)' \/ (Same(q) /\ Spared(q))
    BY <2>1, <2>9, <2>11, <2>13 DEF FileKept
  <2> QED BY <2>3, <2>8, <2>9, <2>12, <2>14, <2>15, Preserved DEF Clients
<1> QED BY <1>3, <1>4 DEF Acquire

\* A release frees the row of its process, if it is still its own.
LEMMA ReleaseStep ==
  ASSUME Inv, NEW p \in Procs, Release(p)
  PROVE  Sound(p)
<1>0. LocalTypes /\ Process(p) /\ rows \in [Procs -> Store!Row]
  BY Types DEF Inv, Store!TypeOK
<1>1. /\ pc[p] = "release" /\ run[p] \in Procs /\ pc' = [pc EXCEPT ![p] = "done"]
      /\ Store!ReleaseLease(p, run[p])
      /\ UNCHANGED <<run, stage, work, todo, hb, ctx, out, file, faults>>
  BY <1>0 DEF Release, Goto, Process, Started, Leased
<1>2. [Table!Next]_(Table!vars)
  BY <1>1, SameStatements DEF Table!Next
<1>3. call' = call /\ rows' = IF rows[run[p]].owner = p
        THEN [rows EXCEPT ![run[p]] = [@ EXCEPT !.owner = None, !.left = -1]] ELSE rows
  BY <1>1 DEF Store!ReleaseLease
<1>4. \A id \in Procs : /\ rows'[id].stage = rows[id].stage
                        /\ rows'[id].report = rows[id].report
                        /\ rows[id].owner # p => rows'[id] = rows[id]
                        /\ rows'[id].owner = p => rows[id].owner = p /\ id # run[p]
  BY <1>0, <1>1, <1>3, ProcsAssumption DEF Store!Row
<1>5. LocalTypes' /\ FileKept
  BY <1>0, <1>1 DEF LocalTypes, Labels, FileKept
<1>6. \A q \in Procs \ {p} : Same(q)
  BY <1>0, <1>1, <1>3 DEF LocalTypes, Same
<1>7. \A q \in Procs \ {p} : Spared(q)
  <2> SUFFICES ASSUME NEW q \in Procs \ {p}, NEW id \in Procs,
                      rows[id].owner = q \/ rows'[id].owner = q
               PROVE  rows'[id] = rows[id]
    BY DEF Spared
  <2>1. rows[id].owner # p
    BY <1>0, <1>1, <1>3, ProcsAssumption DEF Store!Row
  <2> QED BY <1>4, <2>1
<1>8. Process(p)'
  <2>1. pc'[p] = "done" /\ hb'[p] # "on"
    BY <1>0, <1>1 DEF LocalTypes, Process, Beats, Leased
  <2>2. Owns(p)'
    BY <1>0, <1>1, <1>4, <2>1 DEF Process, Owns, Leased
  <2> QED BY <1>0, <1>1, <1>3, <2>1, <2>2 DEF Process, Started, Beats, Calls, Publishing, Closing,
             Beating, Leased, Waiting, Store!Idle
<1>9. OneBeat' /\ Finished'
  BY <1>1, <1>3, <1>4 DEF Inv, OneBeat, Finished, Store!Idle
<1>10. \A q \in Procs : Process(q)' \/ (Same(q) /\ Spared(q))
  BY <1>6, <1>7, <1>8
<1> QED BY <1>2, <1>5, <1>6, <1>9, <1>10, Preserved DEF Clients

\* A renewal only lengthens a lease.
LEMMA RenewStep ==
  ASSUME Inv, NEW p \in Procs, Heartbeat(p), Store!Renewable(p, run[p])
  PROVE  Sound(p)
<1>0. LocalTypes /\ Process(p) /\ rows \in [Procs -> Store!Row]
  BY Types DEF Inv, Store!TypeOK
<1>1. /\ run[p] \in Procs /\ Store!RenewLease(p, run[p])
      /\ UNCHANGED <<pc, run, stage, work, todo, hb, ctx, out, file, faults>>
  BY <1>0 DEF Heartbeat, Process, Started, Beats, Leased
<1>2. [Table!Next]_(Table!vars)
  BY <1>1, SameStatements DEF Table!Next
<1>3. call' = call /\ rows[run[p]].owner = p /\ rows' = [rows EXCEPT ![run[p]].left = TTL]
  BY <1>1 DEF Store!RenewLease, Store!Renewable
<1>4. \A id \in Procs : /\ rows'[id].stage = rows[id].stage
                        /\ rows'[id].report = rows[id].report
                        /\ rows'[id].owner = rows[id].owner
                        /\ rows'[id].left = rows[id].left \/ rows'[id].left = TTL
  BY <1>0, <1>3 DEF Store!Row
<1>5. LocalTypes' /\ FileKept
  BY <1>0, <1>1 DEF LocalTypes, FileKept
<1>6. \A q \in Procs : Same(q) /\ Spared(q)
  BY <1>1, <1>3, <1>4, BoundsAssumption DEF Same, Spared
<1>7. OneBeat' /\ Finished'
  BY <1>1, <1>3, <1>4 DEF Inv, OneBeat, Finished, Store!Idle
<1> QED BY <1>2, <1>5, <1>6, <1>7, Preserved DEF Clients

\* A lease that was had but not answered is left behind by a process that ends.
LEMMA AcquireUnansweredStep ==
  ASSUME Inv, NEW p \in Procs, AcquireUnanswered(p)
  PROVE  Sound(p)
<1>0. LocalTypes /\ Process(p) /\ rows \in [Procs -> Store!Row]
  BY Types DEF Inv, Store!TypeOK
<1>1. pc[p] = "acquire" /\ run[p] \in Procs /\ Store!AcquireLease(p, run[p])
  BY <1>0 DEF AcquireUnanswered, Process, Started
<1>2. /\ hb[p] # "on" /\ Store!Idle(p)
      /\ pc' = [pc EXCEPT ![p] = "done"] /\ out' = [out EXCEPT ![p] = "unanswered"]
      /\ UNCHANGED <<run, stage, work, todo, hb, ctx, file>>
  BY <1>0, <1>1 DEF AcquireUnanswered, Process, Beats, Calls, Leased, Waiting
<1>3. [Table!Next]_(Table!vars)
  BY <1>1, SameStatements DEF Table!Next
<1>4. /\ call' = call
      /\ rows[run[p]].owner \in {None, p} \/ rows[run[p]].left <= 0
      /\ rows' = [rows EXCEPT ![run[p]] = [@ EXCEPT !.owner = p, !.left = TTL]]
  BY <1>1 DEF Store!AcquireLease, Store!Leasable
<1>5. \A id \in Procs : /\ rows'[id].stage = rows[id].stage
                        /\ rows'[id].report = rows[id].report
                        /\ id # run[p] => rows'[id] = rows[id]
  BY <1>0, <1>4 DEF Store!Row
<1>6. rows'[run[p]].owner = p
  BY <1>0, <1>1, <1>4 DEF Store!Row
<1>7. LocalTypes'
  <2>1. faults' \in 0 .. MaxFaults
    BY <1>0, BoundsAssumption DEF AcquireUnanswered, Fault, LocalTypes
  <2> QED BY <1>0, <1>2, <2>1 DEF LocalTypes, Labels
<1>8. \A q \in Procs \ {p} : Same(q)
  BY <1>0, <1>2, <1>4 DEF LocalTypes, Same
<1>9. ASSUME NEW q \in Procs \ {p}, Timely, hb[q] = "on", run[q] = run[p],
             rows[run[p]].owner = q, rows[run[p]].left > 0
      PROVE  FALSE
  <2>1. rows[run[p]].left \in -1 .. TTL
    BY <1>0, <1>1 DEF Store!Row
  <2> QED BY <1>4, <1>9, <2>1, ProcsAssumption, BoundsAssumption
<1>10. \A q \in Procs \ {p} : Spared(q)
  BY <1>5, <1>6, <1>9 DEF Spared
<1>11. Process(p)'
  <2>1. pc'[p] = "done" /\ out'[p] = "unanswered" /\ hb'[p] # "on"
    BY <1>0, <1>2 DEF LocalTypes
  <2> QED BY <1>0, <1>2, <1>4, <2>1 DEF Process, Started, Beats, Calls, Publishing, Closing, Owns,
             Beating, Leased, Waiting, Store!Idle
<1>12. OneBeat' /\ Finished'
  BY <1>2, <1>4, <1>5 DEF Inv, OneBeat, Finished, Store!Idle
<1>13. FileKept /\ \A q \in Procs : Process(q)' \/ (Same(q) /\ Spared(q))
  BY <1>2, <1>8, <1>10, <1>11 DEF FileKept
<1> QED BY <1>3, <1>7, <1>8, <1>12, <1>13, Preserved DEF Clients

\* A renewal that was not answered lengthens the lease, and ends the heartbeat.
LEMMA RenewUnansweredStep ==
  ASSUME Inv, NEW p \in Procs, RenewUnanswered(p)
  PROVE  Sound(p)
<1>0. LocalTypes /\ Process(p) /\ rows \in [Procs -> Store!Row]
  BY Types DEF Inv, Store!TypeOK
<1>1. /\ run[p] \in Procs /\ Store!RenewLease(p, run[p]) /\ hb[p] = "on"
      /\ hb' = [hb EXCEPT ![p] = "failed"] /\ ctx' = [ctx EXCEPT ![p] = TRUE]
      /\ UNCHANGED <<pc, run, stage, work, todo, out, file>>
  BY <1>0 DEF RenewUnanswered, HeartbeatLost, Process, Started, Beats, Leased
<1>2. [Table!Next]_(Table!vars)
  BY <1>1, SameStatements DEF Table!Next
<1>3. call' = call /\ rows[run[p]].owner = p /\ rows' = [rows EXCEPT ![run[p]].left = TTL]
  BY <1>1 DEF Store!RenewLease, Store!Renewable
<1>4. \A id \in Procs : /\ rows'[id].stage = rows[id].stage
                        /\ rows'[id].report = rows[id].report
                        /\ rows'[id].owner = rows[id].owner
                        /\ rows'[id].left = rows[id].left \/ rows'[id].left = TTL
  BY <1>0, <1>3 DEF Store!Row
<1>5. LocalTypes' /\ FileKept
  <2>1. faults' \in 0 .. MaxFaults
    BY <1>0, BoundsAssumption DEF RenewUnanswered, Fault, LocalTypes
  <2> QED BY <1>0, <1>1, <2>1 DEF LocalTypes, FileKept
<1>6. \A q \in Procs \ {p} : Same(q) /\ Spared(q)
  BY <1>0, <1>1, <1>3, <1>4, BoundsAssumption DEF LocalTypes, Same, Spared
<1>7. Process(p)'
  <2>1. hb'[p] = "failed" /\ (ctx[p]' <=> TRUE) /\ pc'[p] = pc[p] /\ run'[p] = run[p]
    BY <1>0, <1>1 DEF LocalTypes
  <2> QED BY <1>0, <1>1, <1>3, <1>4, <2>1 DEF Process, Started, Beats, Calls, Publishing, Closing,
             Owns, Beating, Leased, Waiting, Store!Idle
<1>8. OneBeat' /\ Finished'
  BY <1>0, <1>1, <1>3, <1>4 DEF Inv, OneBeat, Finished, Store!Idle, LocalTypes
<1>9. \A q \in Procs : Process(q)' \/ (Same(q) /\ Spared(q))
  BY <1>6, <1>7
<1> QED BY <1>2, <1>3, <1>5, <1>6, <1>8, <1>9, Preserved DEF Clients

-----------------------------------------------------------------------------
(***************************************************************************)
(* Statements end, the operator abandons, and time passes.                 *)
(***************************************************************************)

\* What a write that finds its row leaves there.
LEMMA CommitLeaves ==
  ASSUME Inv, NEW c \in Clients, Store!WriteCommits(c)
  PROVE  /\ call[c].id \in Procs
         /\ \A id \in Procs \ {call[c].id} : rows'[id] = rows[id]
         /\ rows'[call[c].id].stage = call[c].to /\ rows'[call[c].id].report = call[c].report
         /\ \/ rows'[call[c].id].owner = None /\ call[c].to \notin Store!ActiveStages
            \/ /\ rows'[call[c].id].owner = rows[call[c].id].owner
               /\ rows'[call[c].id].left = rows[call[c].id].left
<1>0. /\ rows \in [Procs -> Store!Row] /\ ~Store!Idle(c)
      /\ call[c] \in Store!Results \cup Store!PendingWrite
  BY DEF Inv, TypeOK, Store!TypeOK, Clients, Store!WriteCommits
<1>1. call[c].id \in Procs
  BY <1>0 DEF Store!Idle, Store!PendingWrite
<1>2. rows' = [rows EXCEPT ![call[c].id] = Store!Written(call[c])]
  BY DEF Store!WriteCommits
<1> QED BY <1>0, <1>1, <1>2 DEF Store!Written, Store!TerminalStages, Store!ActiveStages

\* A statement that ends: a write finds the row that its process still owns, or
\* is the operator's Abandon.
LEMMA StatementStep ==
  ASSUME Inv, NEW c \in Clients, StatementEnds(c)
  PROVE  Sound(c)
<1>0. /\ LocalTypes /\ rows \in [Procs -> Store!Row]
      /\ call \in [Clients -> Store!Results \cup Store!PendingWrite]
      /\ c \in Procs \cup {Operator}
  BY Types DEF Inv, Store!TypeOK, Clients
<1>1. /\ ~Store!Idle(c) /\ faults' \in 0 .. MaxFaults
      /\ UNCHANGED <<pc, run, stage, work, todo, hb, ctx, out, file>>
  BY <1>0, BoundsAssumption DEF StatementEnds, local, LocalTypes, Fault
<1>2. [Table!Next]_(Table!vars)
  BY <1>0, SameStatements DEF StatementEnds, Table!Next
<1>3. /\ \A d \in Clients \ {c} : call'[d] = call[d]
      /\ Store!Idle(c)'
      /\ rows' = rows \/ Store!WriteCommits(c)
      /\ call'[c].op = "ok" => Store!WriteCommits(c)
  BY <1>0 DEF StatementEnds, Store!WriteCommits, Store!WriteMisses, Store!StatementFails,
     Store!Result, Store!Idle, Store!Results
<1>4. LocalTypes' /\ FileKept
  BY <1>0, <1>1 DEF LocalTypes, FileKept
<1>5. \A q \in Procs : Spared(q)
  BY <1>3, CommitLeaves, ProcsAssumption DEF Spared
<1>6. \A q \in Procs \ {c} : Same(q)
  BY <1>1, <1>3 DEF Same, Clients
<1>7. ASSUME c \in Procs PROVE Process(c)'
  <2>0. Process(c)
    BY <1>7 DEF Inv
  <2>1. /\ pc[c] \in Waiting /\ call[c].id = run[c] /\ run[c] \in Procs
        /\ rows[run[c]].stage # "absent"
        /\ pc[c] = "completing" => call[c].to = "completed"
    BY <1>1, <2>0 DEF Process, Calls, Started, Waiting, Leased
  <2>2. rows'[run[c]].stage # "absent"
    BY <1>2, <2>1, RowsForward
  <2>3. Started(c)' /\ Beats(c)' /\ Calls(c)' /\ Publishing(c)'
    BY <1>1, <1>3, <2>0, <2>2 DEF Process, Started, Beats, Calls, Publishing
  <2>4. Closing(c)'
    <3>1. pc[c] # "stop"
      BY <2>1 DEF Waiting
    <3>2. CASE pc[c] = "completing" /\ call'[c].op = "ok"
      <4>1. rows'[run[c]].stage = "completed"
        BY <1>3, <2>1, <3>2, CommitLeaves
      <4> QED BY <1>1, <4>1 DEF Closing, Store!ActiveStages
    <3> QED BY <1>1, <3>1, <3>2 DEF Closing
  <2>5. Owns(c)'
    BY <1>1, <1>5, <1>7, <2>0 DEF Process, Owns, Spared
  <2>6. Beating(c)'
    <3>1. rows'[run[c]].stage \in Store!ActiveStages => rows[run[c]].stage \in Store!ActiveStages
      BY <1>2, <2>1, RowsForward
    <3> QED BY <1>1, <1>5, <1>7, <2>0, <2>1, <3>1 DEF Process, Beating, Spared
  <2> QED BY <2>3, <2>4, <2>5, <2>6 DEF Process
<1>8. OneBeat'
  BY <1>1 DEF Inv, OneBeat
<1>9. Finished'
  <2>1. ~Store!Idle(Operator)' => call'[Operator].op = "abandon"
    BY <1>3 DEF Inv, Finished, Store!Idle, Clients
  <2>2. ASSUME NEW id \in Procs, rows'[id].stage = "completed"
        PROVE  rows'[id].report = file /\ file # NoReport
    <3>1. CASE rows[id].stage = "completed"
      BY <1>2, <3>1, RowsForward DEF Inv, Finished, Store!ActiveStages
    <3>2. CASE rows[id].stage # "completed"
      <4>1. Store!WriteCommits(c) /\ id = call[c].id /\ call[c].to = "completed"
        BY <1>3, <2>2, <3>2, CommitLeaves
      <4>2. c # Operator
        <5>1. Table!Pending(c)
          BY <1>1, SameTypes DEF Inv, Table!IInv, Table!PendingAllowed, Clients
        <5> QED BY <1>1, <4>1, <5>1 DEF Inv, Finished, Table!Pending, Table!MovesOn
      <4>3. c \in Procs /\ Process(c)
        BY <1>0, <4>2 DEF Inv
      <4>4. pc[c] = "completing" /\ call[c].report = work[c] /\ file = work[c]
            /\ work[c] \in Report
        BY <1>1, <4>1, <4>3 DEF Process, Calls, Publishing, Started, Leased
      <4> QED BY <4>1, <4>4, CommitLeaves, NoReportAssumption
    <3> QED BY <3>1, <3>2
  <2> QED BY <1>1, <2>1, <2>2 DEF Finished
<1> QED BY <1>2, <1>4, <1>5, <1>6, <1>7, <1>8, <1>9, Preserved

\* Abandon reads, and asks for a write to "abandoned".
LEMMA AbandonStep ==
  ASSUME Inv, NEW id \in Procs, Abandon(id)
  PROVE  Sound(Operator)
<1>0. LocalTypes /\ call \in [Clients -> Store!Results \cup Store!PendingWrite]
  BY Types DEF Inv, Store!TypeOK, Clients
<1>1. /\ rows' = rows /\ faults' \in 0 .. MaxFaults
      /\ \A c \in Procs : call'[c] = call[c]
      /\ Store!Idle(Operator)' \/ call'[Operator].op = "abandon"
      /\ UNCHANGED <<pc, run, stage, work, todo, hb, ctx, out, file>>
  BY <1>0, ProcsAssumption, BoundsAssumption DEF Abandon, Store!AbandonRead, local, LocalTypes,
     Fault, Clients, Store!Result, Store!Results, Store!Idle
<1>2. [Table!Next]_(Table!vars)
  BY SameStatements DEF Abandon, Table!Next
<1>3. LocalTypes' /\ FileKept
  BY <1>0, <1>1 DEF LocalTypes, FileKept
<1>4. \A q \in Procs : Same(q) /\ Spared(q)
  BY <1>1 DEF Same, Spared
<1>5. OneBeat' /\ Finished'
  BY <1>1 DEF Inv, OneBeat, Finished
<1> QED BY <1>2, <1>3, <1>4, <1>5, Preserved DEF Clients

\* A tick: where heartbeats keep pace, none of their leases lapses.
LEMMA TickStep ==
  ASSUME Inv, Tick
  PROVE  Sound(Operator)
<1>0. LocalTypes /\ rows \in [Procs -> Store!Row]
  BY Types DEF Inv, Store!TypeOK
<1>1. /\ call' = call
      /\ rows' = [id \in Procs |-> [rows[id] EXCEPT !.left = IF @ < 0 THEN @ ELSE @ - 1]]
      /\ UNCHANGED <<pc, run, stage, work, todo, hb, ctx, out, file, faults>>
      /\ Timely => \A p \in Procs : hb[p] = "on" => rows[run[p]].left = TTL
  BY DEF Tick, Store!Tick, local
<1>2. [Table!Next]_(Table!vars)
  BY SameStatements DEF Tick, Table!Next
<1>3. \A id \in Procs : /\ rows'[id].stage = rows[id].stage
                        /\ rows'[id].report = rows[id].report
                        /\ rows'[id].owner = rows[id].owner
                        /\ rows[id].left = TTL => rows'[id].left > 0
  BY <1>0, <1>1, BoundsAssumption DEF Store!Row
<1>4. LocalTypes' /\ FileKept
  BY <1>0, <1>1 DEF LocalTypes, FileKept
<1>5. \A q \in Procs : Same(q) /\ Spared(q)
  BY <1>1, <1>3 DEF Same, Spared
<1>6. OneBeat' /\ Finished'
  BY <1>1, <1>3 DEF Inv, OneBeat, Finished, Store!Idle
<1> QED BY <1>2, <1>4, <1>5, <1>6, Preserved DEF Clients

\* A step of nobody.
LEMMA StutterStep ==
  ASSUME Inv, UNCHANGED vars
  PROVE  Sound(Operator)
<1>1. /\ rows' = rows /\ call' = call
      /\ UNCHANGED <<pc, run, stage, work, todo, hb, ctx, out, file, faults>>
  BY DEF vars, local
<1>2. [Table!Next]_(Table!vars)
  BY <1>1 DEF Table!vars
<1>3. LocalTypes' /\ FileKept
  BY <1>1, Types DEF Inv, LocalTypes, FileKept
<1>4. \A q \in Procs : Same(q) /\ Spared(q)
  BY <1>1 DEF Same, Spared
<1>5. OneBeat' /\ Finished'
  BY <1>1 DEF Inv, OneBeat, Finished, Store!Idle
<1> QED BY <1>2, <1>3, <1>4, <1>5, Preserved DEF Clients

-----------------------------------------------------------------------------
\* The invariant holds at the start.
LEMMA InitInv == Init => Inv
<1> SUFFICES ASSUME Init PROVE Inv
  OBVIOUS
<1>1. /\ rows = [id \in Procs |-> Store!NoRow]
      /\ call = [c \in Clients |-> Store!Result("ok")]
  BY DEF Init, Store!Init, Clients
<1>2. \A c \in Clients : Store!Idle(c)
  BY <1>1 DEF Store!Idle, Store!Result, Store!Results
<1>3. \A id \in Procs : /\ rows[id].stage = "absent" /\ rows[id].report = NoReport
                        /\ rows[id].owner = None /\ rows[id].left = -1
  BY <1>1 DEF Store!NoRow
<1>4. TypeOK
  <2>1. Store!TypeOK
    BY <1>1, BoundsAssumption DEF Clients, Store!TypeOK, Store!NoRow, Store!Row, Store!AllStages,
       Store!Result, Store!Results
  <2> QED BY <2>1, BoundsAssumption DEF Init, TypeOK, Labels
<1>5. Table!IInv
  <2>1. Table!PendingAllowed
    BY <1>2, SameTypes DEF Table!PendingAllowed, Clients
  <2>2. Table!OneActive /\ Table!LeaseOnlyOnActive /\ Table!NoStrayExpiry
    BY <1>3 DEF Table!OneActive, Table!Active, Table!ActiveStages, Table!LeaseOnlyOnActive,
       Table!NoStrayExpiry
  <2> QED BY <1>4, <2>1, <2>2, SameTypes DEF TypeOK, Table!IInv
<1>6. \A p \in Procs : Process(p)
  BY <1>2, <1>3, ProcsAssumption DEF Init, Clients, Process, Started, Beats, Calls, Publishing,
     Closing, Owns, Beating, Leased, Waiting
<1>7. OneBeat /\ Finished
  BY <1>2, <1>3 DEF Init, OneBeat, Finished, Clients
<1> QED BY <1>4, <1>5, <1>6, <1>7 DEF Inv

\* A step of process p, whichever action it is.
LEMMA ProcStep ==
  ASSUME Inv, NEW p \in Procs, Step(p) \/ Heartbeat(p) \/ Misfortune(p)
  PROVE  Sound(p)
<1>1. ASSUME Quiet(p) PROVE Sound(p)
  BY <1>1, QuietSteps
<1>2. ASSUME Saving(p) PROVE Sound(p)
  BY <1>2, SavingSteps
<1>3. ASSUME Create(p) \/ CreateUnsecured(p) PROVE Sound(p)
  BY <1>3, CreateSteps
<1>4. ASSUME Acquire(p) PROVE Sound(p)
  BY <1>4, AcquireStep
<1>5. ASSUME Release(p) PROVE Sound(p)
  BY <1>5, ReleaseStep
<1>6. ASSUME Crash(p) PROVE Sound(p)
  BY <1>6, CrashStep
<1>7. ASSUME Heartbeat(p) PROVE Sound(p)
  BY <1>1, <1>7, RenewStep DEF Quiet
<1>8. ASSUME AcquireUnanswered(p) \/ RenewUnanswered(p) PROVE Sound(p)
  BY <1>8, AcquireUnansweredStep, RenewUnansweredStep
<1> QED BY <1>1, <1>2, <1>3, <1>4, <1>5, <1>6, <1>7, <1>8 DEF Step, Misfortune, Quiet, Saving

\* Every step is the step of one client.
LEMMA NextStep == Inv /\ [Next]_vars => \E c \in Clients : Sound(c)
<1> SUFFICES ASSUME Inv, [Next]_vars PROVE \E c \in Clients : Sound(c)
  OBVIOUS
<1>1. ASSUME NEW p \in Procs, Step(p) \/ Heartbeat(p) \/ Misfortune(p) PROVE Sound(p)
  BY <1>1, ProcStep
<1>2. ASSUME NEW c \in Procs \cup {Operator}, StatementEnds(c) PROVE Sound(c)
  BY <1>2, StatementStep DEF Clients
<1>3. ASSUME NEW id \in Procs, Abandon(id) PROVE Sound(Operator)
  BY <1>3, AbandonStep
<1>4. ASSUME AllDone \/ UNCHANGED vars PROVE Sound(Operator)
  BY <1>4, StutterStep DEF AllDone
<1> QED BY <1>1, <1>2, <1>3, <1>4, TickStep DEF Next, Clients

\* The inductive invariant holds in every state of every behaviour.
THEOREM Invariant == Spec => []Inv
<1>1. Inv /\ [Next]_vars => Inv'
  BY NextStep DEF Sound
<1> QED BY <1>1, InitInv, PTL DEF Spec

\* The composition keeps its types.
THEOREM TypeCorrect == Spec => []TypeOK
BY Invariant, PTL DEF Inv

\* A run is completed only with the report that is on disk, whoever published
\* it and whatever was interrupted, refused or retried in between.
THEOREM Published == Spec => []CompletedIsPublished
<1>1. Inv => CompletedIsPublished
  BY DEF Inv, Finished, CompletedIsPublished
<1> QED BY <1>1, Invariant, PTL

\* Every way out of check gives the lease back, save a crash, a release that
\* the store refused and an acquisition that it reported as an error.
THEOREM Freed == Spec => []LeaseFreedOnExit
<1>1. Inv => LeaseFreedOnExit
  BY DEF Inv, Process, Owns, LeaseFreedOnExit, Leased
<1> QED BY <1>1, Invariant, PTL

\* While the heartbeats keep pace with the clock, no two processes execute
\* the same run.
THEOREM Exclusive ==
  ASSUME Timely
  PROVE  Spec => []ExclusiveExecution
<1>1. Inv => ExclusiveExecution
  <2> SUFFICES ASSUME Inv, NEW p \in Procs, NEW q \in Procs,
                      Executing(p), Executing(q), run[p] = run[q]
               PROVE  p = q
    BY DEF ExclusiveExecution
  <2>1. hb \in [Procs -> {"off", "on", "failed"}]
    BY DEF Inv, TypeOK
  <2>2. ASSUME NEW x \in Procs, Executing(x) PROVE hb[x] = "on"
    BY <2>1, <2>2 DEF Inv, Process, Beats, Executing, Leased
  <2> QED BY <2>2 DEF Inv, OneBeat
<1> QED BY <1>1, Invariant, PTL

-----------------------------------------------------------------------------
\* RunStoreProofs instantiated and RunStore instantiated take the same steps.
LEMMA SameSteps == Table!Next <=> Store!Next
BY SameTypes, SameStatements DEF Table!Next, Store!Next

\* The invocations, their heartbeats and the operator use the store as
\* RunStore allows: what holds of every behaviour of the store holds here.
THEOREM ImplementsStore == Spec => Store!Spec
<1>1. Init => Store!Init
  BY DEF Init
<1>2. Inv /\ [Next]_vars => [Store!Next]_(Store!vars)
  BY NextStep, SameSteps DEF Sound, Table!vars, Store!vars
<1> QED BY <1>1, <1>2, Invariant, PTL DEF Spec, Store!Spec

\* And so no late statement, heartbeat or Abandon changes a completed or
\* abandoned run, whatever the processes were doing.
THEOREM DecidedStays == Spec => Store!TerminalFinal
<1>1. Inv /\ [Next]_vars => [\A id \in Procs : Store!KeepsDecided(id)]_(Store!vars)
  <2> SUFFICES ASSUME Inv, [Next]_vars, NEW id \in Procs PROVE Store!KeepsDecided(id)
    OBVIOUS
  <2>1. Table!KeepsDecided(id)
    BY NextStep, TableAssumptions, Table!DecidedStep DEF Inv, Sound
  <2> QED BY <2>1 DEF Table!KeepsDecided, Store!KeepsDecided, Table!TerminalStages,
             Store!TerminalStages
<1> QED BY <1>1, Invariant, PTL DEF Spec, Store!TerminalFinal

\* And so are the two abstract runs.
LEMMA SameLifecycle ==
  /\ Table!Lifecycle!Next <=> Store!Lifecycle!Next
  /\ UNCHANGED Table!Lifecycle!vars <=> UNCHANGED Store!Lifecycle!vars
<1>0. /\ Table!Lifecycle!Running = Store!Lifecycle!Running
      /\ Table!Lifecycle!After = Store!Lifecycle!After
  BY DEF Table!Lifecycle!Running, Store!Lifecycle!Running,
         Table!Lifecycle!After, Store!Lifecycle!After
<1>1. UNCHANGED Table!Lifecycle!vars <=> UNCHANGED Store!Lifecycle!vars
  BY DEF Table!Lifecycle!vars, Store!Lifecycle!vars,
     Table!Idle, Store!Idle, Table!Results, Store!Results
<1>2. /\ Table!Lifecycle!Lapse <=> Store!Lifecycle!Lapse
      /\ \A id : /\ Table!Lifecycle!Begin(id) <=> Store!Lifecycle!Begin(id)
                 /\ Table!Lifecycle!GiveUp(id) <=> Store!Lifecycle!GiveUp(id)
      /\ \A c : /\ Table!Lifecycle!Ask(c) <=> Store!Lifecycle!Ask(c)
                /\ Table!Lifecycle!Refuse(c) <=> Store!Lifecycle!Refuse(c)
  BY <1>0
     DEF Table!Lifecycle!Lapse, Store!Lifecycle!Lapse,
         Table!Lifecycle!Begin, Store!Lifecycle!Begin,
         Table!Lifecycle!GiveUp, Store!Lifecycle!GiveUp,
         Table!Lifecycle!Ask, Store!Lifecycle!Ask,
         Table!Lifecycle!Refuse, Store!Lifecycle!Refuse,
         Table!Idle, Store!Idle, Table!Results, Store!Results
<1>3. \A c, id : Table!Lifecycle!Take(c, id) <=> Store!Lifecycle!Take(c, id)
  BY <1>0 DEF Table!Lifecycle!Take, Store!Lifecycle!Take,
     Table!Idle, Store!Idle, Table!Results, Store!Results
<1>4. \A c, id, to, r : Table!Lifecycle!Save(c, id, to, r) <=> Store!Lifecycle!Save(c, id, to, r)
  BY <1>0 DEF Table!Lifecycle!Save, Store!Lifecycle!Save,
     Table!Idle, Store!Idle, Table!Results, Store!Results
<1>5. \A c, id, r : Table!Lifecycle!Close(c, id, r) <=> Store!Lifecycle!Close(c, id, r)
  BY <1>0 DEF Table!Lifecycle!Close, Store!Lifecycle!Close,
     Table!Idle, Store!Idle, Table!Results, Store!Results
<1> QED
  BY <1>0, <1>1, <1>2, <1>3, <1>4, <1>5 DEF Table!Lifecycle!Next, Store!Lifecycle!Next

\* Composed with the refinement of the store: whatever the invocations and the
\* operator do, a run moves as the abstract run does, one save at a time by
\* who holds it.
THEOREM ImplementsRun == Spec => Store!ImplementsLifecycle
<1>1. Init => Store!Lifecycle!Init
  BY DEF Init, Store!Init, Store!NoRow, Store!Idle, Store!Result, Store!Results,
         Store!Lifecycle!Init
<1>2. Inv /\ [Next]_vars => [Store!Lifecycle!Next]_(Store!Lifecycle!vars)
  BY NextStep, TableAssumptions, Table!LifecycleStep, SameLifecycle DEF Inv, Sound
<1> QED
  BY <1>1, <1>2, Invariant, PTL DEF Spec, Store!ImplementsLifecycle, Store!Lifecycle!Spec

-----------------------------------------------------------------------------
(***************************************************************************)
(* Nobody repeats the gates of an observing run.  Who wrote its report is  *)
(* carried by the lease: what its holder may save is by the same author.   *)
(***************************************************************************)
Observing(p) == rows[run[p]].stage = "observing" /\ rows[run[p]].owner = p

\* A record read while the run observed keeps its author until the lease.
Read(p) ==
  pc[p] = "acquire" /\ stage[p] = "observing" =>
    /\ rows[run[p]].stage \notin {"absent", "checking"}
    /\ (rows[run[p]].stage = "observing" => work[p].by = rows[run[p]].report.by)

\* A process that runs the gates of an observing run is refused its first
\* checkpoint; one that samples has the author's report.
Holds(p) ==
  Observing(p) =>
    /\ pc[p] = "checks" => call[p].op # "ok" \/ todo[p] = Checkpoints
    /\ \/ pc[p] \in {"poll", "polled", "last"}
       \/ pc[p] = "opened" /\ call[p].op = "ok"
       => work[p].by = rows[run[p]].report.by

\* What a process waits for is a save of its own report.
Saves(p) ==
  ~Store!Idle(p) =>
    /\ pc[p] = "checks" => call[p].to = "checking"
    /\ call[p].report.by = work[p].by
    /\ Observing(p) /\ call[p].seen = "observing" =>
         call[p].report.by = rows[run[p]].report.by

Author(p) == Read(p) /\ Holds(p) /\ Saves(p)

\* Gates have written the report of a run that is past them.
Reported ==
  \A id \in Procs :
    rows[id].stage \notin {"absent", "checking"} => rows[id].report \in Report

\* An Abandon that read a run while it observed has a report of its author.
ClosesOwn ==
  ~Store!Idle(Operator) /\ call[Operator].seen = "observing" =>
    LET id == call[Operator].id IN
    /\ rows[id].stage \notin {"absent", "checking"}
    /\ (rows[id].stage = "observing" =>
          call[Operator].report.by = rows[id].report.by)

AuthorInv ==
  /\ Inv
  /\ \A p \in Procs : Author(p)
  /\ Reported
  /\ ClosesOwn

\* Process q gets a lease, told or not.
Acquires(q) == Acquire(q) \/ AcquireUnanswered(q)

\* What one step does to a row.
Written(id) ==
  \E c \in Clients : StatementEnds(c) /\ Store!WriteCommits(c) /\ call[c].id = id

\* A row gets a new owner by an acquisition alone, and a new report by a write
\* alone.
LEMMA RowSteps ==
  ASSUME Inv, [Next]_vars, NEW id \in Procs
  PROVE  /\ \A q \in Procs : rows'[id].owner = q => rows[id].owner = q \/ Acquires(q)
         /\ ~Written(id) =>
              /\ rows'[id].report = rows[id].report
              /\ \/ rows'[id].stage = rows[id].stage
                 \/ rows[id].stage = "absent" /\ rows'[id].stage = "checking"
<1>0. rows \in [Procs -> Store!Row]
  BY DEF Inv, TypeOK, Store!TypeOK
<1>1. CASE rows' = rows
  BY <1>1
<1>2. ASSUME NEW new \in Procs, Store!Create(new)
      PROVE  /\ rows'[id].owner = rows[id].owner /\ rows'[id].report = rows[id].report
             /\ \/ rows'[id].stage = rows[id].stage
                \/ rows[id].stage = "absent" /\ rows'[id].stage = "checking"
  BY <1>0, <1>2 DEF Store!Create, Store!Insertable, Store!Row
<1>3. ASSUME NEW p \in Procs, Acquires(p), rows' # rows
      PROVE  /\ rows'[id].owner \in {rows[id].owner, p} /\ rows'[id].report = rows[id].report
             /\ rows'[id].stage = rows[id].stage
  <2>1. rows' = [rows EXCEPT ![run[p]] = [@ EXCEPT !.owner = p, !.left = TTL]]
    BY <1>3 DEF Acquires, Acquire, AcquireUnanswered, Store!AcquireLease
  <2> QED BY <1>0, <2>1 DEF Store!Row
<1>4. ASSUME NEW p \in Procs, Release(p) \/ Heartbeat(p) \/ RenewUnanswered(p) \/ Tick
      PROVE  /\ rows'[id].owner \in {rows[id].owner, None} /\ rows'[id].report = rows[id].report
             /\ rows'[id].stage = rows[id].stage
  <2>1. CASE rows' = rows
    BY <2>1
  <2>2. CASE rows' = [rows EXCEPT ![run[p]] = [@ EXCEPT !.owner = None, !.left = -1]]
    BY <1>0, <2>2 DEF Store!Row
  <2>3. CASE rows' = [rows EXCEPT ![run[p]].left = TTL]
    BY <1>0, <2>3 DEF Store!Row
  <2>4. CASE Tick
    BY <1>0, <2>4 DEF Tick, Store!Tick, Store!Row
  <2>5. Release(p) \/ Heartbeat(p) \/ RenewUnanswered(p) =>
          \/ rows' = rows
          \/ rows' = [rows EXCEPT ![run[p]] = [@ EXCEPT !.owner = None, !.left = -1]]
          \/ rows' = [rows EXCEPT ![run[p]].left = TTL]
    BY DEF Release, Store!ReleaseLease, Heartbeat, RenewUnanswered, Store!RenewLease
  <2> QED BY <1>4, <2>1, <2>2, <2>3, <2>4, <2>5
<1>5. ASSUME NEW c \in Clients, StatementEnds(c), rows' # rows
      PROVE  /\ rows'[id].owner \in {rows[id].owner, None}
             /\ ~Written(id) => rows'[id] = rows[id]
  <2>1. Store!WriteCommits(c)
    BY <1>5 DEF StatementEnds, Store!WriteMisses, Store!StatementFails
  <2> QED BY <1>5, <2>1, CommitLeaves DEF Written
<1>6. ASSUME NEW p \in Procs, Quiet(p) \/ Saving(p) \/ Crash(p)
      PROVE  rows' = rows \/ Heartbeat(p)
  BY <1>6 DEF Quiet, Saving, Crash, Store!Forget, Find, StartFails, CheckpointRefused, Opened,
     EngineReturns, Returned, Publish, PublishFails, Completed, Stop, ReleaseFails, Signal,
     RenewFails, Checkpoint, GatesDone, Finish, Sample, Observed, Complete, Emit, Store!UpdateRead
<1>7. ASSUME NEW p \in Procs, Create(p) \/ CreateUnsecured(p)
      PROVE  rows' = rows \/ Store!Create(p)
  BY <1>7 DEF Create, CreateUnsecured
<1>8. ASSUME NEW new \in Procs, Abandon(new) PROVE rows' = rows
  BY <1>8 DEF Abandon, Store!AbandonRead
<1>9. None \notin Procs
  BY ProcsAssumption
<1>10. ASSUME NEW p \in Procs, Step(p) \/ Heartbeat(p) \/ Misfortune(p)
       PROVE  \/ Quiet(p) \/ Saving(p) \/ Crash(p) \/ Create(p) \/ CreateUnsecured(p)
              \/ Acquires(p) \/ Release(p) \/ Heartbeat(p) \/ RenewUnanswered(p)
  BY <1>10 DEF Step, Misfortune, Quiet, Saving, Acquires
<1>11. AllDone \/ UNCHANGED vars => rows' = rows
  BY DEF AllDone, vars
<1> QED
  <2>1. CASE \E p \in Procs : Step(p) \/ Heartbeat(p) \/ Misfortune(p)
    BY <1>1, <1>2, <1>3, <1>4, <1>6, <1>7, <1>9, <1>10, <2>1
  <2>2. CASE \E c \in Procs \cup {Operator} : StatementEnds(c)
    BY <1>1, <1>5, <1>9, <2>2 DEF Clients
  <2>3. CASE Tick
    BY <1>4, <1>9, <2>3
  <2> QED BY <1>1, <1>8, <1>11, <2>1, <2>2, <2>3 DEF Next

\* From the moment a run observes, its report keeps its author.
KeepsAuthor(id) ==
  rows[id].stage = "observing" => rows'[id].report.by = rows[id].report.by

\* Whose write it is that finds its row.
LEMMA Writers ==
  ASSUME Inv, NEW c \in Clients, Store!WriteCommits(c)
  PROVE  /\ ~Store!Idle(c)
         /\ \/ c = Operator /\ call[c].to = "abandoned"
            \/ c \in Procs /\ call[c].id = run[c] /\ rows[run[c]].owner = c
         /\ call[c].seen = rows[call[c].id].stage
<1>1. ~Store!Idle(c) /\ Store!WriteMatches(call[c])
  BY DEF Store!WriteCommits
<1>2. c = Operator => call[c].to = "abandoned"
  <2>1. Table!Pending(c)
    BY <1>1, SameTypes DEF Inv, Table!IInv, Table!PendingAllowed, Clients
  <2> QED BY <1>1, <2>1 DEF Inv, Finished, Table!Pending, Table!MovesOn
<1>3. c \in Procs => /\ call[c].id = run[c] /\ call[c].op = "update" /\ call[c].as = c
  BY <1>1 DEF Inv, Process, Calls
<1> QED BY <1>1, <1>2, <1>3 DEF Clients, Store!WriteMatches

\* A write to an observing row is by the author of the report that is there.
LEMMA KeepsAuthorStep ==
  ASSUME AuthorInv, [Next]_vars, NEW id \in Procs
  PROVE  KeepsAuthor(id)
<1> SUFFICES ASSUME rows[id].stage = "observing"
             PROVE  rows'[id].report.by = rows[id].report.by
  BY DEF KeepsAuthor
<1>0. Inv
  BY DEF AuthorInv
<1>1. CASE ~Written(id)
  BY <1>0, <1>1, RowSteps
<1>2. CASE Written(id)
  <2>1. PICK c \in Clients : Store!WriteCommits(c) /\ call[c].id = id
    BY <1>2 DEF Written
  <2>2. rows'[id].stage = call[c].to /\ rows'[id].report = call[c].report
    BY <1>0, <2>1, CommitLeaves
  <2>3. ~Store!Idle(c) /\ call[c].seen = "observing"
    BY <1>0, <2>1, Writers
  <2>4. CASE c \in Procs
    <3>1. c # Operator
      BY <2>4, ProcsAssumption
    <3>2. id = run[c] /\ Observing(c)
      BY <1>0, <2>1, <3>1, Writers DEF Observing
    <3>3. Saves(c)
      BY <2>4 DEF AuthorInv, Author
    <3> QED BY <2>2, <2>3, <3>2, <3>3 DEF Saves
  <2>5. CASE c = Operator
    BY <2>1, <2>2, <2>3, <2>5 DEF AuthorInv, ClosesOwn
  <2> QED BY <2>4, <2>5 DEF Clients
<1> QED BY <1>1, <1>2

\* Only a write takes a run past its gates, and it brings a report.
LEMMA ReportedKept == AuthorInv /\ [Next]_vars => Reported'
<1> SUFFICES ASSUME AuthorInv, [Next]_vars, NEW id \in Procs,
                    rows'[id].stage \notin {"absent", "checking"}
             PROVE  rows'[id].report \in Report
  BY DEF Reported
<1>0. Inv
  BY DEF AuthorInv
<1>1. CASE ~Written(id)
  BY <1>0, <1>1, RowSteps DEF AuthorInv, Reported
<1>2. CASE Written(id)
  <2>1. PICK c \in Clients : Store!WriteCommits(c) /\ call[c].id = id
    BY <1>2 DEF Written
  <2>2. rows'[id].report = call[c].report
    BY <1>0, <2>1, CommitLeaves
  <2>3. call[c] \in Store!PendingWrite
    BY <1>0, <2>1 DEF Store!WriteCommits, Store!Idle, Inv, TypeOK, Store!TypeOK, Clients
  <2> QED BY <2>2, <2>3 DEF Store!PendingWrite
<1> QED BY <1>1, <1>2

\* A row that a record was read from while it observed.
LEMMA ReadKept ==
  ASSUME AuthorInv, [Next]_vars, NEW id \in Procs,
         rows[id].stage \notin {"absent", "checking"}
  PROVE  /\ rows'[id].stage \notin {"absent", "checking"}
         /\ rows'[id].stage = "observing" =>
              /\ rows[id].stage = "observing"
              /\ rows'[id].report.by = rows[id].report.by
<1>1. Inv /\ [Table!Next]_(Table!vars)
  BY NextStep DEF AuthorInv, Sound
<1>2. Table!MovesForward(id)
  BY <1>1, TableAssumptions, Table!ForwardStep DEF Inv
<1>3. rows'[id].stage \notin {"absent", "checking"}
      /\ (rows'[id].stage = "observing" => rows[id].stage = "observing")
  BY <1>2 DEF Table!MovesForward, Table!Allowed
<1> QED BY <1>3, KeepsAuthorStep DEF KeepsAuthor

\* The row of a lease holder that neither saves nor has just got its lease.
LEMMA HolderKept ==
  ASSUME AuthorInv, [Next]_vars, NEW q \in Procs, run[q] \in Procs,
         ~Acquires(q), ~StatementEnds(q),
         rows'[run[q]].stage = "observing", rows'[run[q]].owner = q
  PROVE  Observing(q) /\ rows'[run[q]].report.by = rows[run[q]].report.by
<1>0. Inv
  BY DEF AuthorInv
<1>1. rows[run[q]].owner = q
  BY <1>0, RowSteps
<1>2. ~Written(run[q])
  <2> SUFFICES ASSUME Written(run[q]) PROVE FALSE
    OBVIOUS
  <2>1. PICK c \in Clients : StatementEnds(c) /\ Store!WriteCommits(c) /\ call[c].id = run[q]
    BY DEF Written
  <2>2. rows'[run[q]].stage = call[c].to
    BY <1>0, <2>1, CommitLeaves
  <2> QED BY <1>0, <1>1, <2>1, <2>2, Writers
<1> QED BY <1>0, <1>1, <1>2, RowSteps DEF Observing

\* What a step leaves alone of a process.
Unmoved(q) ==
  /\ pc'[q] = pc[q] /\ run'[q] = run[q] /\ work'[q] = work[q] /\ call'[q] = call[q]
  /\ stage'[q] = stage[q] /\ todo'[q] = todo[q]

\* A process that the step does not move.
LEMMA UnmovedAuthor ==
  ASSUME AuthorInv, [Next]_vars, NEW q \in Procs, Unmoved(q)
  PROVE  Author(q)'
<1>0. Inv /\ Author(q) /\ Process(q)
  BY DEF AuthorInv, Inv
<1>1. ~Acquires(q) /\ ~StatementEnds(q)
  <2>1. ~Acquires(q)
    <3>1. pc \in [Procs -> Labels]
      BY <1>0 DEF Inv, TypeOK
    <3> QED BY <3>1 DEF Unmoved, Acquires, Acquire, AcquireUnanswered, AcquireRefused, Die, Goto,
               Entry
  <2>2. ~StatementEnds(q)
    <3>1. call \in [Clients -> Store!Results \cup Store!PendingWrite]
      BY <1>0 DEF Inv, TypeOK, Store!TypeOK, Clients
    <3> QED BY <3>1 DEF Unmoved, StatementEnds, Store!WriteCommits, Store!WriteMisses,
               Store!StatementFails, Store!Result, Store!Results, Store!Idle, Clients
  <2> QED BY <2>1, <2>2
<1>2. pc[q] \in Leased \cup {"acquire"} => run[q] \in Procs
  BY <1>0 DEF Process, Started
<1>3. Read(q)'
  BY <1>0, <1>2, ReadKept DEF Author, Read, Unmoved
<1>4. Holds(q)'
  BY <1>0, <1>1, <1>2, HolderKept DEF Author, Holds, Observing, Unmoved, Leased
<1>5. Saves(q)'
  <2>1. ~Store!Idle(q) => run[q] \in Procs
    BY <1>0, <1>2 DEF Process, Calls, Waiting, Leased
  <2> QED BY <1>0, <1>1, <2>1, HolderKept DEF Author, Saves, Observing, Unmoved, Store!Idle
<1> QED BY <1>3, <1>4, <1>5 DEF Author

\* A process that neither waits for a save nor is anywhere that matters.
Resting(p) ==
  /\ Store!Idle(p)'
  /\ pc'[p] \notin {"acquire", "checks", "opened", "poll", "polled", "last"}

\* Such a process has nothing to say of authors.
LEMMA RestingAuthor ==
  ASSUME NEW p \in Procs, Resting(p)
  PROVE  Author(p)'
BY DEF Resting, Author, Read, Holds, Saves

\* Quiet actions: only Find, Opened and the heartbeat are of interest.
LEMMA QuietAuthor ==
  ASSUME AuthorInv, NEW p \in Procs, Quiet(p), [Next]_vars
  PROVE  Author(p)'
<1>0. Inv /\ Author(p) /\ Process(p) /\ LocalTypes
  BY Types DEF AuthorInv, Inv
<1>1. CASE Signal(p) \/ RenewFails(p) \/ Heartbeat(p)
  <2>1. Unmoved(p) \/ (Unmoved(p) /\ Store!Renewable(p, run[p]))
    BY <1>1 DEF Signal, RenewFails, Heartbeat, Unmoved, Store!RenewLease
  <2> QED BY <2>1, UnmovedAuthor
<1>2. ASSUME Find(p) PROVE Author(p)'
  <2>1. Store!Idle(p)' /\ rows' = rows
    BY <1>0, <1>2 DEF Find, Process, Calls, Waiting, Store!Idle
  <2>2. CASE pc'[p] = "acquire"
    <3>1. /\ stage'[p] = rows[run'[p]].stage /\ work'[p] = rows[run'[p]].report
          /\ rows[run'[p]].stage \in Store!ActiveStages
      BY <1>0, <1>2, <2>2 DEF Find, Die, Goto, LocalTypes, Store!Active
    <3>2. Read(p)'
      BY <2>1, <3>1 DEF Read
    <3> QED BY <2>1, <2>2, <3>2 DEF Author, Holds, Saves
  <2>3. CASE pc'[p] # "acquire"
    <3>1. pc'[p] \in {"create", "done"}
      BY <1>0, <1>2, <2>3 DEF Find, Die, Goto, LocalTypes
    <3> QED BY <2>1, <3>1, RestingAuthor DEF Resting
  <2> QED BY <2>2, <2>3
<1>3. ASSUME Opened(p) PROVE Author(p)'
  <2>1. /\ rows' = rows /\ call' = call /\ run' = run /\ Store!Idle(p)' /\ pc[p] = "opened"
        /\ \/ pc'[p] = "poll" /\ work' = work /\ call[p].op = "ok"
           \/ pc'[p] = "returned"
    BY <1>0, <1>3 DEF Opened, Ready, Goto, LocalTypes, Store!Idle
  <2>2. CASE pc'[p] = "poll"
    BY <1>0, <2>1, <2>2 DEF Author, Read, Holds, Saves, Observing
  <2> QED BY <2>1, <2>2, RestingAuthor DEF Resting
<1>4. ASSUME \/ StartFails(p) \/ CheckpointRefused(p) \/ EngineReturns(p) \/ Returned(p)
             \/ Publish(p) \/ PublishFails(p) \/ Completed(p) \/ Stop(p) \/ ReleaseFails(p)
      PROVE  Author(p)'
  <2>1. Store!Idle(p)'
    BY <1>0, <1>4 DEF StartFails, CheckpointRefused, EngineReturns, Returned, Publish, PublishFails,
       Completed, Stop, ReleaseFails, Refused, Process, Calls, Waiting, Store!Idle
  <2>2. pc'[p] \in {"refind", "done", "returned", "stop", "publish", "complete", "release"}
    BY <1>0, <1>4 DEF StartFails, CheckpointRefused, EngineReturns, Returned, Publish, PublishFails,
       Completed, Stop, ReleaseFails, Close, Goto, Die, LocalTypes
  <2> QED BY <2>1, <2>2, RestingAuthor DEF Resting
<1> QED BY <1>1, <1>2, <1>3, <1>4 DEF Quiet

\* A process that starts a save.
LEMMA SaveAuthor ==
  ASSUME AuthorInv, NEW p \in Procs, NEW to \in Store!ActiveStages \cup {"completed"},
         NEW report \in Report, Emit(p, to, report), run' = run,
         pc[p] \in Leased, pc'[p] \in Waiting,
         report.by = work[p].by, work'[p].by = work[p].by,
         pc'[p] = "checks" => to = "checking",
         to \in {"observing", "finalizing"} /\ Observing(p) =>
           work[p].by = rows[run[p]].report.by,
         pc'[p] \in {"polled", "last"} => to = "observing"
  PROVE  Author(p)'
<1>0. Inv /\ run[p] \in Procs
  BY DEF AuthorInv, Inv, Process, Started
<1>1. Asked(p, to, report)
  BY <1>0, EmitStep
<1>2. Read(p)'
  BY DEF Read, Waiting
<1>3. Holds(p)'
  BY <1>1 DEF Holds, Asked, Observing, Waiting
<1>4. Saves(p)'
  <2>1. Store!Allowed("observing") = {"observing", "finalizing"}
    BY DEF Store!Allowed
  <2> QED BY <1>1, <2>1 DEF Saves, Asked, Observing, Store!Idle
<1> QED BY <1>2, <1>3, <1>4 DEF Author

\* Every action that starts a save.
LEMMA SavingAuthor ==
  ASSUME AuthorInv, NEW p \in Procs, Saving(p)
  PROVE  Author(p)'
<1>0. Inv /\ Author(p) /\ LocalTypes /\ Process(p)
  BY Types DEF AuthorInv, Inv
<1>b. Store!ActiveStages = {"checking", "observing", "finalizing"}
  BY SameTypes
<1>a. pc[p] \in Leased => work[p] \in Report
  BY <1>0 DEF Process, Started
<1>c. ASSUME NEW r \in Report, NEW d
      PROVE  /\ [r EXCEPT !.decision = d].by = r.by
             /\ d \in Decisions => [r EXCEPT !.decision = d] \in Report
  BY DEF Report, Decisions
<1>d. \/ pc[p] \in {"poll", "polled", "last"}
      \/ pc[p] = "checks" /\ call[p].op = "ok" /\ todo[p] = 0
      => (Observing(p) => work[p].by = rows[run[p]].report.by)
  BY <1>0, BoundsAssumption DEF Author, Holds
<1>1. ASSUME Checkpoint(p) PROVE Author(p)'
  <2>1. /\ pc[p] = "checks" /\ pc'[p] \in {"checks", "interrupted"} /\ run' = run
        /\ Emit(p, "checking", [work[p] EXCEPT !.decision = "HOLD"])
    BY <1>0, <1>1 DEF Checkpoint, Goto, LocalTypes
  <2>2. work'[p] = work[p] \/ work'[p] = [work[p] EXCEPT !.decision = "HOLD"]
    BY <1>0, <1>1 DEF Checkpoint, LocalTypes
  <2>3. work[p] \in Report
    BY <1>a, <2>1 DEF Leased
  <2>4. /\ [work[p] EXCEPT !.decision = "HOLD"] \in Report /\ work'[p].by = work[p].by
        /\ [work[p] EXCEPT !.decision = "HOLD"].by = work[p].by
    BY <1>c, <2>2, <2>3 DEF Decisions
  <2> QED BY <1>b, <2>1, <2>4, SaveAuthor DEF Leased, Waiting
<1>2. ASSUME NEW d \in Decisions, Finish(p, d),
             \/ pc[p] \in {"polled", "last"}
             \/ pc[p] = "checks" /\ call[p].op = "ok" /\ todo[p] = 0
      PROVE  Author(p)'
  <2> DEFINE final == [work[p] EXCEPT !.decision = d,
                                      !.status = IF @ = "none" THEN @ ELSE "completed"]
  <2>1. Emit(p, "finalizing", final) /\ final \in Report /\ final.by = work[p].by
    BY <1>2, <1>a DEF Finish, Report, Leased, Decisions
  <2>2. work'[p] = final /\ pc'[p] = "final" /\ run' = run
    BY <1>0, <1>2 DEF Finish, Goto, LocalTypes
  <2> HIDE DEF final
  <2>3. work'[p].by = work[p].by
    BY <2>1, <2>2
  <2>4. Observing(p) => work[p].by = rows[run[p]].report.by
    BY <1>2, <1>d
  <2> QED BY <1>2, <1>b, <2>1, <2>2, <2>3, <2>4, SaveAuthor DEF Leased, Waiting
<1>3. ASSUME GatesDone(p) PROVE Author(p)'
  <2>0. pc[p] = "checks" /\ call[p].op = "ok" /\ todo[p] = 0
    BY <1>3 DEF GatesDone, Ready
  <2>1. CASE ~Observes
    BY <1>2, <1>3, <2>0, <2>1 DEF GatesDone, Decisions
  <2>2. CASE Observes
    <3> DEFINE opened == [work[p] EXCEPT !.status = "observing", !.decision = "HOLD"]
    <3>1. Emit(p, "observing", opened) /\ opened \in Report /\ opened.by = work[p].by
      BY <1>3, <1>a, <2>2, <2>0 DEF GatesDone, Report, Leased
    <3>2. work'[p] = opened /\ pc'[p] = "opened" /\ run' = run
      BY <1>0, <1>3, <2>2 DEF GatesDone, Goto, LocalTypes
    <3> HIDE DEF opened
    <3>3. work'[p].by = work[p].by
      BY <3>1, <3>2
    <3> QED BY <1>b, <1>d, <2>0, <3>1, <3>2, <3>3, SaveAuthor DEF Leased, Waiting
  <2> QED BY <2>1, <2>2
<1>4. ASSUME Sample(p) PROVE Author(p)'
  <2> DEFINE more == [work[p] EXCEPT !.samples = @ \cup {<<p, Cardinality(SamplesBy(p)) + 1>>}]
  <2>1. /\ pc[p] \in {"poll", "polled"} /\ Emit(p, "observing", more)
        /\ work'[p] = more /\ pc'[p] \in {"last", "polled"} /\ run' = run
    BY <1>0, <1>4 DEF Sample, Goto, LocalTypes
  <2>2. more \in Report
    <3>1. Sound(p)
      BY <1>0, <1>4, SavingSteps DEF Saving
    <3>2. LocalTypes'
      BY <3>1, Types, PTL DEF Sound, Inv
    <3>3. work'[p] # NoReport
      <4>1. Started(p)'
        BY <3>1 DEF Sound, Inv, Process
      <4> QED BY <2>1, <4>1, NoReportAssumption DEF Started, Leased
    <3> QED BY <2>1, <3>2, <3>3 DEF LocalTypes
  <2>3. more.by = work[p].by
    BY <1>a, <2>1 DEF Report, Leased
  <2> HIDE DEF more
  <2>4. work'[p].by = work[p].by
    BY <2>1, <2>3
  <2> QED BY <1>b, <1>d, <2>1, <2>2, <2>3, <2>4, SaveAuthor DEF Leased, Waiting
<1>5. ASSUME Observed(p) PROVE Author(p)'
  <2>1. pc[p] \in {"last", "polled"}
    BY <1>5 DEF Observed
  <2>2. CASE ~ctx[p]
    BY <1>2, <1>5, <2>1, <2>2 DEF Observed, Decisions
  <2>3. CASE ctx[p]
    <3> DEFINE held == [work[p] EXCEPT !.decision = "HOLD"]
    <3>1. Emit(p, "observing", held) /\ held \in Report /\ held.by = work[p].by
      BY <1>5, <1>a, <1>c, <2>1, <2>3 DEF Observed, Leased, Decisions
    <3>2. work'[p] = held /\ pc'[p] = "interrupted" /\ run' = run
      BY <1>0, <1>5, <2>3 DEF Observed, Goto, LocalTypes
    <3> HIDE DEF held
    <3>3. work'[p].by = work[p].by
      BY <3>1, <3>2
    <3> QED BY <1>b, <1>d, <2>1, <3>1, <3>2, <3>3, SaveAuthor DEF Leased, Waiting
  <2> QED BY <2>2, <2>3
<1>6. ASSUME Complete(p) PROVE Author(p)'
  <2>1. /\ pc[p] = "complete" /\ Emit(p, "completed", work[p]) /\ work' = work /\ run' = run
        /\ pc'[p] = "completing" /\ work[p] \in Report
    BY <1>0, <1>6, <1>a DEF Complete, Goto, LocalTypes, Leased
  <2> QED BY <1>b, <2>1, SaveAuthor DEF Leased, Waiting
<1> QED BY <1>1, <1>3, <1>4, <1>5, <1>6 DEF Saving

\* A process that takes a lease: it samples only what it read while the run
\* observed, and starts the gates with every checkpoint to come.
LEMMA AcquireAuthor ==
  ASSUME AuthorInv, NEW p \in Procs, Acquire(p), [Next]_vars
  PROVE  Author(p)'
<1>0. Inv /\ Author(p) /\ LocalTypes /\ Process(p) /\ pc[p] = "acquire" /\ run[p] \in Procs
  BY Types DEF AuthorInv, Inv, Acquire, Process, Started
<1>1. Store!Idle(p)' /\ run' = run
  BY <1>0 DEF Acquire, Process, Calls, Waiting, Store!Idle, Store!AcquireLease
<1>2. CASE pc'[p] = "done"
  BY <1>1, <1>2, RestingAuthor DEF Resting
<1>3. CASE pc'[p] # "done"
  <2>1. /\ pc'[p] = Entry(p)
        /\ work'[p] = IF Entry(p) = "checks" THEN NewReport(p) ELSE work[p]
        /\ Entry(p) = "checks" => todo'[p] = Checkpoints
    BY <1>0, <1>3 DEF Acquire, AcquireRefused, Die, Goto, LocalTypes
  <2>2. CASE Entry(p) = "poll"
    <3>1. stage[p] = "observing" /\ work'[p] = work[p]
      BY <2>1, <2>2 DEF Entry
    <3>2. rows[run[p]].stage \notin {"absent", "checking"}
          /\ (rows[run[p]].stage = "observing" => work[p].by = rows[run[p]].report.by)
      BY <1>0, <3>1 DEF Author, Read
    <3>3. rows'[run[p]].stage = "observing" =>
             work[p].by = rows'[run[p]].report.by
      BY <1>0, <3>2, ReadKept
    <3> QED BY <1>1, <2>1, <2>2, <3>1, <3>3 DEF Author, Read, Holds, Saves, Observing
  <2>3. CASE Entry(p) = "checks"
    BY <1>1, <2>1, <2>3 DEF Author, Read, Holds, Saves
  <2>4. CASE Entry(p) \notin {"poll", "checks"}
    <3>1. Entry(p) = "returned"
      BY <2>4 DEF Entry
    <3> QED BY <1>1, <2>1, <3>1, RestingAuthor DEF Resting
  <2> QED BY <2>2, <2>3, <2>4
<1> QED BY <1>2, <1>3

\* A process whose save ends.
LEMMA StatementAuthor ==
  ASSUME AuthorInv, NEW p \in Procs, StatementEnds(p), [Next]_vars
  PROVE  Author(p)'
<1>0. /\ Inv /\ Author(p) /\ Process(p) /\ LocalTypes
      /\ call \in [Clients -> Store!Results \cup Store!PendingWrite]
  BY Types DEF AuthorInv, Inv, Store!TypeOK, Clients
<1>1. /\ ~Store!Idle(p) /\ pc' = pc /\ run' = run /\ work' = work /\ todo' = todo
      /\ stage' = stage
  BY DEF StatementEnds, local
<1>2. /\ Store!Idle(p)' /\ pc[p] \in Waiting /\ run[p] \in Procs
      /\ call'[p].op = "ok" => Store!WriteCommits(p)
      /\ call[p].id = run[p]
  BY <1>0, <1>1 DEF StatementEnds, Store!WriteCommits, Store!WriteMisses, Store!StatementFails,
     Store!Result, Store!Idle, Store!Results, Process, Calls, Started, Waiting, Leased, Clients
<1>3. Read(p)' /\ Saves(p)'
  BY <1>1, <1>2 DEF Read, Saves, Waiting
<1>4. CASE Store!WriteCommits(p)
  <2>1. rows'[run[p]].stage = call[p].to /\ rows'[run[p]].report = call[p].report
    BY <1>0, <1>2, <1>4, CommitLeaves DEF Clients
  <2>2. Holds(p)'
    BY <1>0, <1>1, <1>2, <2>1 DEF Author, Saves, Holds, Observing
  <2> QED BY <1>3, <2>2 DEF Author
<1>5. CASE ~Store!WriteCommits(p)
  <2>1. rows' = rows
    BY <1>5 DEF StatementEnds, Store!WriteMisses, Store!StatementFails
  <2>2. Holds(p)'
    BY <1>0, <1>1, <1>2, <1>5, <2>1 DEF Author, Holds, Observing
  <2> QED BY <1>3, <2>2 DEF Author
<1> QED BY <1>4, <1>5

\* A step of a process leaves the operator's call alone.
LEMMA OperatorWaits ==
  ASSUME Inv, NEW p \in Procs, Step(p) \/ Heartbeat(p) \/ Misfortune(p)
  PROVE  call'[Operator] = call[Operator]
<1>1. call \in [Clients -> Store!Results \cup Store!PendingWrite]
  BY DEF Inv, TypeOK, Store!TypeOK, Clients
<1>2. call' = call \/ \E new : call' = [call EXCEPT ![p] = new]
  <2>1. CASE Saving(p) \/ Crash(p)
    BY <2>1 DEF Saving, Checkpoint, GatesDone, Finish, Sample, Observed, Complete, Emit,
       Store!UpdateRead, Crash, Store!Forget
  <2>2. CASE Quiet(p)
    BY <2>2 DEF Quiet, Find, StartFails, CheckpointRefused, Opened, EngineReturns, Returned,
       Publish, PublishFails, Completed, Stop, ReleaseFails, Signal, RenewFails, Heartbeat,
       Store!RenewLease
  <2>3. CASE Create(p) \/ CreateUnsecured(p) \/ Acquire(p) \/ Release(p) \/ Heartbeat(p)
    BY <2>3 DEF Create, CreateUnsecured, Store!Create, Acquire, Store!AcquireLease, Release,
       Store!ReleaseLease, Heartbeat, Store!RenewLease
  <2>4. CASE AcquireUnanswered(p) \/ RenewUnanswered(p)
    BY <2>4 DEF AcquireUnanswered, Store!AcquireLease, RenewUnanswered, Store!RenewLease
  <2> QED BY <2>1, <2>2, <2>3, <2>4 DEF Step, Misfortune, Quiet, Saving
<1> QED BY <1>1, <1>2, ProcsAssumption DEF Clients

\* The Abandon of the operator: its SELECT reads the author's report, and until
\* its UPDATE the row keeps the author.
LEMMA ClosesKept == AuthorInv /\ [Next]_vars => ClosesOwn'
<1> SUFFICES ASSUME AuthorInv, [Next]_vars PROVE ClosesOwn'
  OBVIOUS
<1>0. Inv /\ Inv'
  BY NextStep DEF AuthorInv, Sound
<1>a. call \in [Clients -> Store!Results \cup Store!PendingWrite]
  BY <1>0 DEF Inv, TypeOK, Store!TypeOK, Clients
<1>1. CASE call'[Operator] = call[Operator]
  <2> SUFFICES ASSUME ~Store!Idle(Operator), call[Operator].seen = "observing"
               PROVE  ClosesOwn'
    BY <1>1 DEF ClosesOwn, Store!Idle
  <2>1. call[Operator].id \in Procs
    BY <1>a DEF Store!Idle, Store!PendingWrite, Clients
  <2>2. rows[call[Operator].id].stage \notin {"absent", "checking"}
    BY DEF AuthorInv, ClosesOwn
  <2> QED BY <1>1, <2>1, <2>2, ReadKept DEF AuthorInv, ClosesOwn
<1>2. CASE Store!Idle(Operator)'
  BY <1>2 DEF ClosesOwn
<1>3. ASSUME NEW id \in Procs, Abandon(id), ~Store!Idle(Operator)' PROVE ClosesOwn'
  <2>1. /\ rows' = rows
        /\ call'[Operator].id = id
        /\ call'[Operator].seen = rows[id].stage
        /\ call'[Operator].report = HeldReport[rows[id].report]
    BY <1>a, <1>3
       DEF Abandon, Store!AbandonRead, Store!Result, Store!Results, Store!Idle, Clients
  <2>2. CASE rows[id].stage = "observing"
    <3>1. rows[id].report \in Report
      BY <2>2 DEF AuthorInv, Reported
    <3>2. HeldReport[rows[id].report].by = rows[id].report.by
      BY <3>1, NoReportAssumption DEF HeldReport, Report
    <3> QED BY <2>1, <2>2, <3>2 DEF ClosesOwn
  <2> QED BY <2>1, <2>2 DEF ClosesOwn
<1>4. ASSUME NEW c \in Clients, StatementEnds(c)
      PROVE  \E new \in Store!Results : call' = [call EXCEPT ![c] = new]
  BY <1>4 DEF StatementEnds, Store!WriteCommits, Store!WriteMisses, Store!StatementFails,
     Store!Result, Store!Results
<1>5. ASSUME StatementEnds(Operator) PROVE Store!Idle(Operator)'
  BY <1>a, <1>4, <1>5 DEF Store!Idle, Clients
<1>6. Tick \/ AllDone \/ UNCHANGED vars => call' = call
  BY DEF Tick, Store!Tick, AllDone, vars
<1> QED
  <2>1. CASE \E p \in Procs : Step(p) \/ Heartbeat(p) \/ Misfortune(p)
    BY <1>0, <1>1, <2>1, OperatorWaits
  <2>2. CASE \E c \in Procs \cup {Operator} : StatementEnds(c)
    BY <1>1, <1>2, <1>a, <1>4, <1>5, <2>2, ProcsAssumption DEF Clients
  <2>3. CASE \E id \in Procs : Abandon(id)
    BY <1>2, <1>3, <2>3
  <2> QED BY <1>1, <1>6, <2>1, <2>2, <2>3 DEF Next

\* Authorship is kept by every step.
LEMMA AuthorStep == AuthorInv /\ [Next]_vars => AuthorInv'
<1> SUFFICES ASSUME AuthorInv, [Next]_vars PROVE AuthorInv'
  OBVIOUS
<1>0. Inv /\ Inv'
  BY NextStep DEF AuthorInv, Sound
<1>1. ASSUME NEW c \in Clients, Sound(c), c \in Procs => Author(c)'
      PROVE  AuthorInv'
  <2>1. ASSUME NEW q \in Procs \ {c} PROVE Author(q)'
    <3>1. Unmoved(q)
      BY <1>1 DEF Sound, Same, Unmoved
    <3> QED BY <3>1, UnmovedAuthor
  <2> QED BY <1>0, <1>1, <2>1, ReportedKept, ClosesKept DEF AuthorInv
<1>2. ASSUME NEW p \in Procs, Step(p) \/ Heartbeat(p) \/ Misfortune(p) PROVE AuthorInv'
  <2>1. Author(p) /\ Process(p) /\ LocalTypes
    BY <1>0, Types DEF AuthorInv, Inv
  <2>2. ASSUME Create(p) \/ CreateUnsecured(p) PROVE Author(p)'
    <3>1. Store!Idle(p)'
      BY <2>1, <2>2 DEF Create, CreateUnsecured, Store!Create, Process, Calls, Waiting, Store!Idle
    <3>2. \/ pc'[p] \in {"refind", "done"}
          \/ pc'[p] = "acquire" /\ stage'[p] = "checking"
      BY <2>1, <2>2 DEF Create, CreateUnsecured, Goto, Die, LocalTypes
    <3> QED BY <3>1, <3>2, RestingAuthor DEF Resting, Author, Read, Holds, Saves
  <2>3. ASSUME Release(p) \/ Crash(p) \/ AcquireUnanswered(p) PROVE Author(p)'
    <3>1. Store!Idle(p)' /\ pc'[p] = "done"
      <4>1. call \in [Clients -> Store!Results \cup Store!PendingWrite]
        BY <1>0 DEF Inv, TypeOK, Store!TypeOK, Clients
      <4> QED BY <2>1, <2>3, <4>1 DEF Release, Crash, AcquireUnanswered, Goto, Store!ReleaseLease,
                 Store!AcquireLease, Store!Forget, Store!Result, Store!Results, Process, Calls, Waiting, Store!Idle, LocalTypes, Clients
    <3> QED BY <3>1, RestingAuthor DEF Resting
  <2>4. ASSUME Heartbeat(p) \/ RenewUnanswered(p) PROVE Author(p)'
    <3>1. Unmoved(p)
      BY <2>4 DEF Heartbeat, RenewUnanswered, Unmoved, Store!RenewLease
    <3> QED BY <3>1, UnmovedAuthor
  <2>5. Author(p)'
    BY <1>2, <2>2, <2>3, <2>4, QuietAuthor, SavingAuthor, AcquireAuthor
       DEF Step, Misfortune, Quiet, Saving
  <2>6. Sound(p)
    BY <1>0, <1>2, ProcStep
  <2> QED BY <1>1, <2>5, <2>6 DEF Clients
<1>3. ASSUME NEW c \in Procs \cup {Operator}, StatementEnds(c) PROVE AuthorInv'
  BY <1>0, <1>1, <1>3, StatementStep, StatementAuthor DEF Clients
<1>4. ASSUME Sound(Operator) PROVE AuthorInv'
  BY <1>1, <1>4, ProcsAssumption DEF Clients
<1>5. AllDone \/ UNCHANGED vars \/ Tick \/ (\E id \in Procs : Abandon(id)) => Sound(Operator)
  BY <1>0, StutterStep, TickStep, AbandonStep DEF AllDone
<1> QED BY <1>2, <1>3, <1>4, <1>5 DEF Next

\* From the moment a run observes, nobody repeats its gates: a process that
\* still holds an older record does not put a report of its own in the row, and
\* an Abandon puts back what those gates found.
THEOREM GatesOnce == Spec => GatesNotRepeated
<1>1. Init => AuthorInv
  BY InitInv, ProcsAssumption DEF Init, AuthorInv, Author, Read, Holds, Saves, Reported, ClosesOwn,
     Store!Init, Store!NoRow, Store!Idle, Store!Result, Store!Results
<1>2. AuthorInv /\ [Next]_vars => [\A id \in Procs : KeepsAuthor(id)]_vars
  BY KeepsAuthorStep
<1>3. [\A id \in Procs : KeepsAuthor(id)]_vars
        => [\A id \in Procs :
              rows[id].stage = "observing"
                => rows'[id].report.by = rows[id].report.by]_vars
  BY DEF KeepsAuthor
<1> QED BY <1>1, <1>2, <1>3, AuthorStep, PTL DEF Spec, GatesNotRepeated
-----------------------------------------------------------------------------
(***************************************************************************)
(* A GO is watched.  A report is GO only by the end of an observation, and *)
(* an observation ends so only after two samples of its process: the       *)
(* samples of a process occur nowhere before it takes its first one.       *)
(***************************************************************************)

\* Where a process has taken no sample yet.
Before == {"find", "create", "refind", "acquire", "checks", "opened", "poll"}

Yet == {q \in Procs : pc[q] \in Before}

\* Where a process has opened the window, or resumed it.
Window == {"opened", "poll", "polled", "last"}

\* No process of Q has a sample in the report.
Clear(r, Q) ==
  r \in Report => \A q \in Q, n \in 1 .. MaxSamples : <<q, n>> \notin r.samples

Earned(r) == r \in Report /\ r.decision = "GO" => Watched(r)

Fine(r, Q) == Earned(r) /\ Clear(r, Q)

\* The report of a window that is open.
InWindow(r) == r \in Report => r.status = "observing" /\ r.decision = "HOLD"

\* The report that a process works on.
Works(p) ==
  pc[p] # "done" =>
    /\ Clear(work[p], Yet)
    /\ pc[p] # "checks" => Earned(work[p])
    /\ pc[p] \in Window \/ (pc[p] = "acquire" /\ stage[p] = "observing") => InWindow(work[p])
    /\ pc[p] \in {"polled", "last"} => <<p, 1>> \in work[p].samples
    /\ pc[p] = "last" => \E n \in 2 .. MaxSamples : <<p, n>> \in work[p].samples

\* The report of a pending save or Abandon.
Waits(c) ==
  ~Store!Idle(c) =>
    /\ Fine(call[c].report, Yet)
    /\ call[c].to = "observing" => InWindow(call[c].report)

\* The report of a row.
Stored(id) ==
  /\ Fine(rows[id].report, Yet)
  /\ rows[id].stage = "observing" => InWindow(rows[id].report)

WatchInv ==
  /\ Inv
  /\ \A p \in Procs : Works(p)
  /\ \A c \in Clients : Waits(c)
  /\ \A id \in Procs : Stored(id)
  /\ Fine(file, Yet)

\* A report with another decision than GO has the samples it had.
LEMMA NotGo ==
  ASSUME NEW r \in Report, NEW d \in Decisions \ {"GO"}, NEW Q, Clear(r, Q)
  PROVE  /\ [r EXCEPT !.decision = d] \in Report
         /\ Fine([r EXCEPT !.decision = d], Q)
         /\ [r EXCEPT !.decision = d].samples = r.samples
         /\ [r EXCEPT !.decision = d].status = r.status
         /\ [r EXCEPT !.decision = d].decision = d
BY DEF Report, Decisions, Fine, Earned, Clear

LEMMA Shrinks ==
  ASSUME NEW Q, NEW P \in SUBSET Q, NEW r
  PROVE  (Clear(r, Q) => Clear(r, P)) /\ (Fine(r, Q) => Fine(r, P))
BY DEF Fine, Clear

\* Nobody comes back to where it has no sample.
LEMMA YetShrinks == Inv /\ [Next]_vars => Yet' \subseteq Yet
<1> SUFFICES ASSUME Inv, [Next]_vars, NEW q \in Procs, pc'[q] \in Before
             PROVE  pc[q] \in Before
  BY DEF Yet
<1>0. LocalTypes /\ Process(q)
  BY Types DEF Inv
<1>1. CASE pc'[q] = pc[q]
  BY <1>1
<1>2. ASSUME NEW c \in Clients, Sound(c), c # q PROVE pc'[q] = pc[q]
  BY <1>2 DEF Sound, Same
<1>3. CASE Saving(q)
  BY <1>0, <1>3 DEF Saving, Checkpoint, GatesDone, Finish, Sample, Observed, Complete, Goto,
     Before, LocalTypes
<1>4. CASE Quiet(q)
  <2>1. CASE Find(q) \/ StartFails(q) \/ Opened(q)
    BY <1>0, <2>1 DEF Find, StartFails, Opened, Die, Goto, Before, LocalTypes
  <2>2. CASE \/ CheckpointRefused(q) \/ EngineReturns(q) \/ Returned(q)
             \/ Publish(q) \/ PublishFails(q) \/ Completed(q) \/ Stop(q) \/ ReleaseFails(q)
    <3>1. pc'[q] \in {"returned", "stop", "publish", "complete", "release", "done"}
      BY <1>0, <2>2 DEF CheckpointRefused, EngineReturns, Returned, Publish, PublishFails,
         Completed, Stop, ReleaseFails, Close, Goto, LocalTypes
    <3> QED BY <3>1 DEF Before
  <2>3. CASE Signal(q) \/ RenewFails(q) \/ Heartbeat(q)
    BY <2>3 DEF Signal, RenewFails, Heartbeat
  <2> QED BY <1>4, <2>1, <2>2, <2>3 DEF Quiet
<1>5. CASE Create(q) \/ CreateUnsecured(q) \/ Acquire(q)
  BY <1>5 DEF Create, CreateUnsecured, Acquire, Before
<1>6. CASE Release(q) \/ Crash(q) \/ Heartbeat(q) \/ AcquireUnanswered(q) \/ RenewUnanswered(q)
  <2>1. pc'[q] = "done" \/ pc' = pc
    BY <1>0, <1>6 DEF Release, Crash, Heartbeat, AcquireUnanswered, RenewUnanswered, Goto, LocalTypes
  <2> QED BY <2>1 DEF Before
<1>7. Step(q) \/ Heartbeat(q) \/ Misfortune(q)
        => \/ Quiet(q) \/ Saving(q) \/ Crash(q) \/ Create(q) \/ CreateUnsecured(q)
           \/ Acquire(q) \/ Release(q) \/ Heartbeat(q)
           \/ AcquireUnanswered(q) \/ RenewUnanswered(q)
  BY DEF Step, Misfortune, Quiet, Saving
<1>8. ASSUME NEW p \in Procs, Step(p) \/ Heartbeat(p) \/ Misfortune(p), p # q
      PROVE  pc'[q] = pc[q]
  <2>1. Sound(p)
    BY <1>8, ProcStep
  <2> QED BY <1>2, <1>8, <2>1 DEF Clients
<1>9. \/ \E c \in Procs \cup {Operator} : StatementEnds(c)
      \/ \E id \in Procs : Abandon(id)
      \/ Tick \/ AllDone \/ UNCHANGED vars
      => pc' = pc
  BY DEF StatementEnds, Abandon, Tick, AllDone, vars, local
<1> QED BY <1>1, <1>3, <1>4, <1>5, <1>6, <1>7, <1>8, <1>9 DEF Next

\* A row keeps its report, or gets the one that a pending write brings.
LEMMA StoredKept ==
  ASSUME WatchInv, [Next]_vars, NEW id \in Procs
  PROVE  Stored(id)'
<1>0. Inv /\ Yet' \subseteq Yet /\ Stored(id)
  BY YetShrinks DEF WatchInv
<1>1. CASE ~Written(id)
  <2>1. /\ rows'[id].report = rows[id].report
        /\ rows'[id].stage = "observing" => rows[id].stage = "observing"
    BY <1>0, <1>1, RowSteps
  <2> QED BY <1>0, <2>1, Shrinks DEF Stored
<1>2. CASE Written(id)
  <2>1. PICK c \in Clients : Store!WriteCommits(c) /\ call[c].id = id
    BY <1>2 DEF Written
  <2>2. rows'[id].report = call[c].report /\ rows'[id].stage = call[c].to
    BY <1>0, <2>1, CommitLeaves
  <2>3. Fine(call[c].report, Yet) /\ (call[c].to = "observing" => InWindow(call[c].report))
    BY <2>1 DEF WatchInv, Waits, Store!WriteCommits
  <2> QED BY <1>0, <2>2, <2>3, Shrinks DEF Stored
<1> QED BY <1>1, <1>2

\* A step that leaves a process alone.
LEMMA SameWorks ==
  ASSUME WatchInv, [Next]_vars, NEW q \in Procs, Same(q)
  PROVE  Works(q)' /\ Waits(q)'
<1>1. Yet' \subseteq Yet /\ Works(q) /\ Waits(q)
  BY YetShrinks DEF WatchInv, Clients
<1>2. Works(q)'
  BY <1>1, Shrinks DEF Works, Same
<1>3. Waits(q)'
  BY <1>1, Shrinks DEF Waits, Same, Store!Idle
<1> QED BY <1>2, <1>3

\* The file keeps its report, or gets the one that a process publishes.
LEMMA FileKeptFine ==
  ASSUME WatchInv, [Next]_vars
  PROVE  Fine(file, Yet)'
<1>1. Yet' \subseteq Yet /\ Fine(file, Yet)
  BY YetShrinks DEF WatchInv
<1>2. ASSUME NEW p \in Procs, Publish(p) PROVE Fine(file', Yet)
  <2>1. Fine(work[p], Yet)
    BY <1>2 DEF WatchInv, Works, Publish, Fine
  <2> QED BY <1>1, <1>2, <2>1 DEF Publish
<1>3. ASSUME NEW p \in Procs, Step(p) \/ Heartbeat(p) \/ Misfortune(p)
      PROVE  Publish(p) \/ file' = file
  <2>1. CASE Saving(p) \/ Crash(p)
    BY <2>1 DEF Saving, Checkpoint, GatesDone, Finish, Sample, Observed, Complete, Crash
  <2>2. CASE Quiet(p)
    BY <2>2 DEF Quiet, Find, StartFails, CheckpointRefused, Opened, EngineReturns, Returned,
       PublishFails, Completed, Stop, ReleaseFails, Signal, RenewFails, Heartbeat
  <2>3. CASE Create(p) \/ CreateUnsecured(p) \/ Acquire(p) \/ Release(p) \/ Heartbeat(p)
    BY <2>3 DEF Create, CreateUnsecured, Acquire, Release, Heartbeat
  <2>4. CASE AcquireUnanswered(p) \/ RenewUnanswered(p)
    BY <2>4 DEF AcquireUnanswered, RenewUnanswered
  <2> QED BY <1>3, <2>1, <2>2, <2>3, <2>4 DEF Step, Misfortune, Quiet, Saving
<1>4. \/ \E c \in Procs \cup {Operator} : StatementEnds(c)
      \/ \E id \in Procs : Abandon(id)
      \/ Tick \/ AllDone \/ UNCHANGED vars
      => file' = file
  BY DEF StatementEnds, Abandon, Tick, AllDone, vars
<1>5. Fine(file', Yet)
  BY <1>1, <1>2, <1>3, <1>4 DEF Next
<1> QED BY <1>1, <1>5, Shrinks

\* A process that starts a save, of a report that is fine.
LEMMA SaveWorks ==
  ASSUME WatchInv, [Next]_vars, NEW p \in Procs,
         NEW to \in Store!ActiveStages \cup {"completed"}, NEW report \in Report,
         Emit(p, to, report), pc[p] \in Leased,
         Fine(report, Yet'), to = "observing" => InWindow(report),
         pc'[p] \in {"checks", "opened", "polled", "last", "final", "interrupted", "completing"},
         Clear(work'[p], Yet'), pc'[p] # "checks" => Earned(work'[p]),
         pc'[p] \in Window => InWindow(work'[p]),
         pc'[p] \in {"polled", "last"} => <<p, 1>> \in work'[p].samples,
         pc'[p] = "last" => \E n \in 2 .. MaxSamples : <<p, n>> \in work'[p].samples
  PROVE  Works(p)' /\ Waits(p)'
<1>1. Asked(p, to, report)
  BY EmitStep DEF WatchInv, Inv, Process, Started
<1>2. Works(p)'
  BY DEF Works
<1>3. Waits(p)'
  BY <1>1 DEF Waits, Asked
<1> QED BY <1>2, <1>3

\* A sample: the first of its process at the opening, a later one from then on.
LEMMA SampleSteps ==
  ASSUME WatchInv, NEW p \in Procs, Sample(p), Observes, [Next]_vars
  PROVE  Works(p)' /\ Waits(p)'
<1>0. Inv /\ LocalTypes /\ Process(p) /\ Works(p)
  BY Types DEF WatchInv, Inv
<1> DEFINE n == Cardinality(SamplesBy(p))
           more == [work[p] EXCEPT !.samples = @ \cup {<<p, n + 1>>}]
<1>1. pc[p] \in {"poll", "polled"} /\ work[p] \in Report /\ n < MaxSamples
  BY <1>0 DEF Sample, Process, Started, Leased
<1>2. IsFiniteSet(SamplesBy(p)) /\ n \in Nat
  <2>1. IsFiniteSet({p} \X (1 .. MaxSamples))
    <3>1. IsFiniteSet(1 .. MaxSamples)
      BY BoundsAssumption, FS_Interval
    <3> QED BY <3>1, FS_Product, FS_Singleton
  <2>2. SamplesBy(p) \subseteq {p} \X (1 .. MaxSamples)
    BY <1>1 DEF SamplesBy, Report, Samples
  <2> QED BY <2>1, <2>2, FS_Subset, FS_CardinalityType
<1>3. pc[p] = "poll" => n = 0
  <2> SUFFICES ASSUME pc[p] = "poll" PROVE SamplesBy(p) = {}
    BY FS_EmptySet
  <2>1. p \in Yet
    BY DEF Yet, Before
  <2>2. Clear(work[p], Yet)
    BY <1>0 DEF Works
  <2> QED BY <1>1, <2>1, <2>2 DEF Clear, SamplesBy, Report, Samples
<1>4. pc[p] = "polled" => n >= 1
  <2> SUFFICES ASSUME pc[p] = "polled" PROVE n # 0
    BY <1>2
  <2>1. <<p, 1>> \in SamplesBy(p)
    BY <1>0 DEF Works, SamplesBy
  <2> QED BY <1>2, <2>1, FS_EmptySet
<1>5. n + 1 \in 1 .. MaxSamples /\ (pc[p] = "polled" => n + 1 \in 2 .. MaxSamples)
  BY <1>1, <1>2, <1>4, BoundsAssumption
<1>6. /\ Emit(p, "observing", more) /\ work'[p] = more
      /\ \/ pc'[p] = "last" /\ pc[p] = "polled"
         \/ pc'[p] = "polled"
  BY <1>0 DEF Sample, Goto, LocalTypes
<1>7. /\ more \in Report /\ more.samples = work[p].samples \cup {<<p, n + 1>>}
      /\ more.status = work[p].status /\ more.decision = work[p].decision
  BY <1>1, <1>5 DEF Report, Samples
<1>8. pc[p] = "poll" => <<p, 1>> \in more.samples
  BY <1>3, <1>7
<1> HIDE DEF more, n
<1>9. InWindow(work[p]) /\ Clear(work[p], Yet)
  BY <1>0, <1>1 DEF Works, Window
<1>10. InWindow(more)
  BY <1>1, <1>7, <1>9 DEF InWindow
<1>11. Earned(more)
  BY <1>7, <1>10 DEF Earned, InWindow
<1>12. Clear(more, Yet')
  <2>1. p \notin Yet' /\ Yet' \subseteq Yet
    BY <1>0, <1>6, YetShrinks DEF Yet, Before
  <2> QED BY <1>1, <1>7, <1>9, <2>1 DEF Clear
<1>13. pc'[p] \in {"polled", "last"} => <<p, 1>> \in more.samples
  BY <1>0, <1>1, <1>7, <1>8 DEF Works
<1>14. pc'[p] = "last" => \E k \in 2 .. MaxSamples : <<p, k>> \in more.samples
  BY <1>5, <1>6, <1>7
<1>15. Store!ActiveStages = {"checking", "observing", "finalizing"}
  BY SameTypes
<1> QED BY <1>1, <1>6, <1>7, <1>10, <1>11, <1>12, <1>13, <1>14, <1>15, SaveWorks DEF Fine, Leased

\* The conclusion of an observation, or an interrupted one, or a checkpoint.
LEMMA SavingWorks ==
  ASSUME WatchInv, NEW p \in Procs, Saving(p), Observes, [Next]_vars
  PROVE  Works(p)' /\ Waits(p)'
<1>0. Inv /\ LocalTypes /\ Process(p) /\ Works(p) /\ Yet' \subseteq Yet
  BY Types, YetShrinks DEF WatchInv, Inv
<1>a. pc[p] \in Leased => work[p] \in Report /\ Clear(work[p], Yet')
  BY <1>0, Shrinks DEF Process, Started, Works, Leased
<1>b. Store!ActiveStages = {"checking", "observing", "finalizing"}
  BY SameTypes
<1>1. ASSUME Checkpoint(p) PROVE Works(p)' /\ Waits(p)'
  <2> DEFINE held == [work[p] EXCEPT !.decision = "HOLD"]
  <2>1. /\ pc[p] = "checks" /\ Emit(p, "checking", held)
        /\ \/ pc'[p] = "checks" /\ work'[p] = work[p]
           \/ pc'[p] = "interrupted" /\ work'[p] = held
    BY <1>0, <1>1 DEF Checkpoint, Goto, LocalTypes
  <2>2. work[p] \in Report /\ Clear(work[p], Yet')
    BY <1>a, <2>1 DEF Leased
  <2>3. held \in Report /\ Fine(held, Yet')
    BY <2>2, NotGo DEF Decisions
  <2> HIDE DEF held
  <2> QED BY <1>b, <2>1, <2>2, <2>3, SaveWorks DEF Fine, Leased, Window
<1>2. ASSUME NEW d \in Decisions, Finish(p, d), pc[p] \in {"polled", "last"},
             d = "GO" => pc[p] = "last"
      PROVE  Works(p)' /\ Waits(p)'
  <2> DEFINE final == [work[p] EXCEPT !.decision = d,
                                      !.status = IF @ = "none" THEN @ ELSE "completed"]
  <2>1. work[p] \in Report /\ Clear(work[p], Yet') /\ InWindow(work[p])
    BY <1>0, <1>2, <1>a DEF Leased, Works, Window
  <2>2. /\ final \in Report /\ final.samples = work[p].samples
        /\ final.decision = d /\ final.status = "completed"
    BY <1>2, <2>1 DEF Report, Decisions, InWindow
  <2>3. Emit(p, "finalizing", final) /\ work'[p] = final /\ pc'[p] = "final"
    BY <1>0, <1>2 DEF Finish, Goto, LocalTypes
  <2> HIDE DEF final
  <2>4. Earned(final)
    <3> SUFFICES ASSUME d = "GO" PROVE Watched(final)
      BY <2>2 DEF Earned
    <3>1. PICK n \in 2 .. MaxSamples : <<p, 1>> \in work[p].samples /\ <<p, n>> \in work[p].samples
      BY <1>0, <1>2 DEF Works
    <3> QED BY <2>2, <3>1 DEF Watched
  <2>5. Clear(final, Yet')
    BY <2>1, <2>2 DEF Clear
  <2> QED BY <1>2, <1>b, <2>2, <2>3, <2>4, <2>5, SaveWorks DEF Fine, Leased, Window
<1>3. ASSUME GatesDone(p) PROVE Works(p)' /\ Waits(p)'
  <2> DEFINE opened == [work[p] EXCEPT !.status = "observing", !.decision = "HOLD"]
  <2>1. /\ pc[p] = "checks" /\ Emit(p, "observing", opened) /\ work'[p] = opened
        /\ pc'[p] = "opened"
    BY <1>0, <1>3 DEF GatesDone, Goto, LocalTypes
  <2>2. work[p] \in Report /\ Clear(work[p], Yet')
    BY <1>a, <2>1 DEF Leased
  <2>3. /\ opened \in Report /\ opened.samples = work[p].samples
        /\ opened.decision = "HOLD" /\ opened.status = "observing"
    BY <2>2 DEF Report
  <2> HIDE DEF opened
  <2>4. Fine(opened, Yet') /\ InWindow(opened)
    BY <2>2, <2>3 DEF Fine, Earned, Clear, InWindow
  <2> QED BY <1>b, <2>1, <2>3, <2>4, SaveWorks DEF Fine, Leased
<1>4. ASSUME Observed(p) PROVE Works(p)' /\ Waits(p)'
  <2>1. pc[p] \in {"last", "polled"}
    BY <1>4 DEF Observed
  <2>2. CASE ~ctx[p]
    <3>1. PICK d \in Decisions : Finish(p, d) /\ (d = "GO" => Ready(p))
      BY <1>4, <2>2 DEF Observed, Decisions
    <3>2. d = "GO" => pc[p] = "last"
      BY <1>4, <2>2, <3>1 DEF Observed, Ready, Refused
    <3> QED BY <1>2, <2>1, <3>1, <3>2
  <2>3. CASE ctx[p]
    <3> DEFINE held == [work[p] EXCEPT !.decision = "HOLD"]
    <3>1. Emit(p, "observing", held) /\ work'[p] = held /\ pc'[p] = "interrupted"
      BY <1>0, <1>4, <2>3 DEF Observed, Goto, LocalTypes
    <3>2. work[p] \in Report /\ Clear(work[p], Yet') /\ InWindow(work[p])
      BY <1>0, <1>a, <2>1 DEF Leased, Works, Window
    <3>3. /\ held \in Report /\ Fine(held, Yet') /\ held.status = work[p].status
          /\ held.decision = "HOLD"
      BY <3>2, NotGo DEF Decisions
    <3> HIDE DEF held
    <3>4. InWindow(held)
      BY <3>2, <3>3 DEF InWindow
    <3> QED BY <1>b, <2>1, <3>1, <3>3, <3>4, SaveWorks DEF Fine, Leased, Window
  <2> QED BY <2>2, <2>3
<1>5. ASSUME Complete(p) PROVE Works(p)' /\ Waits(p)'
  <2>1. /\ pc[p] = "complete" /\ Emit(p, "completed", work[p]) /\ work'[p] = work[p]
        /\ pc'[p] = "completing"
    BY <1>0, <1>5 DEF Complete, Goto, LocalTypes
  <2>2. work[p] \in Report /\ Fine(work[p], Yet')
    BY <1>0, <1>a, <2>1 DEF Works, Leased, Fine
  <2> QED BY <2>1, <2>2, SaveWorks DEF Fine, Leased, Window
<1> QED BY <1>1, <1>3, <1>4, <1>5, SampleSteps DEF Saving

\* A step after which process p waits for nothing.
LEMMA RestWorks ==
  ASSUME WatchInv, [Next]_vars, NEW p \in Procs, Store!Idle(p)',
         pc'[p] = "done" \/ Fine(work'[p], Yet),
         pc'[p] \notin {"polled", "last"},
         pc'[p] \in Window \/ (pc'[p] = "acquire" /\ stage'[p] = "observing")
           => InWindow(work'[p])
  PROVE  Works(p)' /\ Waits(p)'
<1>1. Yet' \subseteq Yet
  BY YetShrinks DEF WatchInv
<1>2. pc'[p] = "done" \/ Fine(work'[p], Yet')
  BY <1>1, Shrinks
<1> QED BY <1>2 DEF Works, Waits, Fine

\* Quiet actions: a record that is read, and verdicts that are not GO.
LEMMA QuietWorks ==
  ASSUME WatchInv, NEW p \in Procs, Quiet(p), [Next]_vars
  PROVE  Works(p)' /\ Waits(p)'
<1>0. Inv /\ LocalTypes /\ Process(p) /\ Works(p) /\ Waits(p) /\ Yet' \subseteq Yet
  BY Types, YetShrinks DEF WatchInv, Inv, Clients
<1>a. pc[p] \in Leased => work[p] \in Report /\ Clear(work[p], Yet)
  BY <1>0 DEF Process, Started, Works, Leased
<1>1. CASE Signal(p) \/ RenewFails(p) \/ Heartbeat(p)
  <2>1. /\ pc'[p] = pc[p] /\ work'[p] = work[p] /\ stage'[p] = stage[p] /\ call'[p] = call[p]
    BY <1>1 DEF Signal, RenewFails, Heartbeat, Store!RenewLease
  <2>2. Works(p)'
    BY <1>0, <2>1, Shrinks DEF Works
  <2>3. Waits(p)'
    BY <1>0, <2>1, Shrinks DEF Waits, Store!Idle
  <2> QED BY <2>2, <2>3
<1>2. ASSUME Find(p) PROVE Works(p)' /\ Waits(p)'
  <2>1. Store!Idle(p)' /\ pc[p] \in {"find", "refind"}
    BY <1>0, <1>2 DEF Find, Process, Calls, Waiting, Store!Idle
  <2>2. \/ pc'[p] = "done"
        \/ pc'[p] = "create" /\ work'[p] = work[p]
        \/ \E id \in Procs : /\ pc'[p] = "acquire" /\ work'[p] = rows[id].report
                             /\ stage'[p] = rows[id].stage
    BY <1>0, <1>2 DEF Find, Die, Goto, LocalTypes, Store!Active
  <2>3. Fine(work[p], Yet)
    BY <1>0, <2>1 DEF Works, Fine
  <2>4. \A id \in Procs : Stored(id)
    BY DEF WatchInv
  <2>5. pc'[p] = "done" \/ Fine(work'[p], Yet)
    BY <2>2, <2>3, <2>4 DEF Stored
  <2>6. pc'[p] = "acquire" /\ stage'[p] = "observing" => InWindow(work'[p])
    BY <2>2, <2>4 DEF Stored
  <2>7. pc'[p] \notin Window
    BY <2>2 DEF Window
  <2> QED BY <2>1, <2>2, <2>5, <2>6, <2>7, RestWorks DEF Window
<1>3. ASSUME Opened(p) \/ EngineReturns(p) PROVE Works(p)' /\ Waits(p)'
  <2>1. Store!Idle(p)' /\ pc[p] \in {"opened", "final", "interrupted"}
    BY <1>3 DEF Opened, EngineReturns, Store!Idle
  <2>2. work[p] \in Report /\ Fine(work[p], Yet)
    BY <1>0, <1>a, <2>1 DEF Works, Leased, Fine
  <2>3. work'[p] = work[p] \/ work'[p] = [work[p] EXCEPT !.decision = "NO-GO"]
    BY <1>0, <1>3 DEF Opened, EngineReturns, LocalTypes
  <2>4. Fine(work'[p], Yet)
    BY <2>2, <2>3, NotGo DEF Decisions, Fine
  <2>5. \/ pc'[p] = "poll" /\ pc[p] = "opened" /\ work'[p] = work[p]
        \/ pc'[p] = "returned"
    BY <1>0, <1>3 DEF Opened, EngineReturns, Goto, LocalTypes
  <2>6. pc'[p] = "poll" => InWindow(work'[p])
    BY <1>0, <2>5 DEF Works, Window
  <2> QED BY <2>1, <2>4, <2>5, <2>6, RestWorks DEF Window
<1>4. ASSUME CheckpointRefused(p) PROVE Works(p)' /\ Waits(p)'
  <2>1. Store!Idle(p)'
    BY <1>0, <1>4 DEF CheckpointRefused, Refused, Process, Calls, Store!Idle
  <2>2. /\ pc[p] = "checks" /\ pc'[p] = "returned"
        /\ work'[p] = [work[p] EXCEPT !.decision = "NO-GO"]
    BY <1>0, <1>4 DEF CheckpointRefused, Goto, LocalTypes
  <2>3. Fine(work'[p], Yet)
    BY <1>a, <2>2, NotGo DEF Leased, Decisions
  <2> QED BY <2>1, <2>2, <2>3, RestWorks DEF Window
<1>5. ASSUME StartFails(p) PROVE Works(p)' /\ Waits(p)'
  <2>1. /\ Store!Idle(p)' /\ pc[p] \in {"find", "refind", "create", "acquire"}
        /\ pc'[p] \in {"refind", "done"} /\ work' = work
    BY <1>0, <1>5 DEF StartFails, Process, Calls, Waiting, Store!Idle, Goto, Die, LocalTypes
  <2>2. Fine(work'[p], Yet)
    BY <1>0, <2>1 DEF Works, Fine
  <2> QED BY <2>1, <2>2, RestWorks DEF Window
<1>6. ASSUME \/ Returned(p) \/ Publish(p) \/ PublishFails(p) \/ Completed(p) \/ Stop(p)
             \/ ReleaseFails(p)
      PROVE  Works(p)' /\ Waits(p)'
  <2>1. /\ Store!Idle(p)' /\ work' = work
        /\ pc[p] \in {"returned", "publish", "completing", "stop", "release"}
    BY <1>0, <1>6 DEF Returned, Publish, PublishFails, Completed, Stop, ReleaseFails, Process,
       Calls, Waiting, Store!Idle
  <2>2. pc'[p] \in {"done", "stop", "publish", "complete", "release"}
    BY <1>0, <1>6 DEF Returned, Publish, PublishFails, Completed, Stop, ReleaseFails, Close, Goto,
       LocalTypes
  <2>3. Fine(work'[p], Yet)
    BY <1>0, <2>1 DEF Works, Fine
  <2> QED BY <2>1, <2>2, <2>3, RestWorks DEF Window
<1> QED BY <1>1, <1>2, <1>3, <1>4, <1>5, <1>6 DEF Quiet

\* A lease: the gates start a report of their own, a resumed observation and a
\* finalizing run go on with the record.
LEMMA AcquireWorks ==
  ASSUME WatchInv, NEW p \in Procs, Acquire(p), [Next]_vars
  PROVE  Works(p)' /\ Waits(p)'
<1>0. Inv /\ LocalTypes /\ Process(p) /\ Works(p) /\ Yet' \subseteq Yet /\ pc[p] = "acquire"
  BY Types, YetShrinks DEF WatchInv, Inv, Acquire
<1>1. Store!Idle(p)'
  BY <1>0 DEF Acquire, Process, Calls, Waiting, Store!Idle, Store!AcquireLease
<1>2. Fine(work[p], Yet) /\ (stage[p] = "observing" => InWindow(work[p]))
  BY <1>0 DEF Works, Fine
<1>3. \/ pc'[p] = "done"
      \/ /\ pc'[p] = Entry(p)
         /\ work'[p] = IF Entry(p) = "checks" THEN NewReport(p) ELSE work[p]
  BY <1>0 DEF Acquire, AcquireRefused, Die, Goto, LocalTypes
<1>4. CASE pc'[p] = "done"
  BY <1>1, <1>4, RestWorks DEF Window
<1>5. CASE pc'[p] = "checks" /\ work'[p] = NewReport(p)
  <2>1. Clear(work'[p], Yet')
    BY <1>5 DEF Clear, NewReport
  <2> QED BY <1>1, <1>5, <2>1 DEF Works, Waits, Window
<1>6. CASE pc'[p] \in {"poll", "returned"} /\ work'[p] = work[p]
  <2>1. pc'[p] = "poll" => stage[p] = "observing"
    BY <1>3, <1>6 DEF Entry
  <2> QED BY <1>1, <1>2, <1>6, <2>1, RestWorks DEF Window
<1> QED BY <1>3, <1>4, <1>5, <1>6 DEF Entry

\* The other steps of a process.
LEMMA OtherWorks ==
  ASSUME WatchInv, NEW p \in Procs, [Next]_vars,
         Create(p) \/ CreateUnsecured(p) \/ Release(p) \/ Crash(p) \/ AcquireUnanswered(p)
  PROVE  Works(p)' /\ Waits(p)'
<1>0. /\ Inv /\ LocalTypes /\ Process(p) /\ Works(p)
      /\ call \in [Clients -> Store!Results \cup Store!PendingWrite]
  BY Types DEF WatchInv, Inv, TypeOK, Store!TypeOK, Clients
<1>1. CASE Create(p) \/ CreateUnsecured(p)
  <2>1. Store!Idle(p)' /\ pc[p] = "create" /\ work' = work
    BY <1>0, <1>1 DEF Create, CreateUnsecured, Store!Create, Process, Calls, Waiting, Store!Idle
  <2>2. \/ pc'[p] \in {"refind", "done"}
        \/ pc'[p] = "acquire" /\ stage'[p] = "checking"
    BY <1>0, <1>1 DEF Create, CreateUnsecured, Goto, Die, LocalTypes
  <2>3. Fine(work'[p], Yet)
    BY <1>0, <2>1 DEF Works, Fine
  <2> QED BY <2>1, <2>2, <2>3, RestWorks DEF Window
<1>2. CASE Release(p) \/ Crash(p) \/ AcquireUnanswered(p)
  <2>1. Store!Idle(p)' /\ pc'[p] = "done"
    BY <1>0, <1>2 DEF Release, Crash, AcquireUnanswered, Goto, Store!ReleaseLease,
       Store!AcquireLease, Store!Forget, Store!Result,
       Store!Results, Process, Calls, Waiting, Store!Idle, LocalTypes, Clients
  <2> QED BY <2>1, RestWorks DEF Window
<1> QED BY <1>1, <1>2

\* What the operator reads and writes back is a HOLD.
LEMMA AbandonWorks ==
  ASSUME WatchInv, NEW id \in Procs, Abandon(id), [Next]_vars
  PROVE  Waits(Operator)'
<1>0. /\ Inv /\ Yet' \subseteq Yet /\ Stored(id)
      /\ call \in [Clients -> Store!Results \cup Store!PendingWrite]
      /\ rows[id].report \in Report \cup {NoReport}
  BY YetShrinks DEF WatchInv, Inv, TypeOK, Store!TypeOK, Store!Row, Clients
<1> SUFFICES ASSUME ~Store!Idle(Operator)'
             PROVE  Fine(call'[Operator].report, Yet') /\ call'[Operator].to # "observing"
  BY DEF Waits
<1>1. call'[Operator].report = HeldReport[rows[id].report] /\ call'[Operator].to = "abandoned"
  BY <1>0 DEF Abandon, Store!AbandonRead, Store!Result, Store!Results, Store!Idle, Clients
<1>2. CASE rows[id].report = NoReport
  <2>1. HeldReport[rows[id].report] =
          [by |-> Operator, status |-> "none", decision |-> "HOLD", samples |-> {}]
    BY <1>2 DEF HeldReport
  <2> QED BY <1>1, <2>1 DEF Fine, Earned, Clear
<1>3. CASE rows[id].report \in Report
  <2>1. HeldReport[rows[id].report] = [rows[id].report EXCEPT !.decision = "HOLD"]
    BY <1>3, NoReportAssumption DEF HeldReport
  <2>2. Clear(rows[id].report, Yet')
    BY <1>0, Shrinks DEF Stored, Fine
  <2> QED BY <1>1, <1>3, <2>1, <2>2, NotGo DEF Decisions
<1> QED BY <1>0, <1>1, <1>2, <1>3

\* Every step keeps the invariant.
LEMMA WatchStep == Observes /\ WatchInv /\ [Next]_vars => WatchInv'
<1> SUFFICES ASSUME Observes, WatchInv, [Next]_vars PROVE WatchInv'
  OBVIOUS
<1>0. /\ Inv /\ Inv' /\ Yet' \subseteq Yet
      /\ call \in [Clients -> Store!Results \cup Store!PendingWrite]
  BY NextStep, YetShrinks DEF WatchInv, Sound, Inv, TypeOK, Store!TypeOK, Clients
<1>a. (\A id \in Procs : Stored(id)') /\ Fine(file, Yet)'
  BY StoredKept, FileKeptFine
<1>b. ASSUME \A p \in Procs : Works(p)' /\ Waits(p)', Waits(Operator)' PROVE WatchInv'
  BY <1>0, <1>a, <1>b DEF WatchInv, Clients
<1>c. call'[Operator] = call[Operator] \/ Store!Idle(Operator)' => Waits(Operator)'
  <2>1. Waits(Operator)
    BY DEF WatchInv, Clients
  <2> QED BY <1>0, <2>1, Shrinks DEF Waits, Store!Idle
<1>1. ASSUME NEW p \in Procs, Step(p) \/ Heartbeat(p) \/ Misfortune(p) PROVE WatchInv'
  <2>1. Sound(p)
    BY <1>0, <1>1, ProcStep
  <2>2. ASSUME NEW q \in Procs \ {p} PROVE Works(q)' /\ Waits(q)'
    BY <2>1, SameWorks DEF Sound
  <2>3. Works(p)' /\ Waits(p)'
    <3>1. CASE Quiet(p)
      BY <3>1, QuietWorks
    <3>2. CASE Saving(p)
      BY <3>2, SavingWorks
    <3>3. CASE Acquire(p)
      BY <3>3, AcquireWorks
    <3>4. CASE Create(p) \/ CreateUnsecured(p) \/ Release(p) \/ Crash(p) \/ AcquireUnanswered(p)
      BY <3>4, OtherWorks
    <3>5. CASE Heartbeat(p) \/ RenewUnanswered(p)
      <4>1. /\ pc'[p] = pc[p] /\ work'[p] = work[p] /\ stage'[p] = stage[p]
            /\ call'[p] = call[p]
        BY <3>5 DEF Heartbeat, RenewUnanswered, Store!RenewLease
      <4>2. Works(p) /\ Waits(p)
        BY DEF WatchInv, Clients
      <4>3. Works(p)'
        BY <1>0, <4>1, <4>2, Shrinks DEF Works
      <4>4. Waits(p)'
        BY <1>0, <4>1, <4>2, Shrinks DEF Waits, Store!Idle
      <4> QED BY <4>3, <4>4
    <3> QED BY <1>1, <3>1, <3>2, <3>3, <3>4, <3>5 DEF Step, Misfortune, Quiet, Saving
  <2>4. Waits(Operator)'
    BY <1>0, <1>1, <1>c, OperatorWaits
  <2> QED BY <1>b, <2>2, <2>3, <2>4
<1>2. ASSUME NEW c \in Procs \cup {Operator}, StatementEnds(c) PROVE WatchInv'
  <2>1. UNCHANGED local /\ \A x \in Clients : call'[x] = call[x] \/ Store!Idle(x)'
    <3>1. PICK new \in Store!Results : call' = [call EXCEPT ![c] = new]
      BY <1>2 DEF StatementEnds, Store!WriteCommits, Store!WriteMisses, Store!StatementFails,
         Store!Result, Store!Results
    <3> QED BY <1>0, <1>2, <3>1 DEF StatementEnds, Store!Results, Store!Idle, Clients
  <2>2. ASSUME NEW p \in Procs PROVE Works(p)' /\ Waits(p)'
    <3>1. Works(p) /\ Waits(p)
      BY DEF WatchInv, Clients
    <3>2. Works(p)'
      BY <1>0, <2>1, <3>1, Shrinks DEF Works, local
    <3>3. Waits(p)'
      BY <1>0, <2>1, <3>1, Shrinks DEF Waits, Store!Idle, Clients
    <3> QED BY <3>2, <3>3
  <2> QED BY <1>b, <1>c, <2>1, <2>2 DEF Clients
<1>3. ASSUME Sound(Operator), Waits(Operator)' PROVE WatchInv'
  BY <1>3, <1>b, SameWorks, ProcsAssumption DEF Sound
<1>4. ASSUME NEW id \in Procs, Abandon(id) PROVE WatchInv'
  BY <1>0, <1>3, <1>4, AbandonStep, AbandonWorks
<1>5. ASSUME AllDone \/ UNCHANGED vars \/ Tick PROVE WatchInv'
  <2>1. Sound(Operator)
    BY <1>0, <1>5, StutterStep, TickStep DEF AllDone
  <2>2. call' = call
    BY <1>5 DEF AllDone, vars, Tick, Store!Tick
  <2> QED BY <1>3, <1>c, <2>1, <2>2
<1> QED BY <1>1, <1>2, <1>4, <1>5 DEF Next

\* A plan that observes never gets a GO, on disk or in a row, from a window
\* that nobody watched to its end.
THEOREM GoWatched == Spec => []GoIsWatched
<1>1. CASE Observes
  <2>1. Init => WatchInv
    <3> SUFFICES ASSUME Init PROVE WatchInv
      OBVIOUS
    <3>1. /\ Inv /\ file = NoReport
          /\ \A p \in Procs : pc[p] = "find" /\ work[p] = NoReport /\ rows[p].report = NoReport
          /\ \A p \in Procs : rows[p].stage = "absent"
          /\ \A c \in Clients : Store!Idle(c)
      <4>1. Store!Init
        BY DEF Init
      <4>2. /\ \A p \in Procs : rows[p].report = NoReport /\ rows[p].stage = "absent"
            /\ \A c \in Clients : Store!Idle(c)
        BY <4>1 DEF Store!Init, Store!NoRow, Store!Idle, Store!Result, Store!Results, Clients
      <4> QED BY <4>2, InitInv DEF Init
    <3>2. Fine(NoReport, Yet)
      BY NoReportAssumption DEF Fine, Earned, Clear
    <3> QED BY <3>1, <3>2 DEF WatchInv, Works, Waits, Stored, Fine, Window
  <2>2. WatchInv => GoIsWatched
    <3> SUFFICES ASSUME WatchInv,
                        NEW r \in {file} \cup {rows[id].report : id \in Procs},
                        r # NoReport, r.decision = "GO"
                 PROVE  Watched(r)
      BY DEF GoIsWatched
    <3>1. r \in Report
      BY DEF WatchInv, Inv, TypeOK, Store!TypeOK, Store!Row
    <3>2. Earned(r)
      BY DEF WatchInv, Stored, Fine
    <3> QED BY <3>1, <3>2 DEF Earned
  <2>3. WatchInv /\ [Next]_vars => WatchInv'
    BY <1>1, WatchStep
  <2> QED BY <2>1, <2>2, <2>3, PTL DEF Spec
<1>2. CASE ~Observes
  <2>1. GoIsWatched
    BY <1>2 DEF GoIsWatched
  <2> QED BY <2>1, PTL
<1> QED BY <1>1, <1>2
=============================================================================
