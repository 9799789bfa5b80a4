------------------------------ MODULE RunStore ------------------------------
(***************************************************************************)
(* internal/runstore: the SQLite table of validation runs, restricted to   *)
(* the rows of one (release_id, plan_sha256) pair, and every statement     *)
(* that changes it.  One SQL statement is one step.  Store.update and      *)
(* Store.Abandon are two statements, a SELECT and a conditional UPDATE,    *)
(* so they are two steps with the call's locals kept in `call`.            *)
(*                                                                         *)
(* Time is relative: `left` is lease_expires_at - now in ticks of several  *)
(* seconds, and stops at -1.  left = 0 is the tick of the expiry.  Within  *)
(* it update's `expires.After(now)`, whose now is read before the SELECT   *)
(* may have to wait, goes either way; so does `lease_expires_at < now` of  *)
(* AcquireLease, which compares texts: RFC3339Nano drops trailing zeros,   *)
(* and "05.25Z" sorts before "05.2Z".                                      *)
(***************************************************************************)
EXTENDS Integers, Stages

CONSTANTS
  Runs,      \* run ids that randomID can still draw
  Clients,   \* callers of the store; a client's lease token is its own name
  Reports,   \* report_json payloads, opaque to the store
  NoReport,  \* report_json IS NULL
  None,      \* lease_owner IS NULL or '', and the owner argument of Update
  Held,      \* Held[r]: report r rewritten to HOLD by Abandon
  TTL        \* LeaseTTL in ticks

ASSUME TTLAssumption == TTL \in Nat \ {0}
ASSUME NoneAssumption == None \notin Clients /\ None \notin Runs
ASSUME HeldAssumption == Held \in [Reports \cup {NoReport} -> Reports]

VARIABLES
  rows,  \* table runs: run id -> columns
  call   \* client -> its call of update or Abandon, or the result of the last

vars == <<rows, call>>

-----------------------------------------------------------------------------
AllStages == {"absent"} \cup ActiveStages \cup TerminalStages

Row == [stage  : AllStages,
        report : Reports \cup {NoReport},
        owner  : Clients \cup {None},
        left   : -1 .. TTL]

NoRow == [stage |-> "absent", report |-> NoReport, owner |-> None, left |-> -1]

\* The SELECTed row passed every test and the UPDATE has still to run.
PendingWrite == [op     : {"update", "abandon"},
                 id     : Runs,
                 as     : Clients \cup {None},
                 to     : AllStages,
                 report : Reports,
                 seen   : ActiveStages]

Result(outcome) == [op |-> outcome]
Results == [op : {"ok", "error"}]

Idle(c) == call[c] \in Results

Active == {id \in Runs : rows[id].stage \in ActiveStages}

Init ==
  /\ rows = [id \in Runs |-> NoRow]
  /\ call = [c \in Clients |-> Result("ok")]

-----------------------------------------------------------------------------
\* Seeded bug: the partial unique index idx_runs_one_active is missing.
InsertableWithoutIndex(id) == rows[id].stage = "absent"

\* The INSERT violates neither the primary key nor the unique index.
Insertable(id) == rows[id].stage = "absent" /\ Active = {}

Create(id) ==
  /\ Insertable(id)
  /\ rows' = [rows EXCEPT ![id].stage = "checking"]
  /\ UNCHANGED call

\* Seeded bug: the WHERE clause forgets the active stages.
LeasableAnyStage(c, id) ==
  /\ rows[id].stage # "absent"
  /\ rows[id].owner \in {None, c} \/ rows[id].left <= 0

\* The WHERE clause of AcquireLease.
Leasable(c, id) ==
  /\ rows[id].stage \in ActiveStages
  /\ rows[id].owner \in {None, c} \/ rows[id].left <= 0

\* The same clause may fail to hold.
Unleasable(c, id) ==
  \/ rows[id].stage \notin ActiveStages
  \/ rows[id].owner \notin {None, c} /\ rows[id].left >= 0

AcquireLease(c, id) ==
  /\ Leasable(c, id)
  /\ rows' = [rows EXCEPT ![id] = [@ EXCEPT !.owner = c, !.left = TTL]]
  /\ UNCHANGED call

\* The WHERE clause of RenewLease: the expiry is not looked at.
Renewable(c, id) == rows[id].owner = c /\ rows[id].stage \in ActiveStages

RenewLease(c, id) ==
  /\ Renewable(c, id)
  /\ rows' = [rows EXCEPT ![id].left = TTL]
  /\ UNCHANGED call

\* No row matches: nothing changes, and ReleaseLease reports no error either.
ReleaseLease(c, id) ==
  /\ rows' = IF rows[id].owner = c
             THEN [rows EXCEPT ![id] = [@ EXCEPT !.owner = None, !.left = -1]]
             ELSE rows
  /\ UNCHANGED call

-----------------------------------------------------------------------------
\* Seeded bug: update lets every stage follow every active stage.
UpdateAcceptedAnyStage(id, as, to) ==
  /\ rows[id].stage \in ActiveStages
  /\ rows[id].owner = as
  /\ as # None => rows[id].left >= 0

(***************************************************************************)
(* The tests update makes on the row it has SELECTed.  as = None is        *)
(* Update, any other owner is UpdateOwned.                                 *)
(***************************************************************************)
UpdateAccepted(id, as, to) ==
  /\ to \in Allowed(rows[id].stage)
  /\ rows[id].owner = as
  /\ as # None => rows[id].left >= 0

UpdateRefused(id, as, to) ==
  ~UpdateAccepted(id, as, to) \/ (as # None /\ rows[id].left <= 0)

UpdateRead(c, id, as, to, report) ==
  /\ Idle(c)
  /\ \/ /\ UpdateAccepted(id, as, to)
        /\ call' = [call EXCEPT ![c] =
                      [op |-> "update", id |-> id, as |-> as, to |-> to,
                       report |-> report, seen |-> rows[id].stage]]
     \/ /\ UpdateRefused(id, as, to)
        /\ call' = [call EXCEPT ![c] = Result("error")]
  /\ UNCHANGED rows

\* Seeded bug: Abandon takes any run it finds.
AbandonableAnyStage(id) == rows[id].stage # "absent"

\* Abandon looks at the stage, and never at the lease.
Abandonable(id) == rows[id].stage \in ActiveStages

AbandonRead(c, id) ==
  /\ Idle(c)
  /\ call' = [call EXCEPT ![c] =
                IF Abandonable(id)
                THEN [op |-> "abandon", id |-> id, as |-> None,
                      to |-> "abandoned", report |-> Held[rows[id].report],
                      seen |-> rows[id].stage]
                ELSE Result("error")]
  /\ UNCHANGED rows

\* Seeded bug: the UPDATE forgets `AND stage=?`.
WriteMatchesAnyStage(w) == w.op = "update" => rows[w.id].owner = w.as

\* Seeded bug: the UPDATE forgets `AND COALESCE(lease_owner,'')=?`.
WriteMatchesAnyOwner(w) == rows[w.id].stage = w.seen

\* The WHERE clause of the UPDATE: Abandon compares the stage alone.
WriteMatches(w) ==
  /\ rows[w.id].stage = w.seen
  /\ w.op = "update" => rows[w.id].owner = w.as

\* The columns after the UPDATE: a terminal stage clears the lease.
Written(w) ==
  [stage  |-> w.to,
   report |-> w.report,
   owner  |-> IF w.to \in TerminalStages THEN None ELSE rows[w.id].owner,
   left   |-> IF w.to \in TerminalStages THEN -1 ELSE rows[w.id].left]

(***************************************************************************)
(* The UPDATE commits.  secureFiles, or the read-back of Abandon, can      *)
(* still fail afterwards: the caller then sees an error although the row   *)
(* has changed.                                                            *)
(***************************************************************************)
WriteCommits(c) ==
  /\ ~Idle(c)
  /\ WriteMatches(call[c])
  /\ rows' = [rows EXCEPT ![call[c].id] = Written(call[c])]
  /\ \E outcome \in {"ok", "error"} :
       call' = [call EXCEPT ![c] = Result(outcome)]

\* "run stage changed concurrently": no row matches.
WriteMisses(c) ==
  /\ ~Idle(c)
  /\ ~WriteMatches(call[c])
  /\ call' = [call EXCEPT ![c] = Result("error")]
  /\ UNCHANGED rows

\* The database refuses the statement (busy for 5 s, deadline, I/O error).
StatementFails(c) ==
  /\ call' = [call EXCEPT ![c] = Result("error")]
  /\ UNCHANGED rows

\* The process of client c dies; a statement it had not run never runs.
Forget(c) ==
  /\ call' = [call EXCEPT ![c] = Result("ok")]
  /\ UNCHANGED rows

\* One tick of wall-clock time, for every lease.
Tick ==
  /\ rows' = [id \in Runs |->
                [rows[id] EXCEPT !.left = IF @ < 0 THEN @ ELSE @ - 1]]
  /\ UNCHANGED call

-----------------------------------------------------------------------------
Next ==
  \/ Tick
  \/ \E id \in Runs : Create(id)
  \/ \E c \in Clients :
       \/ \E id \in Runs :
            \/ AcquireLease(c, id)
            \/ RenewLease(c, id)
            \/ ReleaseLease(c, id)
            \/ AbandonRead(c, id)
            \/ \E as \in {c, None}, to \in ActiveStages \cup {"completed"},
                  report \in Reports : UpdateRead(c, id, as, to, report)
       \/ WriteCommits(c)
       \/ WriteMisses(c)
       \/ StatementFails(c)
       \/ Forget(c)

Spec == Init /\ [][Next]_vars

-----------------------------------------------------------------------------
\* The type invariant: rows and pending calls keep their shape.
TypeOK ==
  /\ rows \in [Runs -> Row]
  /\ call \in [Clients -> Results \cup PendingWrite]

\* At most one run of a (release, plan) pair is active: two processes that
\* both found no active run cannot both start one (store.go, Create).
OneActive == \A a, b \in Active : a = b

\* A finished run is never leased: no late AcquireLease, RenewLease or pending
\* update can hand a completed or abandoned run to a process.
LeaseOnlyOnActive ==
  \A id \in Runs : rows[id].stage \notin ActiveStages => rows[id].owner = None

\* The step changes nothing of run id once it is completed or abandoned.
KeepsDecided(id) == rows[id].stage \in TerminalStages => rows'[id] = rows[id]

\* What is decided stays decided: no pending write, however old its SELECT,
\* changes anything of a completed or abandoned run.
TerminalFinal == [][\A id \in Runs : KeepsDecided(id)]_vars

\* The step moves run id from its present stage to one that may follow.
MovesForward(id) ==
  \/ rows'[id].stage = rows[id].stage
  \/ rows[id].stage = "absent" /\ rows'[id].stage = "checking"
  \/ rows'[id].stage \in Allowed(rows[id].stage)
  \/ rows[id].stage \in ActiveStages /\ rows'[id].stage = "abandoned"

\* An update or Abandon is two statements, but the run it changes moves from
\* its present stage, not from the one the SELECT saw, to an allowed one.
StageOrder == [][\A id \in Runs : MovesForward(id)]_vars

\* The abstract run: the two statements of an update take effect as one save
\* by a client that holds the run at that moment (or while nobody does), and a
\* lease passes on only after it has lapsed.
Lifecycle == INSTANCE RunLifecycle WITH
  stage  <- [id \in Runs |-> rows[id].stage],
  report <- [id \in Runs |-> rows[id].report],
  holder <- [id \in Runs |-> rows[id].owner],
  lapsed <- {id \in Runs : rows[id].left <= 0},
  asking <- {c \in Clients : ~Idle(c)}

\* Every behaviour of the store is a behaviour of the abstract run.
ImplementsLifecycle == Lifecycle!Spec
=============================================================================
