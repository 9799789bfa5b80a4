------------------------------ MODULE Approvals ------------------------------
(***************************************************************************)
(* The approval of a report: confirm (cmd/releaseguard/main.go), the POST  *)
(* of the console with its failure limiter (internal/web/web.go), and the  *)
(* sidecars that both write (guard.go), while validation runs go on and    *)
(* the report at the path is published, removed or replaced.  One read or  *)
(* write of a file or of the run store is one step.                        *)
(*                                                                         *)
(* A report stands for its run and its digest as well.  An approval is the *)
(* report that it binds and the human decision.  NoReport at the path is   *)
(* any file that LoadReport refuses.                                       *)
(***************************************************************************)
EXTENDS Integers, FiniteSets

CONSTANTS
  Reports,      \* reports that runs can produce, one for each run
  NoReport,
  PairOf,       \* the release and plan of a report
  DecisionOf,   \* its automated decision
  Asked,        \* human decisions
  Confirms,     \* confirm processes
  Requests,     \* POST requests in flight, from one client address
  Limit,        \* failures that newFailureLimiter allows in a window
  ListLimit,    \* runs that latestActive lists
  MaxCalls,     \* bound: on confirm commands and POST requests
  NoApproval

Approvers == Confirms \cup Requests
Decisions == {"GO", "HOLD", "NO-GO"}

ASSUME ReportsAssumption ==
  /\ IsFiniteSet(Reports) /\ Reports \cap {NoReport, "legacy"} = {}
  /\ DecisionOf \in [Reports -> Decisions] /\ Asked \subseteq Decisions
  /\ NoApproval \notin Decisions \cup [report : Reports, decision : Decisions]
ASSUME ApproversAssumption ==
  Confirms \cap Requests = {} /\ IsFiniteSet(Requests)
ASSUME LimitAssumption == Limit \in Nat \ {0} /\ ListLimit \in Nat \ {0}
                          /\ MaxCalls \in Nat

VARIABLES
  stage,     \* of the run of each report
  report,    \* the file at the report path
  calls,     \* how many confirms and requests there were
  sidecars,  \* the approval file at each path
  op,        \* what each approver is doing
  window,    \* the client's entry in the failure limiter
  steady     \* history: the report has not changed since the approver asked
             \* for active runs

vars == <<stage, report, calls, sidecars, op, window, steady>>

-----------------------------------------------------------------------------
Approval == [report : Reports, decision : Decisions]

\* decisionRank
Rank(decision) == CASE decision = "GO" -> 0
                    [] decision = "HOLD" -> 1
                    [] decision = "NO-GO" -> 2

\* A sidecar without and with the digest in its name.
Paths == {"legacy"} \cup Reports

\* Seeded bug: a run that is being finalized has already published its report.
ActiveForgetsFinalizing(r) == stage[r] = "validating"

Active(r) == stage[r] \in {"validating", "finalizing"}

Resting(pc) == [pc |-> pc, ask |-> "GO", seen |-> NoReport, left |-> {},
                out |-> "legacy", draft |-> NoApproval]

NoWindow == [count |-> 0, state |-> "none"]

Init ==
  /\ stage = [r \in Reports |-> "unborn"]
  /\ report = NoReport
  /\ calls = 0
  /\ sidecars = [path \in Paths |-> NoApproval]
  /\ op = [a \in Approvers |-> Resting("done")]
  /\ window = NoWindow
  /\ steady = [a \in Approvers |-> FALSE]

-----------------------------------------------------------------------------
Started == {r \in Reports : stage[r] # "unborn"}

\* The runs: at most one is active for a release and plan.
StartRun(r) ==
  /\ stage[r] = "unborn"
  /\ \A q \in Reports : PairOf[q] = PairOf[r] => ~Active(q)
  /\ stage' = [stage EXCEPT ![r] = "validating"]
  /\ UNCHANGED <<report, calls, sidecars, op, window, steady>>

\* The final save, and the completion or abandonment.
UpdateRun(r) ==
  /\ Active(r)
  /\ \E s \in {"finalizing", "over"} : stage' = [stage EXCEPT ![r] = s]
  /\ UNCHANGED <<report, calls, sidecars, op, window, steady>>

\* check publishes, or forces, the report of its run, and does so as well when
\* a save has failed or an operator has abandoned the run; a report is removed
\* or an earlier one put back.
ReplaceReport ==
  /\ \E r \in Reports \cup {NoReport} :
       /\ r # report
       /\ r \in Reports => r \in Started
       /\ report' = r
  /\ steady' = [a \in Approvers |-> FALSE]
  /\ UNCHANGED <<stage, calls, sidecars, op, window>>

-----------------------------------------------------------------------------
\* An approver at step pc reads, and fails or goes on.
At(a, pc) == op[a].pc = pc

Ends(a) ==
  /\ op' = [op EXCEPT ![a] = Resting("done")]
  /\ steady' = [steady EXCEPT ![a] = FALSE]

Called == calls < MaxCalls /\ calls' = calls + 1

Environment == <<stage, report>>

\* confirm is called with a decision.
Confirm(c, decision) ==
  /\ At(c, "done")
  /\ Called
  /\ op' = [op EXCEPT ![c] = [Resting("identify") EXCEPT !.ask = decision]]
  /\ UNCHANGED <<Environment, sidecars, window, steady>>

\* Seeded bug: one failure too many.
AllowedOnceMore == window.state = "lapsed" \/ window.count <= Limit

Allowed == window.state = "lapsed" \/ window.count < Limit

\* failureLimiter.Allow: an entry that has lapsed is deleted.
Arrive(w) ==
  /\ At(w, "done")
  /\ Called
  /\ Allowed
  /\ window' = IF window.state = "lapsed" THEN NoWindow ELSE window
  /\ op' = [op EXCEPT ![w].pc = "token"]
  /\ UNCHANGED <<Environment, sidecars, steady>>

\* Seeded bug: an entry keeps the date it had, also if it had none.
AfterFailureUndated == [window EXCEPT !.count = @ + 1]

\* The client's entry after failureLimiter.Fail.
AfterFailure ==
  [count |-> IF window.state = "open" THEN window.count + 1 ELSE 1, state |-> "open"]

TokenRefused(w) ==
  /\ At(w, "token")
  /\ window' = AfterFailure
  /\ Ends(w)
  /\ UNCHANGED <<Environment, calls, sidecars>>

\* failureLimiter.Success
TokenAccepted(w, decision) ==
  /\ At(w, "token")
  /\ window' = NoWindow
  /\ op' = [op EXCEPT ![w] = [Resting("list") EXCEPT !.ask = decision]]
  /\ UNCHANGED <<Environment, calls, sidecars, steady>>

WindowLapses ==
  /\ window.state = "open"
  /\ window' = [window EXCEPT !.state = "lapsed"]
  /\ UNCHANGED <<Environment, calls, sidecars, op, steady>>

\* What the query lists: all runs or ListLimit of them, whichever was updated
\* last.
Listings ==
  IF Cardinality(Started) <= ListLimit THEN {Started}
  ELSE {S \in SUBSET Started : Cardinality(S) = ListLimit}

\* latestActive: the active ones ...
List(w) ==
  /\ At(w, "list")
  /\ \E listed \in Listings :
       op' = [op EXCEPT ![w] = [@ EXCEPT !.pc = "scan",
                                         !.left = {r \in listed : Active(r)}]]
  /\ steady' = [steady EXCEPT ![w] = TRUE]
  /\ UNCHANGED <<Environment, calls, sidecars, window>>

\* ... are compared with the report, which is read for each of them.
Scan(w) ==
  /\ At(w, "scan")
  /\ \E r \in op[w].left :
       IF report = NoReport \/ PairOf[r] = PairOf[report]
       THEN Ends(w)
       ELSE /\ op' = [op EXCEPT ![w].left = @ \ {r}]
            /\ UNCHANGED steady
  /\ UNCHANGED <<Environment, calls, sidecars, window>>

\* When none matches, the body of the request is read.
ReadBody(w) ==
  /\ At(w, "scan") /\ op[w].left = {}
  /\ op' = [op EXCEPT ![w].pc = "identify"]
  /\ UNCHANGED <<Environment, calls, sidecars, window, steady>>

-----------------------------------------------------------------------------
\* LoadReport: `seen` is the report read.
Identify(a) ==
  /\ At(a, "identify")
  /\ report # NoReport
  /\ op' = [op EXCEPT ![a] = [@ EXCEPT !.pc = "choose", !.seen = report]]
  /\ UNCHANGED <<Environment, calls, sidecars, window, steady>>

\* Seeded bug: a legacy sidecar, even of this report, is left alone.
OutputBesideLegacy(r) == IF sidecars["legacy"] = NoApproval THEN "legacy" ELSE r

\* ApprovalOutputPath, for the report r.
Output(r) ==
  IF sidecars["legacy"] = NoApproval \/ sidecars["legacy"].report = r
  THEN "legacy" ELSE r

ChooseOutput(a) ==
  /\ At(a, "choose")
  /\ op' = [op EXCEPT ![a] =
              [@ EXCEPT !.pc = IF a \in Confirms THEN "load" ELSE "create",
                        !.out = Output(op[a].seen)]]
  /\ UNCHANGED <<Environment, calls, sidecars, window, steady>>

\* confirm loads the report once more, for its release and plan ...
Load(c) ==
  /\ At(c, "load")
  /\ report # NoReport
  /\ op' = [op EXCEPT ![c] = [@ EXCEPT !.pc = "find", !.seen = report]]
  /\ steady' = [steady EXCEPT ![c] = TRUE]
  /\ UNCHANGED <<Environment, calls, sidecars, window>>

\* ... and goes on only if FindActive finds no run of them.
FindActive(c) ==
  /\ At(c, "find")
  /\ IF \E r \in Reports : Active(r) /\ PairOf[r] = PairOf[op[c].seen]
     THEN Ends(c)
     ELSE op' = [op EXCEPT ![c].pc = "create"] /\ UNCHANGED steady
  /\ UNCHANGED <<Environment, calls, sidecars, window>>

\* Seeded bug: the decision is compared with the report loaded before.
DecisionStandsFor(a, r) == Rank(op[a].ask) >= Rank(DecisionOf[op[a].seen])

DecisionStands(a, r) == Rank(op[a].ask) >= Rank(DecisionOf[r])

\* CreateApproval loads the report again and prepares the approval ...
Create(a) ==
  /\ At(a, "create")
  /\ report # NoReport
  /\ DecisionStands(a, report)
  /\ op' = [op EXCEPT ![a] =
              [@ EXCEPT !.pc = "link", !.seen = NoReport,
                        !.draft = [report |-> report, decision |-> op[a].ask]]]
  /\ UNCHANGED <<Environment, calls, sidecars, window, steady>>

\* Seeded bug: the artifact is replaced.
FreeAnyway(path) == path \in Paths

Free(path) == sidecars[path] = NoApproval

\* ... that os.Link publishes unless the sidecar exists.
Link(a) ==
  /\ At(a, "link")
  /\ Free(op[a].out)
  /\ sidecars' = [sidecars EXCEPT ![op[a].out] = op[a].draft]
  /\ IF a \in Requests
     THEN op' = [op EXCEPT ![a].pc = "reload"] /\ UNCHANGED steady
     ELSE Ends(a)
  /\ UNCHANGED <<Environment, calls, window>>

\* LoadBoundApproval for the answer of the request: the report ...
Reload(w) ==
  /\ At(w, "reload")
  /\ report # NoReport
  /\ op' = [op EXCEPT ![w] = [@ EXCEPT !.pc = "lookup", !.seen = report]]
  /\ UNCHANGED <<Environment, calls, sidecars, window, steady>>

\* approvalMatches
Matches(approval, r) == approval # NoApproval /\ approval.report = r

\* ... and the approval bound to it, first at the path with its digest.
BoundApproval(r) ==
  IF Matches(sidecars[r], r) THEN sidecars[r]
  ELSE IF Matches(sidecars["legacy"], r) THEN sidecars["legacy"]
  ELSE NoApproval

\* Both files are read in one step: they appear once and never change.
Lookup(w) ==
  /\ At(w, "lookup")
  /\ BoundApproval(op[w].seen) # NoApproval
  /\ op' = [op EXCEPT ![w] = [@ EXCEPT !.pc = "answered",
                                       !.draft = BoundApproval(op[w].seen)]]
  /\ UNCHANGED <<Environment, calls, sidecars, window, steady>>

\* The approver is done, or any step of it fails or is refused.
Stop(a) ==
  /\ ~At(a, "done") /\ ~At(a, "token")
  /\ Ends(a)
  /\ UNCHANGED <<Environment, calls, sidecars, window>>

-----------------------------------------------------------------------------
Next ==
  \/ \E r \in Reports : StartRun(r) \/ UpdateRun(r)
  \/ ReplaceReport
  \/ WindowLapses
  \/ \E c \in Confirms :
       \/ \E decision \in Asked : Confirm(c, decision)
       \/ Load(c)
       \/ FindActive(c)
  \/ \E w \in Requests :
       \/ Arrive(w)
       \/ TokenRefused(w)
       \/ \E decision \in Asked : TokenAccepted(w, decision)
       \/ List(w)
       \/ Scan(w)
       \/ ReadBody(w)
       \/ Reload(w)
       \/ Lookup(w)
  \/ \E a \in Approvers :
       \/ Identify(a)
       \/ ChooseOutput(a)
       \/ Create(a)
       \/ Link(a)
       \/ Stop(a)

Spec == Init /\ [][Next]_vars

-----------------------------------------------------------------------------
Steps == {"done", "token", "list", "scan", "identify", "choose", "load", "find",
          "create", "link", "reload", "lookup", "answered"}

Window == [count : Nat, state : {"none", "open", "lapsed"}]

\* The type invariant: who links or is answered has an approval,
\* and failures are counted in a window only.
TypeOK ==
  /\ stage \in [Reports -> {"unborn", "validating", "finalizing", "over"}]
  /\ report \in Reports \cup {NoReport} /\ calls \in 0..MaxCalls
  /\ sidecars \in [Paths -> Approval \cup {NoApproval}]
  /\ \A a \in Approvers :
       /\ op[a].pc \in Steps
       /\ op[a].out \in Paths
       /\ op[a].draft \in Approval \cup {NoApproval}
       /\ op[a].pc \in {"link", "answered"} => op[a].draft # NoApproval
  /\ window \in Window /\ (window.state = "none" <=> window.count = 0)

\* No approval on disk relaxes the decision of the report that it names, even
\* if the report is replaced between the reads of confirm or of the console
\* (CreateApproval compares with the bytes whose digest it writes).
NeverRelaxed ==
  \A path \in Paths :
    sidecars[path] # NoApproval =>
      Rank(sidecars[path].decision) >= Rank(DecisionOf[sidecars[path].report])

\* Once LoadBoundApproval finds an approval of a report it never finds another,
\* whichever approvers race and however reports come and go: the choice between
\* the two paths never puts a second approval in front of the first.
AnswerStable ==
  [][sidecars' # sidecars =>
       \A r \in Reports :
         BoundApproval(r) # NoApproval => BoundApproval(r)' = BoundApproval(r)]_vars

\* The approver writes its approval, of a report that has stayed at the path
\* since it asked for active runs.
ApprovesSteadily(a) ==
  /\ At(a, "link") /\ sidecars' # sidecars
  /\ op'[a] # op[a]
  /\ steady[a]

\* Only the report of a run that is over is approved: no approval comes between
\* the publication of a report and the completion of its run.  For the console
\* this holds as long as latestActive lists every run (main.go and web.go).
ApprovedRunIsOver ==
  [][\A a \in Approvers :
       ApprovesSteadily(a) /\ (a \in Requests => Cardinality(Started) <= ListLimit) =>
         stage[op[a].draft.report] = "over"]_vars

\* A request that is answered with an approval gets what it has asked for, of
\* the report that it has asked about, unless the report was replaced.
AnswerIsOwn ==
  \A w \in Requests :
    At(w, "answered") /\ steady[w] =>
      op[w].draft = [report |-> report, decision |-> op[w].ask]

\* Requests in flight can pass failureLimiter.Allow together: no more tokens
\* are tried in a window than the limit and one for each of the others.
AttemptsBounded == window.count <= Limit + Cardinality(Requests) - 1

\* An approver asks from its call, or its token, to the sidecar.
Asking == {"list", "scan", "identify", "choose", "load", "find", "create", "link"}

Permitted == [r \in Reports |-> {d \in Decisions : Rank(d) >= Rank(DecisionOf[r])}]

Register == INSTANCE ApprovalRegister WITH
  None   <- NoApproval,
  answer <- [r \in Reports |-> BoundApproval(r)],
  asking <- [a \in Approvers |-> IF op[a].pc \in Asking THEN op[a].ask ELSE NoApproval]

\* The reads and the write of every approver take effect as one: each decision
\* that a reader finds was recorded once, by one approver that was asking for
\* it, and a sidecar at the path of another report answers nobody.
ImplementsRegister == Register!Spec
=============================================================================
