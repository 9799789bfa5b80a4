--------------------------- MODULE ApprovalsProofs ---------------------------
(***************************************************************************)
(* Theorems about Approvals, for any reports, plans, approvers and limits. *)
(* A file that exists never changes, but the choice of the path and the    *)
(* write are steps of their own: what an approver has read must be tied to *)
(* what the files and the runs are when it writes.                         *)
(***************************************************************************)
EXTENDS Approvals, FiniteSetTheorems, TLAPS

Op == [pc : Steps, ask : Decisions, seen : Reports \cup {NoReport},
       left : SUBSET Reports, out : Paths, draft : Approval \cup {NoApproval}]

Typed ==
  /\ stage \in [Reports -> {"unborn", "validating", "finalizing", "over"}]
  /\ report \in Started \cup {NoReport}
  /\ calls \in 0..MaxCalls
  /\ sidecars \in [Paths -> Approval \cup {NoApproval}]
  /\ op \in [Approvers -> Op]
  /\ steady \in [Approvers -> BOOLEAN]
  /\ window \in Window /\ (window.state = "none" <=> window.count = 0)

Unrelaxed(approval) == Rank(approval.decision) >= Rank(DecisionOf[approval.report])

\* The sidecar without a digest is taken by another report.
LegacyDiffers(r) == sidecars["legacy"] # NoApproval /\ sidecars["legacy"].report # r

\* A sidecar with a digest is written only beside one of another report.
SidecarInv ==
  /\ \A path \in Paths : sidecars[path] # NoApproval => Unrelaxed(sidecars[path])
  /\ \A r \in Reports : sidecars[r] # NoApproval => LegacyDiffers(r)

Mine(a) == [report |-> report, decision |-> op[a].ask]

\* What approver a holds, whatever happens to the report.
Holds(a) ==
  /\ op[a].pc \in {"choose", "find", "lookup"} => op[a].seen # NoReport
  /\ op[a].pc = "link" => /\ op[a].draft # NoApproval /\ Unrelaxed(op[a].draft)
                          /\ op[a].draft.decision = op[a].ask
  /\ op[a].pc = "answered" => op[a].draft # NoApproval
  /\ op[a].pc \in {"load", "find", "create", "link"} /\ op[a].out \in Reports =>
       LegacyDiffers(op[a].out)

\* What it knows of a report that has not changed.
Knows(a) ==
  steady[a] =>
    /\ op[a].pc \in {"choose", "find", "lookup"} => op[a].seen = report
    /\ op[a].pc \in {"find", "link", "reload", "lookup", "answered"} => report # NoReport
    /\ op[a].pc \in {"create", "link"} /\ a \in Requests => op[a].out \in {"legacy", report}
    /\ op[a].pc = "link" => op[a].draft = Mine(a)
    /\ op[a].pc \in {"reload", "lookup", "answered"} => BoundApproval(report) = Mine(a)
    /\ op[a].pc = "answered" => op[a].draft = Mine(a)

\* The steps after an approver has found that no run is active.
Cleared(a) ==
  IF a \in Requests THEN {"identify", "choose", "create", "link"} ELSE {"create", "link"}

\* What it knows of the run of that report.
KnowsRun(a) ==
  steady[a] /\ report # NoReport /\ (a \in Requests => Cardinality(Started) <= ListLimit) =>
    /\ op[a].pc = "scan" /\ Active(report) => report \in op[a].left
    /\ op[a].pc \in Cleared(a) => ~Active(report)

OpInv(a) == Holds(a) /\ Knows(a) /\ KnowsRun(a)

InFlight == {w \in Requests : op[w].pc = "token"}

LimiterInv == window.count + Cardinality(InFlight) <= Limit + Cardinality(Requests) - 1

Inv == /\ Typed /\ SidecarInv /\ LimiterInv
       /\ \A a \in Approvers : OpInv(a)

-----------------------------------------------------------------------------
\* Approver a moves to the operation o, and nobody else moves.
Moves(a, o) ==
  /\ o \in Op /\ op' = [op EXCEPT ![a] = o]
  /\ steady' \in [Approvers -> BOOLEAN]
  /\ \A b \in Approvers \ {a} : steady'[b] = steady[b]

\* What follows from a move of one approver.
LEMMA MoveFacts ==
  ASSUME Typed, NEW a \in Approvers, NEW o, Moves(a, o)
  PROVE  /\ op' \in [Approvers -> Op] /\ op'[a] = o
         /\ \A b \in Approvers \ {a} : op'[b] = op[b] /\ steady'[b] = steady[b]
BY DEF Typed, Moves

\* The other approvers know what they knew: only Link changes a sidecar, and it
\* keeps legacy sidecars and answers.
LEMMA OthersKeep ==
  ASSUME Typed, NEW b \in Approvers, OpInv(b),
         op'[b] = op[b], steady'[b] = steady[b], UNCHANGED <<stage, report>>,
         \A r \in Reports : LegacyDiffers(r) => LegacyDiffers(r)',
         \A r \in Reports : BoundApproval(r) # NoApproval => BoundApproval(r)' = BoundApproval(r)
  PROVE  OpInv(b)'
<1>1. Holds(b)'
  BY DEF OpInv, Holds, Unrelaxed
<1>2. Mine(b)' = Mine(b) /\ (report # NoReport => Mine(b) # NoApproval)
  BY ReportsAssumption DEF Mine, Typed, Op, Started
<1>3. Knows(b)'
  BY <1>2 DEF OpInv, Knows, Typed, Started
<1>4. KnowsRun(b)'
  BY DEF OpInv, KnowsRun, Started, Active, Cleared
<1> QED BY <1>1, <1>3, <1>4 DEF OpInv

LEMMA Finite == IsFiniteSet(InFlight) /\ Cardinality(InFlight) \in Nat
                /\ Cardinality(Requests) \in Nat /\ Cardinality(InFlight) <= Cardinality(Requests)
<1>1. InFlight \subseteq Requests
  BY DEF InFlight
<1> QED BY <1>1, ApproversAssumption, FS_Subset, FS_CardinalityType

\* A step of approver a that leaves runs, the report and the sidecars alone.
LEMMA OwnStep ==
  ASSUME Inv, NEW a \in Approvers, NEW o, Moves(a, o),
         UNCHANGED <<stage, report, sidecars>>, calls' \in 0..MaxCalls, OpInv(a)',
         window' \in Window, window'.state = "none" <=> window'.count = 0, LimiterInv'
  PROVE  Inv'
<1>1. /\ op' \in [Approvers -> Op] /\ op'[a] = o
      /\ \A b \in Approvers \ {a} : op'[b] = op[b] /\ steady'[b] = steady[b]
  BY MoveFacts DEF Inv
<1>2. Typed'
  BY <1>1 DEF Inv, Typed, Moves, Started
<1>3. SidecarInv'
  BY DEF Inv, SidecarInv, LegacyDiffers, Unrelaxed
<1>4. ASSUME NEW b \in Approvers, b # a PROVE OpInv(b)'
  <2>1. \A r \in Reports : LegacyDiffers(r) => LegacyDiffers(r)'
    BY DEF LegacyDiffers
  <2>2. \A r \in Reports : BoundApproval(r)' = BoundApproval(r)
    BY DEF BoundApproval, Matches
  <2> QED BY <1>1, <1>4, <2>1, <2>2, OthersKeep DEF Inv
<1> QED BY <1>2, <1>3, <1>4 DEF Inv

\* A step that leaves the limiter alone as well.
LEMMA QuietStep ==
  ASSUME Inv, NEW a \in Approvers, NEW o, Moves(a, o),
         op[a].pc # "token", o.pc # "token",
         UNCHANGED <<stage, report, sidecars, window>>, calls' \in 0..MaxCalls, OpInv(a)'
  PROVE  Inv'
<1>1. /\ op'[a] = o
      /\ \A b \in Approvers \ {a} : op'[b] = op[b]
  BY MoveFacts DEF Inv
<1>2. InFlight' = InFlight
  BY <1>1 DEF InFlight, Approvers
<1>3. LimiterInv'
  BY <1>2 DEF Inv, LimiterInv
<1>4. window' \in Window /\ (window'.state = "none" <=> window'.count = 0)
  BY DEF Inv, Typed
<1> QED BY <1>3, <1>4, OwnStep

LEMMA EndsFacts ==
  ASSUME Typed, NEW a \in Approvers, Ends(a)
  PROVE  /\ Moves(a, Resting("done")) /\ ~steady'[a]
         /\ Resting("done").pc = "done"
         /\ Resting("done").out = "legacy"
BY DEF Typed, Ends, Moves, Resting, Op, Steps, Decisions, Paths

\* An approver that ends knows nothing.
LEMMA EndsStep ==
  ASSUME Inv, NEW a \in Approvers, Ends(a), op[a].pc # "token",
         UNCHANGED <<stage, report, calls, sidecars, window>>
  PROVE  Inv'
<1>1. /\ Moves(a, Resting("done")) /\ ~steady'[a]
      /\ Resting("done").pc = "done"
  BY EndsFacts DEF Inv
<1>2. op'[a] = Resting("done")
  BY <1>1, MoveFacts DEF Inv
<1>3. OpInv(a)'
  BY <1>1, <1>2 DEF OpInv, Holds, Knows, KnowsRun
<1>4. calls' \in 0..MaxCalls
  BY DEF Inv, Typed
<1> QED BY <1>1, <1>3, <1>4, QuietStep

-----------------------------------------------------------------------------
\* Each step of an approver: the operation it moves to, and what it then knows.
LEMMA ConfirmInv == ASSUME Inv, NEW c \in Confirms, NEW d \in Asked, Confirm(c, d) PROVE Inv'
<1>1. c \in Approvers /\ d \in Decisions
  BY ReportsAssumption DEF Approvers
<1> DEFINE o == [Resting("identify") EXCEPT !.ask = d]
<1>2. Moves(c, o) /\ o.pc = "identify" /\ o.out = "legacy"
  BY <1>1 DEF Inv, Typed, Confirm, Moves, Resting, Op, Steps, Paths
<1>3. op'[c] = o /\ UNCHANGED steady
  BY <1>1, <1>2, MoveFacts DEF Inv, Confirm
<1>4. OpInv(c)'
  <2>1. Holds(c)'
    BY <1>2, <1>3 DEF Holds
  <2>2. Knows(c)'
    BY <1>2, <1>3 DEF Knows
  <2> QED BY <1>1, <1>2, <1>3, <2>1, <2>2, ApproversAssumption DEF OpInv, KnowsRun, Cleared
<1>5. calls' \in 0..MaxCalls
  BY LimitAssumption DEF Inv, Typed, Confirm, Called
<1> QED BY <1>1, <1>2, <1>4, <1>5, QuietStep DEF Confirm, At, Environment

LEMMA ListInv == ASSUME Inv, NEW w \in Requests, List(w) PROVE Inv'
<1>1. w \in Approvers /\ op[w].pc = "list" /\ op[w] \in Op
  BY DEF Approvers, List, At, Inv, Typed
<1>2. PICK listed \in Listings :
        op' = [op EXCEPT ![w] = [@ EXCEPT !.pc = "scan",
                                          !.left = {r \in listed : Active(r)}]]
  BY DEF List
<1> DEFINE o == [op[w] EXCEPT !.pc = "scan", !.left = {r \in listed : Active(r)}]
<1>3. listed \subseteq Reports /\ (Cardinality(Started) <= ListLimit => listed = Started)
  BY DEF Listings, Started
<1>4. o \in Op /\ o.pc = "scan" /\ o.left = {r \in listed : Active(r)}
  BY <1>1, <1>3 DEF Op, Steps
<1>5. Moves(w, o)
  BY <1>1, <1>2, <1>4 DEF Moves, List, Inv, Typed
<1>6. op'[w] = o /\ UNCHANGED <<stage, report>>
  BY <1>1, <1>5, MoveFacts DEF Inv, List, Environment
<1>7. Holds(w)' /\ Knows(w)'
  BY <1>4, <1>6 DEF Holds, Knows
<1>8. KnowsRun(w)'
  <2>1. report # NoReport => report \in Started
    BY DEF Inv, Typed
  <2> QED BY <1>3, <1>4, <1>6, <2>1 DEF KnowsRun, Cleared, Started, Active
<1>9. OpInv(w)'
  BY <1>7, <1>8 DEF OpInv
<1>10. calls' \in 0..MaxCalls
  BY DEF Inv, Typed, List
<1> QED BY <1>1, <1>4, <1>5, <1>9, <1>10, QuietStep DEF List, Environment

LEMMA ScanInv == ASSUME Inv, NEW w \in Requests, Scan(w) PROVE Inv'
<1>1. w \in Approvers /\ op[w].pc = "scan" /\ op[w] \in Op
  BY DEF Approvers, Scan, At, Inv, Typed
<1>2. PICK r \in op[w].left :
        IF report = NoReport \/ PairOf[r] = PairOf[report]
        THEN Ends(w)
        ELSE /\ op' = [op EXCEPT ![w].left = @ \ {r}]
             /\ UNCHANGED steady
  BY DEF Scan
<1>3. UNCHANGED <<stage, report, calls, sidecars, window>>
  BY DEF Scan, Environment
<1>4. CASE Ends(w)
  BY <1>1, <1>3, <1>4, EndsStep
<1>5. CASE /\ report # NoReport /\ PairOf[r] # PairOf[report]
           /\ op' = [op EXCEPT ![w].left = @ \ {r}] /\ UNCHANGED steady
  <2> DEFINE o == [op[w] EXCEPT !.left = @ \ {r}]
  <2>1. o \in Op /\ o.pc = "scan" /\ o.left = op[w].left \ {r}
    BY <1>1 DEF Op
  <2>2. Moves(w, o) /\ op'[w] = o
    BY <1>1, <1>5, <2>1 DEF Moves, Inv, Typed
  <2>3. Holds(w)' /\ Knows(w)'
    BY <2>1, <2>2 DEF Holds, Knows
  <2>4. KnowsRun(w)'
    BY <1>1, <1>3, <1>5, <2>1, <2>2 DEF KnowsRun, Cleared, Started, Active, Inv, OpInv
  <2>5. OpInv(w)' /\ calls' \in 0..MaxCalls
    BY <1>3, <2>3, <2>4 DEF OpInv, Inv, Typed
  <2> QED BY <1>1, <1>3, <2>1, <2>2, <2>5, QuietStep
<1> QED BY <1>2, <1>4, <1>5

LEMMA ReadBodyInv == ASSUME Inv, NEW w \in Requests, ReadBody(w) PROVE Inv'
<1>1. w \in Approvers /\ op[w].pc = "scan" /\ op[w] \in Op /\ op[w].left = {}
  BY DEF Approvers, ReadBody, At, Inv, Typed
<1>2. UNCHANGED <<stage, report, calls, sidecars, window, steady>>
  BY DEF ReadBody, Environment
<1> DEFINE o == [op[w] EXCEPT !.pc = "identify"]
<1>3. o \in Op /\ o.pc = "identify"
  BY <1>1 DEF Op, Steps
<1>4. Moves(w, o) /\ op'[w] = o
  BY <1>1, <1>2, <1>3 DEF ReadBody, Moves, Inv, Typed
<1>5. Holds(w)' /\ Knows(w)'
  BY <1>3, <1>4 DEF Holds, Knows
<1>6. KnowsRun(w)'
  BY <1>1, <1>2, <1>3, <1>4 DEF KnowsRun, Cleared, Started, Active, Inv, OpInv
<1>7. OpInv(w)' /\ calls' \in 0..MaxCalls
  BY <1>2, <1>5, <1>6 DEF OpInv, Inv, Typed
<1> QED BY <1>1, <1>2, <1>3, <1>4, <1>7, QuietStep

LEMMA IdentifyInv == ASSUME Inv, NEW a \in Approvers, Identify(a) PROVE Inv'
<1>1. op[a].pc = "identify" /\ op[a] \in Op /\ report # NoReport
      /\ report \in Reports
  BY DEF Identify, At, Inv, Typed, Started
<1>2. UNCHANGED <<stage, report, calls, sidecars, window, steady>>
  BY DEF Identify, Environment
<1> DEFINE o == [op[a] EXCEPT !.pc = "choose", !.seen = report]
<1>3. o \in Op /\ o.pc = "choose" /\ o.seen = report
  BY <1>1 DEF Op, Steps
<1>4. Moves(a, o) /\ op'[a] = o
  BY <1>1, <1>2, <1>3 DEF Identify, Moves, Inv, Typed
<1>5. Holds(a)' /\ Knows(a)'
  BY <1>1, <1>2, <1>3, <1>4 DEF Holds, Knows
<1>6. KnowsRun(a)'
  BY <1>1, <1>2, <1>3, <1>4 DEF KnowsRun, Cleared, Started, Active, Inv, OpInv
<1>7. OpInv(a)' /\ calls' \in 0..MaxCalls
  BY <1>2, <1>5, <1>6 DEF OpInv, Inv, Typed
<1> QED BY <1>1, <1>2, <1>3, <1>4, <1>7, QuietStep

LEMMA ChooseOutputInv == ASSUME Inv, NEW a \in Approvers, ChooseOutput(a) PROVE Inv'
<1>1. op[a].pc = "choose" /\ op[a] \in Op /\ op[a].seen \in Reports
  BY DEF ChooseOutput, At, Inv, Typed, OpInv, Holds, Op
<1>2. UNCHANGED <<stage, report, calls, sidecars, window, steady>>
  BY DEF ChooseOutput, Environment
<1>3. /\ Output(op[a].seen) \in {"legacy", op[a].seen}
      /\ Output(op[a].seen) # "legacy" => LegacyDiffers(op[a].seen)
      /\ "legacy" \notin Reports
  BY ReportsAssumption DEF Output, LegacyDiffers
<1> DEFINE o == [op[a] EXCEPT !.pc = IF a \in Confirms THEN "load" ELSE "create",
                              !.out = Output(op[a].seen)]
<1>4. /\ o \in Op /\ o.pc = (IF a \in Confirms THEN "load" ELSE "create")
      /\ o.out = Output(op[a].seen)
  BY <1>1, <1>3 DEF Op, Steps, Paths
<1>5. Moves(a, o) /\ op'[a] = o
  BY <1>1, <1>2, <1>4 DEF ChooseOutput, Moves, Inv, Typed
<1>6. Holds(a)'
  BY <1>2, <1>3, <1>4, <1>5 DEF Holds, LegacyDiffers
<1>7. Knows(a)'
  BY <1>1, <1>2, <1>3, <1>4, <1>5, ApproversAssumption DEF Knows, Inv, OpInv
<1>8. KnowsRun(a)'
  BY <1>1, <1>2, <1>4, <1>5, ApproversAssumption
     DEF KnowsRun, Cleared, Started, Active, Inv, OpInv, Approvers
<1>9. OpInv(a)' /\ calls' \in 0..MaxCalls
  BY <1>2, <1>6, <1>7, <1>8 DEF OpInv, Inv, Typed
<1>10. o.pc # "token"
  BY <1>4
<1> QED BY <1>1, <1>2, <1>5, <1>9, <1>10, QuietStep

LEMMA LoadInv == ASSUME Inv, NEW c \in Confirms, Load(c) PROVE Inv'
<1>1. /\ c \in Approvers /\ c \notin Requests
      /\ op[c].pc = "load" /\ op[c] \in Op /\ report \in Reports /\ report # NoReport
  BY ApproversAssumption DEF Approvers, Load, At, Inv, Typed, Started
<1>2. UNCHANGED <<stage, report, calls, sidecars, window>>
  BY DEF Load, Environment
<1> DEFINE o == [op[c] EXCEPT !.pc = "find", !.seen = report]
<1>3. o \in Op /\ o.pc = "find" /\ o.seen = report /\ o.out = op[c].out
  BY <1>1 DEF Op, Steps
<1>4. Moves(c, o) /\ op'[c] = o
  BY <1>1, <1>3 DEF Load, Moves, Inv, Typed
<1>5. Holds(c)'
  BY <1>1, <1>2, <1>3, <1>4 DEF Holds, LegacyDiffers, Inv, OpInv
<1>6. Knows(c)' /\ KnowsRun(c)'
  BY <1>1, <1>2, <1>3, <1>4 DEF Knows, KnowsRun, Cleared
<1>7. OpInv(c)' /\ calls' \in 0..MaxCalls
  BY <1>2, <1>5, <1>6 DEF OpInv, Inv, Typed
<1> QED BY <1>1, <1>2, <1>3, <1>4, <1>7, QuietStep

LEMMA FindActiveInv == ASSUME Inv, NEW c \in Confirms, FindActive(c) PROVE Inv'
<1>1. /\ c \in Approvers /\ c \notin Requests
      /\ op[c].pc = "find" /\ op[c] \in Op
  BY ApproversAssumption DEF Approvers, FindActive, At, Inv, Typed
<1>2. UNCHANGED <<stage, report, calls, sidecars, window>>
  BY DEF FindActive, Environment
<1>3. CASE Ends(c)
  BY <1>1, <1>2, <1>3, EndsStep
<1>4. CASE /\ ~\E r \in Reports : Active(r) /\ PairOf[r] = PairOf[op[c].seen]
           /\ op' = [op EXCEPT ![c].pc = "create"] /\ UNCHANGED steady
  <2> DEFINE o == [op[c] EXCEPT !.pc = "create"]
  <2>1. o \in Op /\ o.pc = "create" /\ o.out = op[c].out
    BY <1>1 DEF Op, Steps
  <2>2. Moves(c, o) /\ op'[c] = o
    BY <1>1, <1>4, <2>1 DEF Moves, Inv, Typed
  <2>3. Holds(c)'
    BY <1>1, <1>2, <2>1, <2>2 DEF Holds, LegacyDiffers, Inv, OpInv
  <2>4. Knows(c)'
    BY <1>1, <2>1, <2>2 DEF Knows
  <2>5. steady[c] => report \in Reports /\ op[c].seen = report
    BY <1>1 DEF Inv, OpInv, Knows, Typed, Started
  <2>6. KnowsRun(c)'
    BY <1>1, <1>2, <1>4, <2>1, <2>2, <2>5 DEF KnowsRun, Cleared, Active
  <2>7. OpInv(c)' /\ calls' \in 0..MaxCalls
    BY <1>2, <2>3, <2>4, <2>6 DEF OpInv, Inv, Typed
  <2> QED BY <1>1, <1>2, <2>1, <2>2, <2>7, QuietStep
<1> QED BY <1>3, <1>4 DEF FindActive

LEMMA CreateInv == ASSUME Inv, NEW a \in Approvers, Create(a) PROVE Inv'
<1>1. /\ op[a].pc = "create" /\ op[a] \in Op /\ report \in Reports
      /\ Rank(op[a].ask) >= Rank(DecisionOf[report])
  BY DEF Create, At, DecisionStands, Inv, Typed, Started
<1>2. UNCHANGED <<stage, report, calls, sidecars, window, steady>>
  BY DEF Create, Environment
<1> DEFINE draft == [report |-> report, decision |-> op[a].ask]
           o == [op[a] EXCEPT !.pc = "link", !.seen = NoReport, !.draft = draft]
<1>3. draft \in Approval /\ draft # NoApproval /\ Unrelaxed(draft)
  BY <1>1, ReportsAssumption DEF Approval, Unrelaxed, Op
<1>4. /\ o \in Op /\ o.pc = "link" /\ o.draft = draft
      /\ o.out = op[a].out /\ o.ask = op[a].ask
  BY <1>1, <1>3 DEF Op, Steps
<1>5. Moves(a, o) /\ op'[a] = o
  BY <1>1, <1>2, <1>4 DEF Create, Moves, Inv, Typed
<1>6. Holds(a)'
  BY <1>1, <1>2, <1>3, <1>4, <1>5 DEF Holds, LegacyDiffers, Inv, OpInv, Unrelaxed
<1>7. Knows(a)'
  <2>1. report # NoReport
    BY DEF Create
  <2> QED BY <1>1, <1>2, <1>4, <1>5, <2>1 DEF Knows, Mine, Inv, OpInv
<1>8. KnowsRun(a)'
  BY <1>1, <1>2, <1>4, <1>5 DEF KnowsRun, Cleared, Started, Active, Inv, OpInv
<1>9. OpInv(a)' /\ calls' \in 0..MaxCalls
  BY <1>2, <1>6, <1>7, <1>8 DEF OpInv, Inv, Typed
<1> QED BY <1>1, <1>2, <1>4, <1>5, <1>9, QuietStep

LEMMA ReloadInv == ASSUME Inv, NEW w \in Requests, Reload(w) PROVE Inv'
<1>1. /\ w \in Approvers /\ op[w].pc = "reload" /\ op[w] \in Op
      /\ report \in Reports /\ report # NoReport
  BY DEF Approvers, Reload, At, Inv, Typed, Started
<1>2. UNCHANGED <<stage, report, calls, sidecars, window, steady>>
  BY DEF Reload, Environment
<1> DEFINE o == [op[w] EXCEPT !.pc = "lookup", !.seen = report]
<1>3. o \in Op /\ o.pc = "lookup" /\ o.seen = report /\ o.ask = op[w].ask
  BY <1>1 DEF Op, Steps
<1>4. Moves(w, o) /\ op'[w] = o
  BY <1>1, <1>2, <1>3 DEF Reload, Moves, Inv, Typed
<1>5. Holds(w)'
  BY <1>1, <1>2, <1>3, <1>4 DEF Holds
<1>6. Knows(w)'
  BY <1>1, <1>2, <1>3, <1>4 DEF Knows, Mine, BoundApproval, Matches, Inv, OpInv
<1>7. KnowsRun(w)'
  BY <1>3, <1>4 DEF KnowsRun, Cleared
<1>8. OpInv(w)' /\ calls' \in 0..MaxCalls
  BY <1>2, <1>5, <1>6, <1>7 DEF OpInv, Inv, Typed
<1> QED BY <1>1, <1>2, <1>3, <1>4, <1>8, QuietStep

LEMMA LookupInv == ASSUME Inv, NEW w \in Requests, Lookup(w) PROVE Inv'
<1>1. /\ w \in Approvers /\ op[w].pc = "lookup" /\ op[w] \in Op
      /\ op[w].seen \in Reports
  BY DEF Approvers, Lookup, At, Inv, Typed, OpInv, Holds, Op
<1>2. UNCHANGED <<stage, report, calls, sidecars, window, steady>>
  BY DEF Lookup, Environment
<1> DEFINE approval == BoundApproval(op[w].seen)
           o == [op[w] EXCEPT !.pc = "answered", !.draft = approval]
<1>3. approval # NoApproval
  BY DEF Lookup
<1>4. approval \in Approval \cup {NoApproval}
  BY <1>1 DEF BoundApproval, Inv, Typed, Paths
<1>5. o \in Op /\ o.pc = "answered" /\ o.draft = approval /\ o.ask = op[w].ask
  <2> HIDE DEF approval
  <2> QED BY <1>1, <1>4 DEF Op, Steps
<1>6. Moves(w, o) /\ op'[w] = o
  BY <1>1, <1>2, <1>5 DEF Lookup, Moves, Inv, Typed
<1>7. Holds(w)'
  BY <1>3, <1>5, <1>6 DEF Holds
<1>8. Knows(w)'
  BY <1>1, <1>2, <1>5, <1>6 DEF Knows, Mine, BoundApproval, Matches, Inv, OpInv
<1>9. KnowsRun(w)'
  BY <1>5, <1>6 DEF KnowsRun, Cleared
<1>10. OpInv(w)' /\ calls' \in 0..MaxCalls
  BY <1>2, <1>7, <1>8, <1>9 DEF OpInv, Inv, Typed
<1> QED BY <1>1, <1>2, <1>5, <1>6, <1>10, QuietStep

LEMMA StopInv == ASSUME Inv, NEW a \in Approvers, Stop(a) PROVE Inv'
BY EndsStep DEF Stop, At, Environment

-----------------------------------------------------------------------------
LEMMA ArriveInv == ASSUME Inv, NEW w \in Requests, Arrive(w) PROVE Inv'
<1>1. w \in Approvers /\ op[w].pc = "done" /\ op[w] \in Op /\ Allowed
  BY DEF Approvers, Arrive, At, Inv, Typed
<1>2. UNCHANGED <<stage, report, sidecars, steady>> /\ calls' \in 0..MaxCalls
  BY LimitAssumption DEF Arrive, Environment, Called, Inv, Typed
<1> DEFINE o == [op[w] EXCEPT !.pc = "token"]
<1>3. o \in Op /\ o.pc = "token"
  BY <1>1 DEF Op, Steps
<1>4. Moves(w, o) /\ op'[w] = o
  BY <1>1, <1>2, <1>3 DEF Arrive, Moves, Inv, Typed
<1>5. OpInv(w)'
  BY <1>3, <1>4 DEF OpInv, Holds, Knows, KnowsRun, Cleared
<1>6. /\ window' \in Window /\ (window'.state = "none" <=> window'.count = 0)
      /\ window'.count < Limit
  BY <1>1, LimitAssumption DEF Arrive, Allowed, NoWindow, Window, Inv, Typed
<1>7. Cardinality(InFlight') \in Nat /\ Cardinality(Requests) \in Nat
      /\ Cardinality(InFlight') <= Cardinality(Requests)
  BY FS_Subset, FS_CardinalityType, ApproversAssumption DEF InFlight
<1>8. LimiterInv'
  BY <1>6, <1>7, LimitAssumption DEF LimiterInv, Window
<1> QED BY <1>1, <1>2, <1>4, <1>5, <1>6, <1>8, OwnStep

\* A request whose token is checked leaves the set of those in flight.
LEMMA LandingFacts ==
  ASSUME Inv, NEW w \in Requests, op[w].pc = "token", NEW o, Moves(w, o), o.pc # "token"
  PROVE  /\ Cardinality(InFlight') = Cardinality(InFlight) - 1
         /\ Cardinality(InFlight') \in Nat /\ Cardinality(InFlight) \in Nat
         /\ Cardinality(Requests) \in Nat
         /\ Cardinality(InFlight') <= Cardinality(Requests) - 1
<1>1. w \in Approvers
  BY DEF Approvers
<1>2. op'[w] = o /\ \A b \in Approvers \ {w} : op'[b] = op[b]
  BY <1>1, MoveFacts DEF Inv
<1>3. InFlight' = InFlight \ {w} /\ w \in InFlight
  BY <1>2 DEF InFlight, Approvers
<1>4. Cardinality(InFlight \ {w}) = Cardinality(InFlight) - 1
      /\ Cardinality(InFlight \ {w}) \in Nat
  BY <1>3, Finite, FS_RemoveElement, FS_CardinalityType
<1> QED BY <1>3, <1>4, Finite

LEMMA TokenRefusedInv == ASSUME Inv, NEW w \in Requests, TokenRefused(w) PROVE Inv'
<1>1. w \in Approvers /\ op[w].pc = "token"
  BY DEF Approvers, TokenRefused, At
<1>2. /\ Moves(w, Resting("done")) /\ ~steady'[w] /\ Resting("done").pc = "done"
      /\ op'[w] = Resting("done")
  BY <1>1, EndsFacts, MoveFacts DEF TokenRefused, Inv
<1>3. OpInv(w)'
  BY <1>2 DEF OpInv, Holds, Knows, KnowsRun
<1>4. /\ window' \in Window /\ (window'.state = "none" <=> window'.count = 0)
      /\ window'.count <= window.count + 1 \/ window'.count = 1
      /\ window'.count \in Nat /\ window.count \in Nat
  BY DEF TokenRefused, AfterFailure, Window, Inv, Typed
<1>5. /\ Cardinality(InFlight') = Cardinality(InFlight) - 1
      /\ Cardinality(InFlight') \in Nat /\ Cardinality(InFlight) \in Nat
      /\ Cardinality(Requests) \in Nat
      /\ Cardinality(InFlight') <= Cardinality(Requests) - 1
  BY <1>1, <1>2, LandingFacts
<1>6. LimiterInv'
  BY <1>4, <1>5, LimitAssumption DEF LimiterInv, Inv
<1>7. UNCHANGED <<stage, report, sidecars>> /\ calls' \in 0..MaxCalls
  BY DEF TokenRefused, Environment, Inv, Typed
<1> QED BY <1>1, <1>2, <1>3, <1>4, <1>6, <1>7, OwnStep

LEMMA TokenAcceptedInv ==
  ASSUME Inv, NEW w \in Requests, NEW d \in Asked, TokenAccepted(w, d) PROVE Inv'
<1>1. w \in Approvers /\ op[w].pc = "token" /\ d \in Decisions
  BY ReportsAssumption DEF Approvers, TokenAccepted, At
<1>2. UNCHANGED <<stage, report, calls, sidecars, steady>>
  BY DEF TokenAccepted, Environment
<1> DEFINE o == [Resting("list") EXCEPT !.ask = d]
<1>3. Moves(w, o) /\ o.pc = "list"
  BY <1>1, <1>2 DEF TokenAccepted, Moves, Inv, Typed, Resting, Op, Steps, Paths
<1>4. op'[w] = o
  BY <1>1, <1>3, MoveFacts DEF Inv
<1>5. OpInv(w)'
  BY <1>3, <1>4 DEF OpInv, Holds, Knows, KnowsRun, Cleared
<1>6. /\ window' \in Window /\ (window'.state = "none" <=> window'.count = 0)
      /\ window'.count = 0
  BY DEF TokenAccepted, NoWindow, Window
<1>7. Cardinality(InFlight') \in Nat /\ Cardinality(Requests) \in Nat
      /\ Cardinality(InFlight') <= Cardinality(Requests) - 1
  BY <1>1, <1>3, LandingFacts
<1>8. LimiterInv'
  BY <1>6, <1>7, LimitAssumption DEF LimiterInv
<1>9. calls' \in 0..MaxCalls
  BY <1>2 DEF Inv, Typed
<1> QED BY <1>1, <1>2, <1>3, <1>5, <1>6, <1>8, <1>9, OwnStep

LEMMA WindowLapsesInv == Inv /\ WindowLapses => Inv'
<1> SUFFICES ASSUME Inv, WindowLapses PROVE Inv'
  OBVIOUS
<1>1. UNCHANGED <<stage, report, calls, sidecars, op, steady>>
  BY DEF WindowLapses, Environment
<1>2. /\ window' \in Window /\ (window'.state = "none" <=> window'.count = 0)
      /\ window'.count = window.count
  BY DEF WindowLapses, Window, Inv, Typed
<1>3. Typed'
  BY <1>1, <1>2 DEF Inv, Typed, Started
<1>4. SidecarInv' /\ LimiterInv'
  BY <1>1, <1>2 DEF Inv, SidecarInv, LegacyDiffers, Unrelaxed, LimiterInv, InFlight
<1>5. ASSUME NEW a \in Approvers PROVE OpInv(a)'
  BY <1>1 DEF Inv, OpInv, Holds, Knows, KnowsRun, LegacyDiffers, Unrelaxed, Mine,
              BoundApproval, Matches, Cleared, Active, Started
<1> QED BY <1>3, <1>4, <1>5 DEF Inv

-----------------------------------------------------------------------------
\* The runs move on: what an approver knows of the report's run stays true.
LEMMA StageStep ==
  ASSUME Inv, UNCHANGED <<report, calls, sidecars, op, window, steady>>,
         stage' \in [Reports -> {"unborn", "validating", "finalizing", "over"}],
         Started \subseteq Started', report # NoReport /\ Active(report)' => Active(report)
  PROVE  Inv'
<1>1. Typed'
  BY DEF Inv, Typed
<1>2. SidecarInv' /\ LimiterInv'
  BY DEF Inv, SidecarInv, LegacyDiffers, Unrelaxed, LimiterInv, InFlight
<1>3. Cardinality(Started') <= ListLimit => Cardinality(Started) <= ListLimit
  <2>1. IsFiniteSet(Started')
    BY FS_Subset, ReportsAssumption DEF Started
  <2>2. /\ Cardinality(Started) \in Nat /\ Cardinality(Started') \in Nat
        /\ Cardinality(Started) <= Cardinality(Started')
    BY <2>1, FS_Subset, FS_CardinalityType
  <2> QED BY <2>2, LimitAssumption
<1>4. ASSUME NEW a \in Approvers PROVE OpInv(a)'
  <2>1. Holds(a)' /\ Knows(a)'
    BY DEF Inv, OpInv, Holds, Knows, LegacyDiffers, Unrelaxed, Mine, BoundApproval, Matches
  <2>2. KnowsRun(a)'
    BY <1>3 DEF Inv, OpInv, KnowsRun, Cleared
  <2> QED BY <2>1, <2>2 DEF OpInv
<1> QED BY <1>1, <1>2, <1>4 DEF Inv

LEMMA StartRunInv == ASSUME Inv, NEW r \in Reports, StartRun(r) PROVE Inv'
<1>1. /\ stage' = [stage EXCEPT ![r] = "validating"] /\ stage[r] = "unborn"
      /\ stage \in [Reports -> {"unborn", "validating", "finalizing", "over"}]
      /\ report \in Started \cup {NoReport}
  BY DEF StartRun, Inv, Typed
<1>2. Started \subseteq Started'
  BY <1>1 DEF Started
<1>3. UNCHANGED <<report, calls, sidecars, op, window, steady>>
  BY DEF StartRun
<1>4. report # NoReport /\ Active(report)' => Active(report)
  BY <1>1, <1>3 DEF Started, Active
<1>5. stage' \in [Reports -> {"unborn", "validating", "finalizing", "over"}]
  BY <1>1
<1> QED BY <1>2, <1>3, <1>4, <1>5, StageStep

LEMMA UpdateRunInv == ASSUME Inv, NEW r \in Reports, UpdateRun(r) PROVE Inv'
<1>1. PICK s \in {"finalizing", "over"} : stage' = [stage EXCEPT ![r] = s]
  BY DEF UpdateRun
<1>2. /\ Active(r) /\ UNCHANGED <<report, calls, sidecars, op, window, steady>>
      /\ stage \in [Reports -> {"unborn", "validating", "finalizing", "over"}]
      /\ report \in Started \cup {NoReport}
  BY DEF UpdateRun, Inv, Typed
<1>3. Started \subseteq Started'
  BY <1>1, <1>2 DEF Started
<1>4. report # NoReport /\ Active(report)' => Active(report)
  BY <1>1, <1>2 DEF Started, Active
<1>5. stage' \in [Reports -> {"unborn", "validating", "finalizing", "over"}]
  BY <1>1, <1>2
<1> QED BY <1>2, <1>3, <1>4, <1>5, StageStep

\* A report that is replaced leaves no approver with knowledge.
LEMMA ReplaceReportInv == Inv /\ ReplaceReport => Inv'
<1> SUFFICES ASSUME Inv, ReplaceReport PROVE Inv'
  OBVIOUS
<1>1. /\ UNCHANGED <<stage, calls, sidecars, op, window>>
      /\ steady' = [a \in Approvers |-> FALSE]
      /\ report' \in Started \cup {NoReport}
  BY DEF ReplaceReport
<1>2. Typed'
  BY <1>1 DEF Inv, Typed, Started
<1>3. SidecarInv' /\ LimiterInv'
  BY <1>1 DEF Inv, SidecarInv, LegacyDiffers, Unrelaxed, LimiterInv, InFlight
<1>4. ASSUME NEW a \in Approvers PROVE OpInv(a)'
  <2>1. Holds(a)'
    BY <1>1 DEF Inv, OpInv, Holds, LegacyDiffers, Unrelaxed
  <2>2. ~steady'[a]
    BY <1>1
  <2>3. Knows(a)' /\ KnowsRun(a)'
    BY <2>2 DEF Knows, KnowsRun
  <2> QED BY <2>1, <2>3 DEF OpInv
<1> QED BY <1>2, <1>3, <1>4 DEF Inv

-----------------------------------------------------------------------------
\* What the writer of a sidecar leaves behind.
LEMMA LinkFacts ==
  ASSUME Inv, NEW a \in Approvers, Link(a)
  PROVE  /\ SidecarInv' /\ sidecars' \in [Paths -> Approval \cup {NoApproval}]
         /\ \A r \in Reports : LegacyDiffers(r) => LegacyDiffers(r)'
         /\ \A r \in Reports : BoundApproval(r) # NoApproval =>
              BoundApproval(r)' = BoundApproval(r)
         /\ steady[a] /\ a \in Requests => BoundApproval(report)' = Mine(a)
<1> DEFINE out == op[a].out
           draft == op[a].draft
<1>1. /\ sidecars' = [sidecars EXCEPT ![out] = draft] /\ sidecars[out] = NoApproval
      /\ sidecars \in [Paths -> Approval \cup {NoApproval}]
      /\ out \in Paths /\ draft \in Approval /\ draft # NoApproval /\ Unrelaxed(draft)
      /\ out \in Reports => LegacyDiffers(out)
      /\ "legacy" \in Paths /\ "legacy" \notin Reports /\ Reports \subseteq Paths
  BY ReportsAssumption DEF Link, Free, At, Inv, Typed, Op, OpInv, Holds, Paths
<1>2. steady[a] /\ a \in Requests =>
        /\ draft = Mine(a) /\ draft.report = report
        /\ out \in {"legacy", report} /\ report \in Reports
  BY DEF Link, At, Inv, OpInv, Knows, Mine, Typed, Started
<1>3. SidecarInv
  BY DEF Inv
<1> HIDE DEF out, draft
<1>4. \A path \in Paths : sidecars'[path] = IF path = out THEN draft ELSE sidecars[path]
  BY <1>1
<1>5. ASSUME NEW r \in Reports, LegacyDiffers(r) PROVE LegacyDiffers(r)'
  BY <1>1, <1>4, <1>5 DEF LegacyDiffers
<1>6. SidecarInv'
  <2>1. ASSUME NEW path \in Paths, sidecars'[path] # NoApproval
        PROVE  Unrelaxed(sidecars'[path])
    BY <1>1, <1>3, <1>4, <2>1 DEF SidecarInv
  <2>2. ASSUME NEW r \in Reports, sidecars'[r] # NoApproval PROVE LegacyDiffers(r)'
    <3>1. LegacyDiffers(r)
      BY <1>1, <1>3, <1>4, <2>2 DEF SidecarInv
    <3> QED BY <1>5, <3>1
  <2> QED BY <2>1, <2>2 DEF SidecarInv, Unrelaxed
<1>7. ASSUME NEW r \in Reports, BoundApproval(r) # NoApproval
      PROVE  BoundApproval(r)' = BoundApproval(r)
  <2>1. CASE Matches(sidecars[r], r)
    <3>1. r # out /\ sidecars'[r] = sidecars[r]
      BY <1>1, <1>4, <2>1 DEF Matches
    <3> QED BY <2>1, <3>1 DEF BoundApproval, Matches
  <2>2. CASE ~Matches(sidecars[r], r)
    <3>1. Matches(sidecars["legacy"], r)
      BY <1>7, <2>2 DEF BoundApproval
    <3>2. ~LegacyDiffers(r) /\ "legacy" # out
      BY <1>1, <3>1 DEF LegacyDiffers, Matches
    <3>3. r # out
      BY <1>1, <3>2
    <3>4. sidecars'[r] = sidecars[r] /\ sidecars'["legacy"] = sidecars["legacy"]
      BY <1>1, <1>4, <3>2, <3>3
    <3> QED BY <3>4 DEF BoundApproval, Matches
  <2> QED BY <2>1, <2>2
<1>8. ASSUME steady[a], a \in Requests PROVE BoundApproval(report)' = Mine(a)
  <2>1. report' = report
    BY DEF Link, Environment
  <2>2. CASE out = report
    <3>1. sidecars'[report] = draft
      BY <1>1, <1>2, <1>4, <1>8, <2>2
    <3> QED BY <1>1, <1>2, <1>8, <2>1, <3>1 DEF BoundApproval, Matches
  <2>3. CASE out = "legacy"
    <3>1. sidecars[report] = NoApproval
      BY <1>1, <1>2, <1>3, <1>8, <2>3 DEF SidecarInv, LegacyDiffers
    <3>2. sidecars'[report] = NoApproval /\ sidecars'["legacy"] = draft
      BY <1>1, <1>2, <1>4, <1>8, <2>3, <3>1
    <3> QED BY <1>1, <1>2, <1>8, <2>1, <3>2 DEF BoundApproval, Matches
  <2> QED BY <1>2, <1>8, <2>2, <2>3
<1>9. sidecars' \in [Paths -> Approval \cup {NoApproval}]
  BY <1>1
<1> QED BY <1>5, <1>6, <1>7, <1>8, <1>9

LEMMA LinkInv == ASSUME Inv, NEW a \in Approvers, Link(a) PROVE Inv'
<1>1. /\ op[a].pc = "link" /\ op[a] \in Op
      /\ UNCHANGED <<stage, report, calls, window>>
  BY DEF Link, At, Environment, Inv, Typed
<1>2. /\ SidecarInv' /\ sidecars' \in [Paths -> Approval \cup {NoApproval}]
      /\ \A r \in Reports : LegacyDiffers(r) => LegacyDiffers(r)'
      /\ \A r \in Reports : BoundApproval(r) # NoApproval =>
           BoundApproval(r)' = BoundApproval(r)
      /\ steady[a] /\ a \in Requests => BoundApproval(report)' = Mine(a)
  BY LinkFacts
<1> DEFINE Moved(o) == Moves(a, o) /\ op'[a] = o /\ o.pc # "token" /\ OpInv(a)'
<1>3. \E o : Moved(o)
  <2>1. CASE a \in Requests
    <3> DEFINE o == [op[a] EXCEPT !.pc = "reload"]
    <3>1. o \in Op /\ o.pc = "reload" /\ o.ask = op[a].ask
      BY <1>1 DEF Op, Steps
    <3>2. Moves(a, o) /\ op'[a] = o /\ UNCHANGED steady
      BY <1>1, <2>1, <3>1 DEF Link, Moves, Inv, Typed
    <3>3. Holds(a)'
      BY <3>1, <3>2 DEF Holds
    <3>4. Mine(a)' = Mine(a) /\ (steady[a] => report # NoReport)
      BY <1>1, <3>1, <3>2 DEF Mine, Inv, OpInv, Knows
    <3>5. Knows(a)'
      BY <1>1, <1>2, <2>1, <3>1, <3>2, <3>4 DEF Knows
    <3>6. KnowsRun(a)'
      BY <3>1, <3>2 DEF KnowsRun, Cleared
    <3>7. Moved(o)
      BY <3>1, <3>2, <3>3, <3>5, <3>6 DEF OpInv
    <3> QED BY <3>7
  <2>2. CASE a \notin Requests
    <3>1. Ends(a)
      BY <2>2 DEF Link
    <3>2. /\ Moves(a, Resting("done")) /\ ~steady'[a]
          /\ Resting("done").pc = "done"
      BY <3>1, EndsFacts DEF Inv
    <3>3. op'[a] = Resting("done")
      BY <3>2, MoveFacts DEF Inv
    <3>4. OpInv(a)'
      BY <3>2, <3>3 DEF OpInv, Holds, Knows, KnowsRun
    <3>5. Moved(Resting("done"))
      BY <3>2, <3>3, <3>4
    <3> QED BY <3>5
  <2> QED BY <2>1, <2>2
<1>4. PICK o : Moved(o)
  BY <1>3
<1>5. /\ op' \in [Approvers -> Op] /\ op'[a] = o
      /\ \A b \in Approvers \ {a} : op'[b] = op[b] /\ steady'[b] = steady[b]
  BY <1>4, MoveFacts DEF Inv
<1>6. Typed'
  BY <1>1, <1>2, <1>4, <1>5 DEF Inv, Typed, Moves, Started
<1>7. InFlight' = InFlight
  BY <1>1, <1>4, <1>5 DEF InFlight, Approvers
<1>8. LimiterInv'
  BY <1>1, <1>7 DEF Inv, LimiterInv
<1>9. ASSUME NEW b \in Approvers, b # a PROVE OpInv(b)'
  BY <1>1, <1>2, <1>5, <1>9, OthersKeep DEF Inv
<1> QED BY <1>2, <1>4, <1>6, <1>8, <1>9 DEF Inv

-----------------------------------------------------------------------------
LEMMA InitInv == Init => Inv
<1> SUFFICES ASSUME Init PROVE Inv
  OBVIOUS
<1>1. Typed
  <2>1. Resting("done") \in Op
    BY DEF Resting, Op, Steps, Decisions, Paths
  <2> QED BY <2>1, LimitAssumption DEF Init, Typed, Window, NoWindow
<1>2. SidecarInv
  BY DEF Init, SidecarInv, Paths
<1>3. LimiterInv
  <2>1. InFlight = {}
    BY DEF Init, InFlight, Resting, Approvers
  <2>2. Cardinality({}) = 0 /\ Cardinality(Requests) \in Nat
    BY FS_EmptySet, FS_CardinalityType, ApproversAssumption
  <2> QED BY <2>1, <2>2, LimitAssumption DEF Init, LimiterInv, NoWindow
<1>4. ASSUME NEW a \in Approvers PROVE OpInv(a)
  BY DEF Init, OpInv, Holds, Knows, KnowsRun, Resting
<1> QED BY <1>1, <1>2, <1>3, <1>4 DEF Inv

LEMMA StepInv == Inv /\ [Next]_vars => Inv'
<1> SUFFICES ASSUME Inv, [Next]_vars PROVE Inv'
  OBVIOUS
<1>1. ASSUME NEW r \in Reports, StartRun(r) \/ UpdateRun(r) PROVE Inv'
  BY <1>1, StartRunInv, UpdateRunInv
<1>2. ASSUME NEW c \in Confirms,
             (\E d \in Asked : Confirm(c, d)) \/ Load(c) \/ FindActive(c)
      PROVE  Inv'
  BY <1>2, ConfirmInv, LoadInv, FindActiveInv
<1>3. ASSUME NEW w \in Requests,
             Arrive(w) \/ TokenRefused(w) \/ (\E d \in Asked : TokenAccepted(w, d))
             \/ List(w) \/ Scan(w) \/ ReadBody(w) \/ Reload(w) \/ Lookup(w)
      PROVE  Inv'
  BY <1>3, ArriveInv, TokenRefusedInv, TokenAcceptedInv, ListInv, ScanInv,
     ReadBodyInv, ReloadInv, LookupInv
<1>4. ASSUME NEW a \in Approvers,
             Identify(a) \/ ChooseOutput(a) \/ Create(a) \/ Link(a) \/ Stop(a)
      PROVE  Inv'
  BY <1>4, IdentifyInv, ChooseOutputInv, CreateInv, LinkInv, StopInv
<1>5. CASE UNCHANGED vars
  <2>1. Typed' /\ SidecarInv' /\ LimiterInv'
    BY <1>5 DEF vars, Inv, Typed, Started, SidecarInv, LegacyDiffers, Unrelaxed,
                LimiterInv, InFlight
  <2>2. ASSUME NEW a \in Approvers PROVE OpInv(a)'
    BY <1>5 DEF vars, Inv, OpInv, Holds, Knows, KnowsRun, LegacyDiffers, Unrelaxed,
                Mine, BoundApproval, Matches, Cleared, Active, Started
  <2> QED BY <2>1, <2>2 DEF Inv
<1> QED BY <1>1, <1>2, <1>3, <1>4, <1>5, ReplaceReportInv, WindowLapsesInv DEF Next

\* The invariant that the theorems below rest on.
THEOREM Invariant == Spec => []Inv
BY InitInv, StepInv, PTL DEF Spec

-----------------------------------------------------------------------------
\* TypeOK for any instance: whoever links or is answered has an approval.
THEOREM TypeCorrect == Spec => []TypeOK
<1>1. Inv => TypeOK
  <2> SUFFICES ASSUME Inv PROVE TypeOK
    OBVIOUS
  <2>1. report \in Reports \cup {NoReport}
    BY DEF Inv, Typed, Started
  <2>2. ASSUME NEW a \in Approvers
        PROVE  /\ op[a].pc \in Steps
               /\ op[a].out \in Paths
               /\ op[a].draft \in Approval \cup {NoApproval}
               /\ op[a].pc \in {"link", "answered"} => op[a].draft # NoApproval
    BY DEF Inv, Typed, Op, OpInv, Holds
  <2> QED BY <2>1, <2>2 DEF TypeOK, Inv, Typed
<1> QED BY <1>1, Invariant, PTL

\* NeverRelaxed: no sidecar relaxes the decision of its report, whichever way
\* the report changes between the reads of an approver.
THEOREM NotRelaxed == Spec => []NeverRelaxed
<1>1. Inv => NeverRelaxed
  BY DEF Inv, SidecarInv, Unrelaxed, NeverRelaxed
<1> QED BY <1>1, Invariant, PTL

\* AttemptsBounded: requests that pass Allow together try no more tokens than
\* the limit and one for each of the others.
THEOREM BoundedAttempts == Spec => []AttemptsBounded
<1>1. Inv => AttemptsBounded
  <2> SUFFICES ASSUME Inv PROVE AttemptsBounded
    OBVIOUS
  <2>1. window.count \in Nat
    BY DEF Inv, Typed, Window
  <2> QED BY <2>1, Finite, LimitAssumption DEF Inv, LimiterInv, AttemptsBounded
<1> QED BY <1>1, Invariant, PTL

\* AnswerIsOwn: the request that is answered has its own decision on disk.
THEOREM OwnAnswers == Spec => []AnswerIsOwn
<1>1. Inv => AnswerIsOwn
  BY DEF Inv, OpInv, Knows, Mine, AnswerIsOwn, At, Approvers
<1> QED BY <1>1, Invariant, PTL

\* Only Link writes a sidecar.
LEMMA OnlyLinkWrites ==
  ASSUME Inv, Next PROVE UNCHANGED sidecars \/ \E a \in Approvers : Link(a)
BY DEF Next, StartRun, UpdateRun, ReplaceReport, WindowLapses, Confirm, Load, FindActive,
       Arrive, TokenRefused, TokenAccepted, List, Scan, ReadBody, Reload, Lookup,
       Identify, ChooseOutput, Create, Stop

\* AnswerStable: an approval that LoadBoundApproval finds stays the one that it
\* finds.
THEOREM AnswersStay == Spec => AnswerStable
<1>1. Inv /\ [Next]_vars =>
        [sidecars' # sidecars =>
           \A r \in Reports :
             BoundApproval(r) # NoApproval => BoundApproval(r)' = BoundApproval(r)]_vars
  BY LinkFacts, OnlyLinkWrites
<1> QED BY <1>1, Invariant, PTL DEF Spec, AnswerStable

\* ApprovedRunIsOver: the run of an approved report had come to its end.
THEOREM OnlyFinishedRuns == Spec => ApprovedRunIsOver
<1> DEFINE A == \A a \in Approvers :
       ApprovesSteadily(a) /\ (a \in Requests => Cardinality(Started) <= ListLimit) =>
         stage[op[a].draft.report] = "over"
<1>1. Inv /\ [Next]_vars => [A]_vars
  <2> SUFFICES ASSUME Inv, Next, NEW a \in Approvers, ApprovesSteadily(a),
                      a \in Requests => Cardinality(Started) <= ListLimit
               PROVE  stage[op[a].draft.report] = "over"
    OBVIOUS
  <2>1. At(a, "link") /\ steady[a]
    BY DEF ApprovesSteadily
  <2>2. report \in Started /\ op[a].draft.report = report
    <3>1. report # NoReport /\ op[a].draft = Mine(a) /\ report \in Started \cup {NoReport}
      BY <2>1 DEF At, Inv, OpInv, Knows, Typed
    <3> QED BY <3>1 DEF Mine
  <2>3. ~Active(report)
    BY <2>1, <2>2 DEF At, Inv, OpInv, Knows, KnowsRun, Cleared
  <2> QED BY <2>2, <2>3 DEF Active, Started, Inv, Typed
<1> QED BY <1>1, Invariant, PTL DEF Spec, ApprovedRunIsOver

-----------------------------------------------------------------------------
\* What approver a asks for, to the register.
Wants(a) == IF op[a].pc \in Asking THEN op[a].ask ELSE NoApproval

\* The approvers' steps as the register sees them: one moves, and either it has
\* not asked, or it does not any more, or it asks for the same.
LEMMA OneMoves ==
  ASSUME Inv, Inv', NEW a \in Approvers,
         \A b \in Approvers \ {a} : op'[b] = op[b],
         op'[a].ask = op[a].ask \/ op[a].pc \notin Asking \/ op'[a].pc \notin Asking,
         UNCHANGED sidecars
  PROVE  Register!Next \/ UNCHANGED Register!vars
<1> DEFINE asking == [b \in Approvers |-> Wants(b)]
           answer == [r \in Reports |-> BoundApproval(r)]
<1>1. answer' = answer
  BY DEF BoundApproval, Matches
<1>2. \A b \in Approvers \ {a} : Wants(b)' = Wants(b)
  BY DEF Wants
<1>3. Wants(a)' \in Decisions \cup {NoApproval}
  BY DEF Wants, Inv, Typed, Op
<1>4. CASE Wants(a)' = Wants(a)
  <2>1. asking' = asking
    BY <1>2, <1>4
  <2> QED BY <1>1, <2>1 DEF Register!vars, Wants
<1>5. CASE Wants(a)' = NoApproval
  <2>1. asking' = [asking EXCEPT ![a] = NoApproval]
    BY <1>2, <1>5
  <2>2. Register!Ends(a) /\ Register!Withdraw
    BY <1>1, <2>1 DEF Register!Ends, Register!Withdraw, Wants
  <2> QED BY <2>2 DEF Register!Next
<1>6. CASE Wants(a)' # Wants(a) /\ Wants(a)' # NoApproval
  <2>1. Wants(a) = NoApproval /\ Wants(a)' \in Decisions
    BY <1>3, <1>6 DEF Wants
  <2>2. PICK decision \in Decisions : Wants(a)' = decision
    BY <2>1
  <2>3. asking' = [asking EXCEPT ![a] = decision]
    BY <1>2, <2>2
  <2>4. Register!Ask(a, decision)
    BY <1>1, <2>1, <2>3 DEF Register!Ask, Wants
  <2> QED BY <2>4 DEF Register!Next
<1> QED BY <1>4, <1>5, <1>6

\* The runs, the report and the clock of the limiter.
LEMMA EnvironmentStep ==
  ASSUME (\E r \in Reports : StartRun(r) \/ UpdateRun(r)) \/ ReplaceReport \/ WindowLapses
         \/ UNCHANGED vars
  PROVE  UNCHANGED Register!vars
<1>1. UNCHANGED <<sidecars, op>>
  BY DEF StartRun, UpdateRun, ReplaceReport, WindowLapses, vars
<1> QED BY <1>1 DEF Register!vars, BoundApproval, Matches

\* The steps of an approver before and after its sidecar.
LEMMA ReadingStep ==
  ASSUME Inv, Inv', NEW a \in Approvers,
         \/ (\E d \in Asked : Confirm(a, d)) \/ Load(a) \/ FindActive(a)
         \/ Arrive(a) \/ TokenRefused(a) \/ (\E d \in Asked : TokenAccepted(a, d))
         \/ List(a) \/ Scan(a) \/ ReadBody(a) \/ Reload(a) \/ Lookup(a)
         \/ Identify(a) \/ ChooseOutput(a) \/ Create(a) \/ Stop(a)
  PROVE  Register!Next \/ UNCHANGED Register!vars
<1>1. op \in [Approvers -> Op] /\ op[a] \in Op
  BY DEF Inv, Typed
<1>2. UNCHANGED sidecars /\ \A b \in Approvers \ {a} : op'[b] = op[b]
  BY <1>1 DEF Confirm, Load, FindActive, Arrive, TokenRefused, TokenAccepted, List, Scan,
     ReadBody, Reload, Lookup, Identify, ChooseOutput, Create, Stop, Ends
<1>3. CASE \/ (\E d \in Asked : Confirm(a, d)) \/ Arrive(a)
           \/ (\E d \in Asked : TokenAccepted(a, d)) \/ Reload(a) \/ Lookup(a)
  <2>1. op[a].pc \notin Asking
    BY <1>3 DEF Asking, Confirm, Arrive, TokenAccepted, Reload, Lookup, At
  <2> QED BY <1>2, <2>1, OneMoves
<1>4. CASE Ends(a)
  <2>1. op'[a].pc \notin Asking
    BY <1>1, <1>4 DEF Ends, Resting, Asking
  <2> QED BY <1>2, <2>1, OneMoves
<1>5. CASE ~Ends(a) /\ (Load(a) \/ FindActive(a) \/ List(a) \/ Scan(a) \/ ReadBody(a)
                       \/ Identify(a) \/ ChooseOutput(a) \/ Create(a))
  <2>1. op'[a].ask = op[a].ask
    BY <1>1, <1>5 DEF Op, Load, FindActive, List, Scan, ReadBody, Identify, ChooseOutput, Create
  <2> QED BY <1>2, <2>1, OneMoves
<1> QED BY <1>3, <1>4, <1>5 DEF TokenRefused, Stop

\* A sidecar answers the report that it names and no other, and only if that
\* had no answer.
LEMMA LinkStep ==
  ASSUME Inv, NEW a \in Approvers, Link(a) PROVE Register!Next
<1> DEFINE asking == [b \in Approvers |-> Wants(b)]
           answer == [r \in Reports |-> BoundApproval(r)]
<1>1. PICK draft \in Approval, of \in Reports, out \in Paths :
        /\ sidecars' = [sidecars EXCEPT ![out] = draft] /\ sidecars[out] = NoApproval
        /\ draft # NoApproval /\ draft = [report |-> of, decision |-> op[a].ask]
        /\ op[a].ask \in Permitted[of]
  <2>1. /\ op[a].draft \in Approval /\ op[a].draft # NoApproval /\ op[a].out \in Paths
        /\ op[a].draft = [report |-> op[a].draft.report, decision |-> op[a].ask]
        /\ op[a].ask \in Permitted[op[a].draft.report]
    BY DEF Link, At, Inv, Typed, Op, OpInv, Holds, Approval, Permitted, Unrelaxed
  <2> QED BY <2>1 DEF Link, Free, Approval
<1>2. Wants(a) = op[a].ask /\ asking' = [asking EXCEPT ![a] = NoApproval]
  <2>1. Wants(a) = op[a].ask
    BY DEF Wants, Link, At, Asking
  <2>2. op \in [Approvers -> Op] /\ op[a] \in Op
    BY DEF Inv, Typed
  <2>3. op'[a].pc \notin Asking /\ \A b \in Approvers \ {a} : op'[b] = op[b]
    BY <2>2 DEF Link, Ends, Resting, Asking, Op
  <2>4. Wants(a)' = NoApproval /\ \A b \in Approvers \ {a} : Wants(b)' = Wants(b)
    BY <2>3 DEF Wants
  <2> QED BY <2>1, <2>4
<1>3. /\ \A path \in Paths : sidecars'[path] = IF path = out THEN draft ELSE sidecars[path]
      /\ "legacy" \in Paths /\ "legacy" \notin Reports /\ Reports \subseteq Paths
  BY <1>1, ReportsAssumption DEF Inv, Typed, Paths
<1>4. ASSUME NEW r \in Reports, r # of PROVE BoundApproval(r)' = BoundApproval(r)
  BY <1>1, <1>3, <1>4 DEF BoundApproval, Matches
<1>5. CASE BoundApproval(of)' = BoundApproval(of)
  <2>1. answer' = answer
    BY <1>4, <1>5
  <2>2. Register!Ends(a) /\ Register!Withdraw
    BY <1>2, <2>1 DEF Register!Ends, Register!Withdraw, Wants
  <2> QED BY <2>2 DEF Register!Next
<1>6. CASE BoundApproval(of)' # BoundApproval(of)
  <2>1. BoundApproval(of) = NoApproval
    BY <1>1, <1>6, LinkFacts
  <2>2. BoundApproval(of)' = draft
    BY <1>1, <1>3, <1>6, <2>1 DEF BoundApproval, Matches
  <2>3. answer' = [answer EXCEPT ![of] = [report |-> of, decision |-> Wants(a)]]
    BY <1>1, <1>2, <1>4, <2>2
  <2>4. Register!Ends(a) /\ Register!Record(a, of)
    BY <1>1, <1>2, <2>1, <2>3 DEF Register!Ends, Register!Record, Wants
  <2> QED BY <1>1, <2>4 DEF Register!Next
<1> QED BY <1>5, <1>6

\* Approvals implements the register: whatever approvers read and whenever the
\* report is replaced, a decision is recorded once, at one moment, for one
\* request.
THEOREM Refinement == Spec => ImplementsRegister
<1>1. Init => Register!Init
  BY DEF Init, Register!Init, Resting, Asking, BoundApproval, Matches, Paths
<1>2. Inv /\ Inv' /\ [Next]_vars => [Register!Next]_(Register!vars)
  BY EnvironmentStep, ReadingStep, LinkStep DEF Next, Approvers
<1> QED BY <1>1, <1>2, Invariant, PTL DEF Spec, ImplementsRegister, Register!Spec
=============================================================================
