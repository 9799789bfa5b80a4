--------------------------- MODULE RunStoreProofs ---------------------------
(***************************************************************************)
(* Theorems about RunStore, for any number of runs and clients and any     *)
(* lease duration.  The safety invariants are not inductive alone: a       *)
(* pending UPDATE must be known to be one its SELECT allowed.              *)
(***************************************************************************)
EXTENDS RunStore, TLAPS

\* A write moves on from the stage it saw: an update to a stage that may
\* follow, an Abandon to "abandoned" with a report of Held.
MovesOn(w) ==
  \/ w.op = "update" /\ w.to \in Allowed(w.seen)
  \/ /\ w.op = "abandon" /\ w.to = "abandoned"
     /\ \E r \in Reports \cup {NoReport} : w.report = Held[r]

\* The write of client c is one its SELECT allowed, in the name of the client
\* or of nobody.
Pending(c) == MovesOn(call[c]) /\ call[c].as \in {c, None}

PendingAllowed == \A c \in Clients : ~Idle(c) => Pending(c)

\* A run without an owner has no expiry either: time changes nothing of it.
NoStrayExpiry == \A id \in Runs : rows[id].owner = None => rows[id].left = -1

IInv == /\ TypeOK /\ PendingAllowed
        /\ OneActive /\ LeaseOnlyOnActive /\ NoStrayExpiry

-----------------------------------------------------------------------------
\* The stages that may follow another are stages, and none follows a terminal
\* one (the `allowed` map of update).
LEMMA AllowedStages ==
  ASSUME NEW s
  PROVE  /\ Allowed(s) \subseteq ActiveStages \cup {"completed"}
         /\ Allowed(s) # {} => s \in ActiveStages
BY DEF Allowed, ActiveStages

\* The columns after an UPDATE are well typed.
LEMMA WrittenType ==
  ASSUME TypeOK, NEW c \in Clients, ~Idle(c)
  PROVE  /\ call[c] \in PendingWrite
         /\ call[c].id \in Runs
         /\ Written(call[c]) \in Row
<1>1. call[c] \in PendingWrite
  BY DEF TypeOK, Idle
<1>2. rows[call[c].id] \in Row
  BY <1>1 DEF TypeOK, PendingWrite
<1>3. call[c].to \in AllStages /\ call[c].report \in Reports
  BY <1>1 DEF PendingWrite
<1>4. Written(call[c]) \in Row
  BY <1>2, <1>3, TTLAssumption DEF Written, Row
<1> QED  BY <1>1, <1>4 DEF PendingWrite

\* The lease statements touch the lease columns alone.
LEMMA LeaseKeepsStage ==
  ASSUME TypeOK, NEW c \in Clients, NEW id \in Runs,
         AcquireLease(c, id) \/ RenewLease(c, id) \/ ReleaseLease(c, id)
  PROVE  \A other \in Runs : /\ rows'[other].stage = rows[other].stage
                             /\ rows'[other].report = rows[other].report
                             /\ other # id => rows'[other] = rows[other]
<1>0. rows \in [Runs -> Row] /\ rows[id] \in Row
  BY DEF TypeOK
<1>1. CASE AcquireLease(c, id)
  <2> DEFINE new == [rows[id] EXCEPT !.owner = c, !.left = TTL]
  <2>1. new.stage = rows[id].stage /\ new.report = rows[id].report
    BY <1>0 DEF Row
  <2>2. rows' = [rows EXCEPT ![id] = new]
    BY <1>1 DEF AcquireLease
  <2> HIDE DEF new
  <2> QED  BY <1>0, <2>1, <2>2
<1>2. CASE RenewLease(c, id)
  BY <1>0, <1>2 DEF RenewLease, Row
<1>3. CASE ReleaseLease(c, id)
  <2> DEFINE new == [rows[id] EXCEPT !.owner = None, !.left = -1]
  <2>1. new.stage = rows[id].stage /\ new.report = rows[id].report
    BY <1>0 DEF Row
  <2>2. rows' \in {rows, [rows EXCEPT ![id] = new]}
    BY <1>3 DEF ReleaseLease
  <2> HIDE DEF new
  <2> QED  BY <1>0, <2>1, <2>2
<1> QED  BY <1>1, <1>2, <1>3

\* Every step keeps the shape of rows and calls.
LEMMA TypeStep == TypeOK /\ [Next]_vars => TypeOK'
<1> SUFFICES ASSUME TypeOK, [Next]_vars PROVE TypeOK'
  OBVIOUS
<1> USE TTLAssumption
<1>1. CASE Tick
  <2>1. \A id \in Runs :
          [rows[id] EXCEPT !.left = IF @ < 0 THEN @ ELSE @ - 1] \in Row
    BY DEF TypeOK, Row
  <2> QED  BY <1>1, <2>1 DEF Tick, TypeOK
<1>2. ASSUME NEW id \in Runs, Create(id) PROVE TypeOK'
  BY <1>2 DEF Create, TypeOK, Row, AllStages, ActiveStages
<1>3. ASSUME NEW c \in Clients, NEW id \in Runs, AcquireLease(c, id) PROVE TypeOK'
  <2>1. rows[id] \in Row /\ TTL \in -1 .. TTL
    BY DEF TypeOK
  <2>2. [rows[id] EXCEPT !.owner = c, !.left = TTL] \in Row
    BY <2>1 DEF Row
  <2> QED  BY <1>3, <2>2 DEF AcquireLease, TypeOK
<1>4. ASSUME NEW c \in Clients, NEW id \in Runs, RenewLease(c, id) PROVE TypeOK'
  BY <1>4 DEF RenewLease, TypeOK, Row
<1>5. ASSUME NEW c \in Clients, NEW id \in Runs, ReleaseLease(c, id) PROVE TypeOK'
  <2>1. rows[id] \in Row /\ -1 \in -1 .. TTL
    BY DEF TypeOK
  <2>2. [rows[id] EXCEPT !.owner = None, !.left = -1] \in Row
    BY <2>1 DEF Row
  <2> QED  BY <1>5, <2>2 DEF ReleaseLease, TypeOK
<1>6. ASSUME NEW c \in Clients, NEW id \in Runs, AbandonRead(c, id) PROVE TypeOK'
  <2>1. rows[id] \in Row
    BY DEF TypeOK
  <2>2. CASE rows[id].stage \in ActiveStages
    <3>1. call'[c] = [op |-> "abandon", id |-> id, as |-> None,
                      to |-> "abandoned", report |-> Held[rows[id].report],
                      seen |-> rows[id].stage]
      BY <1>6, <2>2 DEF AbandonRead, Abandonable, TypeOK
    <3>2. Held[rows[id].report] \in Reports
      BY <2>1, HeldAssumption DEF Row
    <3>3. call'[c] \in PendingWrite
      BY <2>2, <3>1, <3>2 DEF PendingWrite, AllStages, TerminalStages
    <3> QED  BY <1>6, <3>3 DEF AbandonRead, Abandonable, TypeOK
  <2>3. CASE rows[id].stage \notin ActiveStages
    BY <1>6, <2>3 DEF AbandonRead, Abandonable, TypeOK, Result, Results
  <2> QED  BY <2>2, <2>3
<1>7. ASSUME NEW c \in Clients, NEW id \in Runs, NEW as \in {c, None},
             NEW to \in ActiveStages \cup {"completed"}, NEW report \in Reports,
             UpdateRead(c, id, as, to, report)
      PROVE  TypeOK'
  <2> DEFINE w == [op |-> "update", id |-> id, as |-> as, to |-> to,
                   report |-> report, seen |-> rows[id].stage]
  <2>1. CASE UpdateAccepted(id, as, to) /\ call' = [call EXCEPT ![c] = w]
    <3>1. rows[id].stage \in ActiveStages
      BY <2>1, AllowedStages DEF UpdateAccepted
    <3>2. to \in AllStages /\ as \in Clients \cup {None}
      BY DEF AllStages, TerminalStages
    <3>3. w \in PendingWrite
      BY <3>1, <3>2 DEF PendingWrite
    <3> HIDE DEF w
    <3> QED  BY <1>7, <2>1, <3>3 DEF UpdateRead, TypeOK
  <2>2. CASE call' = [call EXCEPT ![c] = Result("error")]
    BY <1>7, <2>2 DEF UpdateRead, TypeOK, Result, Results
  <2> QED  BY <1>7, <2>1, <2>2 DEF UpdateRead
<1>8. ASSUME NEW c \in Clients, WriteCommits(c) PROVE TypeOK'
  BY <1>8, WrittenType DEF WriteCommits, TypeOK, Result, Results
<1>9. ASSUME NEW c \in Clients, WriteMisses(c) \/ StatementFails(c) \/ Forget(c)
      PROVE  TypeOK'
  BY <1>9 DEF WriteMisses, StatementFails, Forget, TypeOK, Result, Results
<1>10. CASE UNCHANGED vars
  BY <1>10 DEF vars, TypeOK
<1> QED
  BY <1>1, <1>2, <1>3, <1>4, <1>5, <1>6, <1>7, <1>8, <1>9, <1>10 DEF Next

\* In every behaviour of the store, rows and calls are well typed.
THEOREM TypeCorrect == Spec => []TypeOK
<1>1. Init => TypeOK
  BY TTLAssumption DEF Init, TypeOK, NoRow, Row, AllStages, Result, Results
<1> QED  BY <1>1, TypeStep, PTL DEF Spec

-----------------------------------------------------------------------------
\* What a write that finds its row does to it: the row was at the stage the
\* call saw, and moves to a stage that may follow, or is abandoned.
LEMMA CommitMoves ==
  ASSUME TypeOK, PendingAllowed, NEW c \in Clients, WriteCommits(c)
  PROVE  /\ call[c].id \in Runs
         /\ rows[call[c].id].stage = call[c].seen
         /\ call[c].seen \in ActiveStages
         /\ MovesOn(call[c]) /\ call[c].as \in {c, None}
         /\ call[c].to \in Allowed(call[c].seen) \cup {"abandoned"}
         /\ rows' = [rows EXCEPT ![call[c].id] = Written(call[c])]
<1>1. call[c] \in PendingWrite
  BY WrittenType DEF WriteCommits
<1> QED  BY <1>1 DEF WriteCommits, WriteMatches, PendingWrite, PendingAllowed, Pending, MovesOn

\* A pending write stays one that was allowed: only a SELECT makes a new one.
LEMMA PendingStep == IInv /\ [Next]_vars => PendingAllowed'
<1> SUFFICES ASSUME IInv, [Next]_vars, NEW d \in Clients, ~Idle(d)'
             PROVE  Pending(d)'
  BY DEF PendingAllowed, Pending
<1>0. call \in [Clients -> Results \cup PendingWrite] /\ rows \in [Runs -> Row]
  BY DEF IInv, TypeOK
<1>1. ASSUME call'[d] = call[d] PROVE Pending(d)'
  BY <1>1 DEF IInv, PendingAllowed, Pending, MovesOn, Idle
<1>2. ASSUME NEW c \in Clients, NEW id \in Runs, AbandonRead(c, id)
      PROVE  Pending(d)'
  <2>1. CASE d = c /\ rows[id].stage \in ActiveStages
    <3>1. call'[d] = [op |-> "abandon", id |-> id, as |-> None,
                      to |-> "abandoned", report |-> Held[rows[id].report],
                      seen |-> rows[id].stage]
      BY <1>0, <1>2, <2>1 DEF AbandonRead, Abandonable
    <3>2. rows[id].report \in Reports \cup {NoReport}
      BY <1>0 DEF Row
    <3> QED  BY <3>1, <3>2 DEF Pending, MovesOn
  <2>2. CASE d = c /\ rows[id].stage \notin ActiveStages
    BY <1>0, <1>2, <2>2 DEF AbandonRead, Abandonable, Idle, Result, Results
  <2>3. CASE d # c
    BY <1>0, <1>1, <1>2, <2>3 DEF AbandonRead, Abandonable
  <2> QED  BY <2>1, <2>2, <2>3
<1>3. ASSUME NEW c \in Clients, NEW id \in Runs, NEW as \in {c, None},
             NEW to \in ActiveStages \cup {"completed"}, NEW report \in Reports,
             UpdateRead(c, id, as, to, report)
      PROVE  Pending(d)'
  <2> DEFINE w == [op |-> "update", id |-> id, as |-> as, to |-> to,
                   report |-> report, seen |-> rows[id].stage]
  <2>1. CASE d = c /\ UpdateAccepted(id, as, to) /\ call' = [call EXCEPT ![c] = w]
    <3>1. call'[d] = w
      BY <1>0, <2>1
    <3>2. to \in Allowed(rows[id].stage)
      BY <2>1 DEF UpdateAccepted
    <3>3. /\ call'[d].op = "update" /\ call'[d].as = as
          /\ call'[d].to = to /\ call'[d].seen = rows[id].stage
      BY <3>1
    <3> QED  BY <2>1, <3>2, <3>3 DEF Pending, MovesOn
  <2>2. CASE d = c /\ call' = [call EXCEPT ![c] = Result("error")]
    BY <1>0, <2>2 DEF Idle, Result, Results
  <2>3. CASE d # c
    BY <1>0, <1>1, <1>3, <2>3 DEF UpdateRead
  <2> QED  BY <1>3, <2>1, <2>2, <2>3 DEF UpdateRead
<1>4. ASSUME NEW c \in Clients,
             \/ WriteCommits(c) \/ WriteMisses(c) \/ StatementFails(c) \/ Forget(c)
      PROVE  Pending(d)'
  <2>1. CASE d = c
    BY <1>0, <1>4, <2>1 DEF WriteCommits, WriteMisses, StatementFails, Forget,
                            Idle, Result, Results
  <2>2. CASE d # c
    BY <1>0, <1>1, <1>4, <2>2 DEF WriteCommits, WriteMisses, StatementFails, Forget
  <2> QED  BY <2>1, <2>2
<1>5. ASSUME UNCHANGED call PROVE Pending(d)'
  BY <1>1, <1>5
<1>6. ASSUME Tick \/ (\E id \in Runs : Create(id)) \/ UNCHANGED vars
      PROVE  Pending(d)'
  BY <1>5, <1>6 DEF Tick, Create, vars
<1>7. ASSUME NEW c \in Clients, NEW id \in Runs,
             AcquireLease(c, id) \/ RenewLease(c, id) \/ ReleaseLease(c, id)
      PROVE  Pending(d)'
  BY <1>5, <1>7 DEF AcquireLease, RenewLease, ReleaseLease
<1> QED  BY <1>2, <1>3, <1>4, <1>6, <1>7 DEF Next

\* No step makes a second run of the plan active: Create needs that none is,
\* and a write only moves a run that is.
LEMMA OneActiveStep == IInv /\ [Next]_vars => OneActive'
<1> SUFFICES ASSUME IInv, [Next]_vars PROVE OneActive'
  OBVIOUS
<1>0. rows \in [Runs -> Row]
  BY DEF IInv, TypeOK
<1>1. ASSUME NEW id \in Runs, Create(id) PROVE OneActive'
  <2>1. Active' \subseteq {id}
    BY <1>0, <1>1 DEF Create, Insertable, Active
  <2> QED  BY <2>1 DEF OneActive
<1>2. ASSUME Active' \subseteq Active PROVE OneActive'
  BY <1>2 DEF IInv, OneActive
<1>3. ASSUME NEW c \in Clients, WriteCommits(c) PROVE Active' \subseteq Active
  <2>1. call[c].id \in Active
    BY <1>3, CommitMoves DEF Active, IInv
  <2>2. rows' = [rows EXCEPT ![call[c].id] = Written(call[c])]
    BY <1>3 DEF WriteCommits
  <2> QED  BY <1>0, <2>1, <2>2 DEF Active
<1>4. CASE Tick
  BY <1>0, <1>2, <1>4 DEF Tick, Active, Row
<1>5. ASSUME NEW c \in Clients, NEW id \in Runs,
             AcquireLease(c, id) \/ RenewLease(c, id) \/ ReleaseLease(c, id)
      PROVE  Active' \subseteq Active
  BY <1>5, LeaseKeepsStage DEF IInv, Active
<1>6. ASSUME UNCHANGED rows PROVE Active' \subseteq Active
  BY <1>6 DEF Active
<1> QED
  BY <1>1, <1>2, <1>3, <1>4, <1>5, <1>6
     DEF Next, vars, AbandonRead, UpdateRead, WriteMisses, StatementFails, Forget

\* No step takes the owner of a run and leaves its expiry.
LEMMA ExpiryStep == IInv /\ [Next]_vars => NoStrayExpiry'
<1> SUFFICES ASSUME IInv, [Next]_vars PROVE NoStrayExpiry'
  OBVIOUS
<1>0. rows \in [Runs -> Row] /\ NoStrayExpiry
  BY DEF IInv, TypeOK
<1>1. ASSUME NEW id \in Runs, Create(id) PROVE NoStrayExpiry'
  BY <1>0, <1>1 DEF Create, NoStrayExpiry, Row
<1>2. ASSUME NEW c \in Clients, WriteCommits(c) PROVE NoStrayExpiry'
  <2> DEFINE w == call[c]
  <2>1. w.id \in Runs /\ rows' = [rows EXCEPT ![w.id] = Written(w)]
    BY <1>2, CommitMoves DEF IInv
  <2>2. Written(w).owner = None => Written(w).left = -1
    BY <1>0, <2>1 DEF Written, NoStrayExpiry
  <2> HIDE DEF w
  <2> QED  BY <1>0, <2>1, <2>2 DEF NoStrayExpiry
<1>3. CASE Tick
  BY <1>0, <1>3 DEF Tick, NoStrayExpiry, Row
<1>4. ASSUME NEW c \in Clients, NEW id \in Runs,
             AcquireLease(c, id) \/ RenewLease(c, id) \/ ReleaseLease(c, id)
      PROVE  NoStrayExpiry'
  <2>1. None # c /\ rows[id] \in Row
    BY <1>0, NoneAssumption
  <2>2. CASE AcquireLease(c, id)
    <3>1. [rows[id] EXCEPT !.owner = c, !.left = TTL].owner # None
      BY <2>1 DEF Row
    <3> QED  BY <1>0, <2>2, <3>1 DEF AcquireLease, NoStrayExpiry
  <2>3. CASE RenewLease(c, id)
    BY <1>0, <2>1, <2>3 DEF RenewLease, Renewable, NoStrayExpiry, Row
  <2>4. CASE ReleaseLease(c, id)
    <3>1. [rows[id] EXCEPT !.owner = None, !.left = -1].left = -1
      BY <2>1 DEF Row
    <3> QED  BY <1>0, <2>4, <3>1 DEF ReleaseLease, NoStrayExpiry
  <2> QED  BY <1>4, <2>2, <2>3, <2>4
<1>5. ASSUME UNCHANGED rows PROVE NoStrayExpiry'
  BY <1>0, <1>5 DEF NoStrayExpiry
<1> QED
  BY <1>1, <1>2, <1>3, <1>4, <1>5
     DEF Next, vars, AbandonRead, UpdateRead, WriteMisses, StatementFails, Forget

\* No step leaves or puts a lease on a run that is not active.
LEMMA LeaseStep == IInv /\ [Next]_vars => LeaseOnlyOnActive'
<1> SUFFICES ASSUME IInv, [Next]_vars PROVE LeaseOnlyOnActive'
  OBVIOUS
<1>0. rows \in [Runs -> Row] /\ LeaseOnlyOnActive
  BY DEF IInv, TypeOK
<1>1. ASSUME NEW id \in Runs, Create(id) PROVE LeaseOnlyOnActive'
  BY <1>0, <1>1 DEF Create, Insertable, LeaseOnlyOnActive, Row, ActiveStages
<1>2. ASSUME NEW c \in Clients, WriteCommits(c) PROVE LeaseOnlyOnActive'
  <2> DEFINE w == call[c]
  <2>1. /\ w.id \in Runs
        /\ w.to \in ActiveStages \cup TerminalStages
        /\ rows' = [rows EXCEPT ![w.id] = Written(w)]
    BY <1>2, CommitMoves, AllowedStages DEF IInv, TerminalStages
  <2>2. Written(w).stage = w.to /\ (w.to \in TerminalStages => Written(w).owner = None)
    BY DEF Written
  <2> HIDE DEF w
  <2> QED  BY <1>0, <2>1, <2>2 DEF LeaseOnlyOnActive
<1>3. CASE Tick
  BY <1>0, <1>3 DEF Tick, LeaseOnlyOnActive, Row
<1>4. ASSUME NEW c \in Clients, NEW id \in Runs,
             AcquireLease(c, id) \/ RenewLease(c, id) \/ ReleaseLease(c, id)
      PROVE  LeaseOnlyOnActive'
  BY <1>0, <1>4 DEF AcquireLease, Leasable, RenewLease, Renewable, ReleaseLease,
                    LeaseOnlyOnActive, Row
<1>5. ASSUME UNCHANGED rows PROVE LeaseOnlyOnActive'
  BY <1>0, <1>5 DEF LeaseOnlyOnActive
<1> QED
  BY <1>1, <1>2, <1>3, <1>4, <1>5
     DEF Next, vars, AbandonRead, UpdateRead, WriteMisses, StatementFails, Forget

\* The inductive invariant holds in every behaviour of the store.
THEOREM Invariance == Spec => []IInv
<1>1. Init => IInv
  <2> SUFFICES ASSUME Init PROVE IInv
    OBVIOUS
  <2>1. TypeOK
    BY TTLAssumption DEF Init, TypeOK, NoRow, Row, AllStages, Result, Results
  <2>2. PendingAllowed
    BY DEF Init, PendingAllowed, Idle, Result, Results
  <2>3. OneActive /\ LeaseOnlyOnActive /\ NoStrayExpiry
    BY DEF Init, NoRow, OneActive, Active, ActiveStages, LeaseOnlyOnActive,
           NoStrayExpiry
  <2> QED  BY <2>1, <2>2, <2>3 DEF IInv
<1>2. IInv /\ [Next]_vars => IInv'
  BY TypeStep, PendingStep, OneActiveStep, LeaseStep, ExpiryStep DEF IInv
<1> QED  BY <1>1, <1>2, PTL DEF Spec

\* At most one run of a plan is active, for any number of processes that
\* look for one, create one, or write one at the same time.
THEOREM OneActiveHolds == Spec => []OneActive
BY Invariance, PTL DEF IInv

\* A finished run is never leased, whatever was pending when it finished.
THEOREM LeaseOnlyOnActiveHolds == Spec => []LeaseOnlyOnActive
BY Invariance, PTL DEF IInv

-----------------------------------------------------------------------------
\* Every step moves every run forward: a write only finds its row at the stage
\* its SELECT saw.
LEMMA ForwardStep ==
  ASSUME IInv, [Next]_vars, NEW id \in Runs
  PROVE  MovesForward(id)
<1>0. rows \in [Runs -> Row]
  BY DEF IInv, TypeOK
<1>1. ASSUME NEW new \in Runs, Create(new) PROVE MovesForward(id)
  BY <1>0, <1>1 DEF Create, Insertable, MovesForward, Row
<1>2. ASSUME NEW c \in Clients, WriteCommits(c) PROVE MovesForward(id)
  <2> DEFINE w == call[c]
  <2>1. /\ w.id \in Runs /\ rows[w.id].stage = w.seen /\ w.seen \in ActiveStages
        /\ w.to \in Allowed(w.seen) \cup {"abandoned"}
        /\ rows' = [rows EXCEPT ![w.id] = Written(w)]
    BY <1>2, CommitMoves DEF IInv
  <2>2. Written(w).stage = w.to
    BY DEF Written
  <2> HIDE DEF w
  <2> QED  BY <1>0, <2>1, <2>2 DEF MovesForward
<1>3. CASE Tick
  BY <1>0, <1>3 DEF Tick, MovesForward, Row
<1>4. ASSUME NEW c \in Clients, NEW x \in Runs,
             AcquireLease(c, x) \/ RenewLease(c, x) \/ ReleaseLease(c, x)
      PROVE  MovesForward(id)
  BY <1>4, LeaseKeepsStage DEF IInv, MovesForward
<1>5. ASSUME UNCHANGED rows PROVE MovesForward(id)
  BY <1>5 DEF MovesForward
<1> QED
  BY <1>1, <1>2, <1>3, <1>4, <1>5
     DEF Next, vars, AbandonRead, UpdateRead, WriteMisses, StatementFails, Forget

\* No step changes a finished run: it has no lease to touch and no stage that
\* a pending write saw.
LEMMA DecidedStep ==
  ASSUME IInv, [Next]_vars, NEW id \in Runs
  PROVE  KeepsDecided(id)
<1> SUFFICES ASSUME rows[id].stage \in TerminalStages PROVE rows'[id] = rows[id]
  BY DEF KeepsDecided
<1>0. /\ rows \in [Runs -> Row] /\ rows[id].stage \notin ActiveStages
      /\ rows[id].stage # "absent"
      /\ rows[id].owner = None /\ rows[id].left = -1
  BY DEF IInv, TypeOK, LeaseOnlyOnActive, NoStrayExpiry, TerminalStages, ActiveStages
<1>1. ASSUME NEW new \in Runs, Create(new) PROVE rows'[id] = rows[id]
  BY <1>0, <1>1 DEF Create, Insertable
<1>2. ASSUME NEW c \in Clients, WriteCommits(c) PROVE rows'[id] = rows[id]
  <2>1. rows[call[c].id].stage \in ActiveStages
    BY <1>2, CommitMoves DEF IInv
  <2> QED  BY <1>0, <1>2, <2>1 DEF WriteCommits
<1>3. CASE Tick
  <2>1. [rows[id] EXCEPT !.left = -1] = rows[id]
    BY <1>0 DEF Row
  <2> QED  BY <1>0, <1>3, <2>1 DEF Tick
<1>4. ASSUME NEW c \in Clients, NEW x \in Runs,
             AcquireLease(c, x) \/ RenewLease(c, x) \/ ReleaseLease(c, x)
      PROVE  rows'[id] = rows[id]
  <2>1. c # None
    BY NoneAssumption
  <2>2. x # id \/ ReleaseLease(c, x)
    BY <1>0, <1>4, <2>1 DEF AcquireLease, Leasable, RenewLease, Renewable
  <2>3. CASE x # id
    BY <1>4, <2>3, LeaseKeepsStage DEF IInv
  <2>4. CASE x = id /\ ReleaseLease(c, x)
    BY <1>0, <2>1, <2>4 DEF ReleaseLease
  <2> QED  BY <2>2, <2>3, <2>4
<1>5. ASSUME UNCHANGED rows PROVE rows'[id] = rows[id]
  BY <1>5
<1> QED
  BY <1>1, <1>2, <1>3, <1>4, <1>5
     DEF Next, vars, AbandonRead, UpdateRead, WriteMisses, StatementFails, Forget

\* In every behaviour, a write whose SELECT is stale never takes a run
\* backwards or past a stage.
THEOREM StageOrderHolds == Spec => StageOrder
<1>1. IInv /\ [Next]_vars => [\A id \in Runs : MovesForward(id)]_vars
  BY ForwardStep
<1> QED  BY <1>1, Invariance, PTL DEF Spec, StageOrder

\* In every behaviour, what is completed or abandoned is never changed.
THEOREM TerminalFinalHolds == Spec => TerminalFinal
<1>1. IInv /\ [Next]_vars => [\A id \in Runs : KeepsDecided(id)]_vars
  BY DecidedStep
<1> QED  BY <1>1, Invariance, PTL DEF Spec, TerminalFinal

-----------------------------------------------------------------------------
\* Who waits for an answer, after a step that changes one client's call.
LEMMA Answered ==
  ASSUME TypeOK, NEW c \in Clients, NEW now, call' = [call EXCEPT ![c] = now]
  PROVE  /\ now \in Results =>
              {x \in Clients : ~Idle(x)}' = {x \in Clients : ~Idle(x)} \ {c}
         /\ now \notin Results =>
              {x \in Clients : ~Idle(x)}' = {x \in Clients : ~Idle(x)} \cup {c}
BY DEF TypeOK, Idle

\* Each statement is a step of the abstract run, or none of it: a SELECT asks
\* at most, and a conditional UPDATE is a refusal, one save or one closing.
LEMMA LifecycleStep ==
  ASSUME IInv, [Next]_vars
  PROVE  [Lifecycle!Next]_Lifecycle!vars
<1> USE DEF Lifecycle!vars
<1>0. /\ rows \in [Runs -> Row] /\ LeaseOnlyOnActive /\ NoStrayExpiry
      /\ Lifecycle!Running = ActiveStages
  BY DEF IInv, TypeOK, Lifecycle!Running, ActiveStages
<1>1. CASE Tick
  <2>1. \A id \in Runs : /\ rows'[id].stage = rows[id].stage
                         /\ rows'[id].report = rows[id].report
                         /\ rows'[id].owner = rows[id].owner
                         /\ rows[id].left <= 0 => rows'[id].left <= 0
    BY <1>0, <1>1 DEF Tick, Row
  <2>2. Lifecycle!Lapse
    <3> DEFINE gone == {id \in Runs : rows'[id].left <= 0}
    <3>1. gone = {id \in Runs : rows[id].left <= 0} \cup gone
      BY <2>1
    <3>2. gone \in SUBSET Runs
      OBVIOUS
    <3> QED  BY <1>1, <2>1, <3>1, <3>2 DEF Tick, Idle, Lifecycle!Lapse
  <2> QED  BY <2>2 DEF Lifecycle!Next
<1>2. ASSUME NEW id \in Runs, Create(id) PROVE Lifecycle!Next
  <2>1. Lifecycle!Begin(id)
    BY <1>0, <1>2 DEF Create, Insertable, Active, Idle, Lifecycle!Begin, Row
  <2> QED  BY <2>1 DEF Lifecycle!Next
<1>3. ASSUME NEW c \in Clients, NEW id \in Runs, AcquireLease(c, id)
      PROVE  Lifecycle!Next
  <2> DEFINE new == [rows[id] EXCEPT !.owner = c, !.left = TTL]
  <2>1. /\ new.stage = rows[id].stage /\ new.report = rows[id].report
        /\ new.owner = c /\ ~(new.left <= 0)
    BY <1>0, TTLAssumption DEF Row
  <2>2. rows' = [rows EXCEPT ![id] = new]
    BY <1>3 DEF AcquireLease
  <2> HIDE DEF new
  <2>3. Lifecycle!Take(c, id)
    BY <1>0, <1>3, <2>1, <2>2 DEF AcquireLease, Leasable, Idle, Lifecycle!Take
  <2> QED  BY <2>3 DEF Lifecycle!Next
<1>4. ASSUME NEW c \in Clients, NEW id \in Runs, RenewLease(c, id)
      PROVE  Lifecycle!Next
  <2>1. Lifecycle!Take(c, id)
    BY <1>0, <1>4, TTLAssumption DEF RenewLease, Renewable, Idle, Lifecycle!Take, Row
  <2> QED  BY <2>1 DEF Lifecycle!Next
<1>5. ASSUME NEW c \in Clients, NEW id \in Runs, ReleaseLease(c, id)
      PROVE  [Lifecycle!Next]_Lifecycle!vars
  <2>1. CASE rows[id].owner = c
    <3> DEFINE new == [rows[id] EXCEPT !.owner = None, !.left = -1]
    <3>1. /\ new.stage = rows[id].stage /\ new.report = rows[id].report
          /\ new.owner = None /\ new.left <= 0
      BY <1>0 DEF Row
    <3>2. rows' = [rows EXCEPT ![id] = new]
      BY <1>5, <2>1 DEF ReleaseLease
    <3>3. rows[id].stage \in ActiveStages
      BY <1>0, <2>1, NoneAssumption DEF LeaseOnlyOnActive
    <3> HIDE DEF new
    <3>4. Lifecycle!GiveUp(id)
      BY <1>0, <1>5, <3>1, <3>2, <3>3 DEF ReleaseLease, Idle, Lifecycle!GiveUp
    <3> QED  BY <3>4 DEF Lifecycle!Next
  <2>2. CASE rows[id].owner # c
    BY <1>5, <2>2 DEF ReleaseLease, Idle
  <2> QED  BY <2>1, <2>2
<1>6. ASSUME NEW c \in Clients, WriteCommits(c) PROVE Lifecycle!Next
  <2>1. PICK w \in PendingWrite : w = call[c]
    BY <1>6, WrittenType DEF WriteCommits, IInv
  <2>2. /\ w.id \in Runs /\ w.report \in Reports
        /\ rows[w.id].stage = w.seen /\ w.seen \in ActiveStages
        /\ MovesOn(w) /\ w.as \in {c, None}
        /\ w.op = "update" => rows[w.id].owner = w.as
    BY <1>6, <2>1, CommitMoves DEF WriteCommits, WriteMatches, IInv, PendingWrite
  <2> DEFINE new == Written(w)
  <2>3. rows' = [rows EXCEPT ![w.id] = new]
    BY <1>6, <2>1 DEF WriteCommits
  <2>4. /\ new.stage = w.to /\ new.report = w.report
        /\ w.to \in TerminalStages => new.owner = None /\ new.left <= 0
        /\ w.to \notin TerminalStages => /\ new.owner = rows[w.id].owner
                                        /\ new.left = rows[w.id].left
    BY DEF Written
  <2>5. /\ c \in {x \in Clients : ~Idle(x)}
        /\ {x \in Clients : ~Idle(x)}' = {x \in Clients : ~Idle(x)} \ {c}
    BY <1>6, Answered DEF WriteCommits, Result, Results, IInv
  <2> HIDE DEF new
  <2>6. CASE w.op = "update" /\ w.to \in Allowed(w.seen)
    <3>1. w.to \in ActiveStages \cup {"completed"}
      BY <2>6, AllowedStages
    <3>2. w.to \in Lifecycle!After[rows[w.id].stage]
      BY <2>2, <2>6 DEF Lifecycle!After, Lifecycle!Running, Allowed, ActiveStages
    <3>3. w.to = "completed" <=> w.to \in TerminalStages
      BY <3>1 DEF ActiveStages, TerminalStages
    <3>4. Lifecycle!Save(c, w.id, w.to, w.report)
      BY <1>0, <2>2, <2>3, <2>4, <2>5, <2>6, <3>2, <3>3 DEF Lifecycle!Save
    <3> QED  BY <1>0, <2>2, <3>1, <3>4 DEF Lifecycle!Next
  <2>7. CASE w.op = "abandon" /\ w.to = "abandoned"
    <3>1. \E r \in Reports \cup {NoReport} : w.report = Held[r]
      BY <2>2, <2>7 DEF MovesOn
    <3>2. w.to \in TerminalStages
      BY <2>7 DEF TerminalStages
    <3>3. Lifecycle!Close(c, w.id, w.report)
      BY <1>0, <2>2, <2>3, <2>4, <2>5, <2>7, <3>2 DEF Lifecycle!Close
    <3> QED  BY <2>2, <3>1, <3>3 DEF Lifecycle!Next
  <2> QED  BY <2>2, <2>6, <2>7 DEF MovesOn
<1>7. ASSUME NEW c \in Clients, NEW now, UNCHANGED rows,
             call' = [call EXCEPT ![c] = now]
      PROVE  [Lifecycle!Next]_Lifecycle!vars
  <2>1. CASE now \in Results
    <3>1. Lifecycle!Refuse(c)
      BY <1>7, <2>1, Answered DEF Lifecycle!Refuse, IInv
    <3> QED  BY <3>1 DEF Lifecycle!Next
  <2>2. CASE now \notin Results
    <3>1. Lifecycle!Ask(c)
      BY <1>7, <2>2, Answered DEF Lifecycle!Ask, IInv
    <3> QED  BY <3>1 DEF Lifecycle!Next
  <2> QED  BY <2>1, <2>2
<1>8. ASSUME NEW c \in Clients, NEW id \in Runs, AbandonRead(c, id)
      PROVE  [Lifecycle!Next]_Lifecycle!vars
  BY <1>7, <1>8 DEF AbandonRead
<1>9. ASSUME NEW c \in Clients, NEW id \in Runs, NEW as, NEW to, NEW report,
             UpdateRead(c, id, as, to, report)
      PROVE  [Lifecycle!Next]_Lifecycle!vars
  BY <1>7, <1>9 DEF UpdateRead
<1>10. ASSUME NEW c \in Clients, WriteMisses(c) \/ StatementFails(c) \/ Forget(c)
       PROVE  [Lifecycle!Next]_Lifecycle!vars
  BY <1>7, <1>10 DEF WriteMisses, StatementFails, Forget
<1>11. CASE UNCHANGED vars
  BY <1>11 DEF vars, Idle
<1> QED
  BY <1>1, <1>2, <1>3, <1>4, <1>5, <1>6, <1>8, <1>9, <1>10, <1>11 DEF Next

\* The store implements the abstract run: a caller may read Save and Close as
\* atomic, although each is a SELECT, a pause and a conditional UPDATE.
THEOREM Refinement == Spec => ImplementsLifecycle
<1>1. Init => Lifecycle!Init
  BY DEF Init, NoRow, Idle, Result, Results, Lifecycle!Init
<1>2. IInv /\ [Next]_vars => [Lifecycle!Next]_Lifecycle!vars
  BY LifecycleStep
<1> QED
  BY <1>1, <1>2, Invariance, PTL DEF Spec, ImplementsLifecycle, Lifecycle!Spec
=============================================================================
