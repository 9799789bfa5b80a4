---------------------------- MODULE RunLifecycle ----------------------------
(***************************************************************************)
(* What a caller of internal/runstore may rely on, without SELECTs, SQL    *)
(* conditions or clocks: a run moves through its stages in order; a client *)
(* asks for a change of its report, which happens at one moment before it  *)
(* is answered, or not at all; and it only happens while that client holds *)
(* the run, or nobody does.  RunStore implements this.                     *)
(***************************************************************************)
CONSTANTS Runs, Clients, Reports, NoReport, None, Held

VARIABLES
  stage,   \* run id -> stage
  report,  \* run id -> the last saved report
  holder,  \* run id -> the client with execution rights, or None
  lapsed,  \* the runs whose holder may be displaced
  asking   \* the clients that wait for an answer

vars == <<stage, report, holder, lapsed, asking>>

Running == {"checking", "observing", "finalizing"}

After == [s \in Running |->
            CASE s = "checking"   -> {"checking", "observing", "finalizing"}
              [] s = "observing"  -> {"observing", "finalizing"}
              [] s = "finalizing" -> {"finalizing", "completed"}]

Init ==
  /\ stage  = [id \in Runs |-> "absent"]
  /\ report = [id \in Runs |-> NoReport]
  /\ holder = [id \in Runs |-> None]
  /\ lapsed = Runs
  /\ asking = {}

\* A run begins when no other run is in progress.
Begin(id) ==
  /\ stage[id] = "absent"
  /\ \A other \in Runs : stage[other] \notin Running
  /\ stage' = [stage EXCEPT ![id] = "checking"]
  /\ UNCHANGED <<report, holder, lapsed, asking>>

\* A holder is displaced by nobody before its right has lapsed; taking what
\* one holds already is a renewal.
Take(c, id) ==
  /\ stage[id] \in Running
  /\ holder[id] \in {c, None} \/ id \in lapsed
  /\ holder' = [holder EXCEPT ![id] = c]
  /\ lapsed' = lapsed \ {id}
  /\ UNCHANGED <<stage, report, asking>>

\* Time: any set of the rights may lapse together.  RunStore says when.
Lapse ==
  /\ \E gone \in SUBSET Runs : lapsed' = lapsed \cup gone
  /\ UNCHANGED <<stage, report, holder, asking>>

GiveUp(id) ==
  /\ stage[id] \in Running
  /\ holder' = [holder EXCEPT ![id] = None]
  /\ lapsed' = lapsed \cup {id}
  /\ UNCHANGED <<stage, report, asking>>

Ask(c) ==
  /\ asking' = asking \cup {c}
  /\ UNCHANGED <<stage, report, holder, lapsed>>

Refuse(c) ==
  /\ asking' = asking \ {c}
  /\ UNCHANGED <<stage, report, holder, lapsed>>

\* One save: the client that asked for it holds the run, or nobody does.
Save(c, id, to, r) ==
  /\ c \in asking /\ asking' = asking \ {c}
  /\ stage[id] \in Running
  /\ holder[id] \in {c, None}
  /\ to \in After[stage[id]]
  /\ stage'  = [stage EXCEPT ![id] = to]
  /\ report' = [report EXCEPT ![id] = r]
  /\ IF to = "completed"
     THEN /\ holder' = [holder EXCEPT ![id] = None]
          /\ lapsed' = lapsed \cup {id}
     ELSE UNCHANGED <<holder, lapsed>>

\* An operator closes a run in progress, whoever holds it; the report is a
\* HOLD, not necessarily of the last saved one.
Close(c, id, r) ==
  /\ c \in asking /\ asking' = asking \ {c}
  /\ stage[id] \in Running
  /\ stage'  = [stage EXCEPT ![id] = "abandoned"]
  /\ report' = [report EXCEPT ![id] = r]
  /\ holder' = [holder EXCEPT ![id] = None]
  /\ lapsed' = lapsed \cup {id}

Next ==
  \/ Lapse
  \/ \E id \in Runs : Begin(id) \/ GiveUp(id)
  \/ \E c \in Clients : Ask(c) \/ Refuse(c) \/ \E id \in Runs : Take(c, id)
  \/ \E c \in Clients, id \in Runs, to \in Running \cup {"completed"}, r \in Reports :
       Save(c, id, to, r)
  \/ \E c \in Clients, id \in Runs, r \in {Held[x] : x \in Reports \cup {NoReport}} :
       Close(c, id, r)

Spec == Init /\ [][Next]_vars
=============================================================================
