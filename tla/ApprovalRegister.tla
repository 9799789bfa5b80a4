-------------------------- MODULE ApprovalRegister --------------------------
(***************************************************************************)
(* What a release owner may rely on, without sidecars, digests or the      *)
(* order of reads: for each report a human decision is recorded at one     *)
(* moment, at the request of one approver whose request is then spent; it  *)
(* does not relax the report; and it stays.  Approvals implements this.    *)
(***************************************************************************)
CONSTANTS
  Reports, Approvers, Decisions, None,
  Permitted   \* report -> the decisions that do not relax its own

VARIABLES
  answer,     \* report -> the approval recorded for it, or None
  asking      \* approver -> the decision it asks for, or None

vars == <<answer, asking>>

Init ==
  /\ answer = [r \in Reports |-> None]
  /\ asking = [a \in Approvers |-> None]

Ask(a, decision) ==
  /\ asking[a] = None
  /\ asking' = [asking EXCEPT ![a] = decision]
  /\ UNCHANGED answer

\* A request ends once.
Ends(a) == asking' = [asking EXCEPT ![a] = None]

\* It is refused or fails, or leaves an approval that no reader of any report
\* takes for its own.
Withdraw == UNCHANGED answer

Record(a, r) ==
  /\ answer[r] = None
  /\ asking[a] \in Permitted[r]
  /\ answer' = [answer EXCEPT ![r] = [report |-> r, decision |-> asking[a]]]

Next ==
  \E a \in Approvers :
    \/ Ends(a) /\ (Withdraw \/ \E r \in Reports : Record(a, r))
    \/ \E decision \in Decisions : Ask(a, decision)

Spec == Init /\ [][Next]_vars
=============================================================================
