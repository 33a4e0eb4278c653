----------------------------- MODULE Approvals -----------------------------
(***************************************************************************)
(* The approvals table of the journal: a list in order of creation, to     *)
(* which the runtime appends requests and where the operator decides each  *)
(* pending one exactly once.                                               *)
(***************************************************************************)
EXTENDS Integers, Sequences

CONSTANTS
  Steps,   \* the steps that approvals are requested for
  Kinds    \* "tool_execution", "uncertain_outcome"

VARIABLE approvals   \* rows: [step, kind, status]

Decisions == {"approved", "rejected"}
Approval  == [step : Steps, kind : Kinds, status : Decisions \cup {"pending"}]

Init == approvals = <<>>

RequestApproval(s, kind) ==
  approvals' = Append(approvals, [step |-> s, kind |-> kind, status |-> "pending"])

DecideApproval(i, decision) ==
  /\ i \in DOMAIN approvals
  /\ approvals[i].status = "pending"
  /\ approvals' = [approvals EXCEPT ![i].status = decision]

\* list_approvals(step_id), narrowed to some kinds.
RequestsFor(s, kinds) ==
  {i \in DOMAIN approvals : approvals[i].step = s /\ approvals[i].kind \in kinds}

\* approvals[-1].status of that list; "none" when it is empty.
LastDecision(s, kinds) ==
  LET requests == RequestsFor(s, kinds) IN
  IF requests = {} THEN "none"
  ELSE approvals[CHOOSE i \in requests : \A j \in requests : j <= i].status

\* The first row, in order of creation, that is not approved; 0 when all are.
FirstUnapproved ==
  LET open == {i \in DOMAIN approvals : approvals[i].status # "approved"} IN
  IF open = {} THEN 0 ELSE CHOOSE i \in open : \A j \in open : i <= j

Pending == {i \in DOMAIN approvals : approvals[i].status = "pending"}
=============================================================================
