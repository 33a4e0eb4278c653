---------------------------- MODULE AgentRuntime ----------------------------
(***************************************************************************)
(* One run of AgentRuntime inside a daemon that may die at any moment.     *)
(*                                                                         *)
(* The runtime is a loop that reads the journal, decides, and writes: each *)
(* action below is one journal transaction with the reads and decisions    *)
(* that lead to it, so a crash can fall between any two transactions.  The *)
(* durable state is that of modules Journal, Ledger and Approvals, changed *)
(* only through their operations; pc, cur, todo and reply are the volatile *)
(* state of the asyncio task and are lost in a crash.                      *)
(*                                                                         *)
(* Other handlers run only while the task awaits a provider or a tool, or  *)
(* when no task exists.  The provider answers with any number of tool      *)
(* calls, the tools fail, take effect and die with the process, and the    *)
(* operator decides, resumes and cancels at will.  A file is written in a  *)
(* thread, which goes on when the task that awaits it is cancelled.        *)
(***************************************************************************)
EXTENDS Integers, Sequences, FiniteSets

CONSTANTS
  CallSafety,           \* safety class of each tool the provider may call
  Replies,              \* the sets of tools a reply may call; {} is a final answer
  NeedsApproval,        \* classes for which the approval policy asks
  MaxIterations,        \* RuntimeConfig.max_iterations
  NoProgressThreshold,  \* RuntimeConfig.no_progress_threshold
  LeaseSeconds,         \* RuntimeConfig.lease_seconds
  TokenLimit,           \* the run's token budget
  Usages,               \* tokens a provider reply may have used
  Patient,              \* operators leave a run alone until its leases have run out
  MaxTime,              \* bound on the clock
  MaxCrashes,           \* bound on crashes; hence on recoveries of one tool call
  MaxProviderCalls,     \* bound on provider calls
  None

ASSUME AgentRuntimeAssumption ==
  /\ CallSafety \in Seq({"read_only", "idempotent", "reconcilable", "opaque_side_effect"})
  /\ Replies \subseteq SUBSET DOMAIN CallSafety
  /\ MaxIterations \in Nat \ {0} /\ NoProgressThreshold \in Nat \ {0}
  /\ LeaseSeconds \in Nat \ {0}
  /\ MaxTime \in Nat /\ MaxCrashes \in Nat /\ MaxProviderCalls \in Nat
  /\ Usages \subseteq Nat /\ TokenLimit \in Nat \cup {None}
  /\ Patient \in BOOLEAN

----------------------------------------------------------------------------
(***************************************************************************)
(* Steps.  create_step derives a step's key from its kind and input, so a  *)
(* step is named by what it is for: the iteration, the attempt (model) or  *)
(* the called tool (tool), and for a retry how many recoveries it is away  *)
(* from the original call.  The calls of a reply are ordered by the number *)
(* of their tool, which stands for the call's index in the reply.          *)
(***************************************************************************)
Iterations == 0 .. MaxIterations - 1
CallIndex  == DOMAIN CallSafety
Depths     == 0 .. MaxCrashes

Step(kind, i, n, d) == [kind |-> kind, iter |-> i, n |-> n, depth |-> d]

ModelSteps == {Step("model", i, n, 0) : i \in Iterations, n \in 1 .. MaxIterations}
ToolSteps  == {Step("tool", i, n, d) : i \in Iterations, n \in CallIndex, d \in Depths}
ReconcileSteps == {[s EXCEPT !.kind = "reconcile"] : s \in ToolSteps}
Steps      == ModelSteps \cup ToolSteps \cup ReconcileSteps
ToolCalls  == Iterations \X CallIndex

NoStep          == Step("none", 0, 0, 0)
CallOf(s)       == <<s.iter, s.n>>
Original(c)     == Step("tool", c[1], c[2], 0)
Replacement(s)  == [s EXCEPT !.depth = @ + 1]     \* recovery_of = s
ReconcilerOf(s) == [s EXCEPT !.kind = "reconcile"]
ReconciledBy(s) == [s EXCEPT !.kind = "tool"]

Safety ==
  [s \in Steps |-> IF s.kind = "tool" THEN CallSafety[s.n] ELSE "read_only"]

\* iteration * 1000 (+ index, + 500 to reconcile, + 600 per recovery).
Sequence ==
  [s \in Steps |->
     1000 * s.iter + 600 * s.depth
       + (IF s.kind = "model" THEN 0 ELSE s.n)
       + (IF s.kind = "reconcile" THEN 500 ELSE 0)]

Run        == "run"
Worker     == "agent-runtime"
Result     == "result"
ReceiptKeys ==
  {<<purpose, s>> : purpose \in {"tool", "reconciled"}, s \in ToolSteps}
    \cup {<<"reconcile", s>> : s \in ReconcileSteps}

\* SQL NULL and Python's None are no name, no reply and no amount.
ASSUME NoneAssumption ==
  /\ None \notin {Run, Worker} /\ None \notin Steps /\ None \notin ReceiptKeys
  /\ None \notin Replies /\ None \notin Nat

Reservation == [tokens |-> 1]                     \* reservation_tokens
Limits      == [r \in {Run} |-> [tokens |-> TokenLimit]]
Actual(n)   == [tokens |-> n]

VARIABLES
  \* the journal
  runStatus, runKey, runIdentity, parentRun,
  stepStatus, leaseOwner, leaseExpires, attempts, receipts, stepReceipt, now,
  callStatus, callStep, resStatus, resRun, resAmount, resActual, reserved, used, overrun,
  approvals,
  toolCalls,   \* output of the committed model step of an iteration: its tool calls
  proven,      \* reconcile steps whose committed output proves the effect
  \* the world
  effects,     \* how often each tool call took effect
  writing,     \* calls whose file is still written in a thread when their task is gone
  \* the daemon
  pc,          \* where the run's task stands; "down" when there is no daemon
  cur,         \* the step it works on
  todo,        \* uncertain steps it has yet to handle
  reply,       \* the provider's reply, not yet committed: [calls, tokens]
  crashes

J == INSTANCE Journal WITH
       Runs <- {Run}, Workers <- {Worker}, Payloads <- {Result},
       RunKeys <- {}, Identities <- {Run}, StepRun <- [s \in Steps |-> Run]
L == INSTANCE Ledger WITH
       Runs <- {Run}, Calls <- 1 .. MaxProviderCalls, Reservations <- ModelSteps,
       Resources <- {"tokens"}, Limit <- Limits, Amounts <- {Reservation},
       Actuals <- {Actual(n) : n \in Usages \cup {0}}, Unlimited <- None
A == INSTANCE Approvals WITH Kinds <- {"tool_execution", "uncertain_outcome"}

journalVars ==
  <<runStatus, runKey, runIdentity, parentRun, stepStatus, leaseOwner, leaseExpires,
    attempts, receipts, stepReceipt, now>>
ledgerVars  ==
  <<callStatus, callStep, resStatus, resRun, resAmount, resActual, reserved, used, overrun>>
outputVars  == <<toolCalls, proven>>
localVars   == <<cur, todo, reply>>
vars == <<journalVars, ledgerVars, approvals, outputVars, effects, writing, pc, localVars, crashes>>

\* What each kind of action leaves alone.
OnlyTask    == UNCHANGED <<journalVars, ledgerVars, approvals, outputVars, effects, writing, crashes>>
OnlyJournal == UNCHANGED <<ledgerVars, approvals, outputVars, effects, writing, crashes>>
OnlyLedger  == UNCHANGED <<journalVars, approvals, outputVars, effects, writing, crashes>>

NoReply == [calls |-> {}, tokens |-> 0]

Init ==
  /\ J!Init /\ L!Init /\ A!Init
  /\ toolCalls = [i \in Iterations |-> None]
  /\ proven = {}
  /\ effects = [c \in ToolCalls |-> 0] /\ writing = {}
  /\ pc = "idle" /\ cur = NoStep /\ todo = {} /\ reply = NoReply
  /\ crashes = 0

----------------------------------------------------------------------------
(***************************************************************************)
(* What the runtime reads off the journal.                                 *)
(***************************************************************************)
Terminal == runStatus[Run] \in J!TerminalRun
Exists   == runStatus[Run] # "absent"

UncertainSteps == {s \in Steps : stepStatus[s] = "uncertain"}
HasActiveLease == \E s \in Steps : stepStatus[s] \in J!Held   \* expired or not
HasLiveLease   == HasActiveLease /\ J!ExpiredSteps # {s \in Steps : stepStatus[s] \in J!Held}
HasUncertainOpaqueStep == \E s \in UncertainSteps : Safety[s] = "opaque_side_effect"

\* ORDER BY sequence; no two uncertain steps share a sequence number.
Earliest(steps) == CHOOSE s \in steps : \A t \in steps : Sequence[s] <= Sequence[t]

ReconciledKey(s) == <<"reconciled", s>>
HasReceipt(s)    == receipts[ReconciledKey(s)] # J!NoReceipt

\* recorded_tool_output: through receipts and the lineage of recoveries.
Found(c) ==
  \E d \in Depths :
    LET s == [Original(c) EXCEPT !.depth = d] IN
    /\ stepStatus[s] = "committed" \/ HasReceipt(s)
    /\ \A e \in 0 .. d : stepStatus[[s EXCEPT !.depth = e]] # "absent"

Answered(i) == toolCalls[i] # None
Outputs(i)  == \A n \in toolCalls[i] : Found(<<i, n>>)

\* _reconstruct: iterations are taken in order while their outputs are there.
Complete(i)   == Answered(i) /\ toolCalls[i] # {} /\ Outputs(i)
NextIteration ==
  CHOOSE i \in 0 .. MaxIterations :
    /\ \A j \in 0 .. i - 1 : Complete(j)
    /\ i < MaxIterations => ~Complete(i)
HasFinalText  ==
  NextIteration < MaxIterations /\ Answered(NextIteration) /\ toolCalls[NextIteration] = {}

\* _has_repeated_tool_calls: the last sets of tool calls are all the same.
Repeated ==
  LET asked == {i \in Iterations : Answered(i) /\ toolCalls[i] # {}}
      last  == {i \in asked : Cardinality({j \in asked : j > i}) < NoProgressThreshold}
  IN  /\ Cardinality(asked) >= NoProgressThreshold
      /\ \A i, j \in last : toolCalls[i] = toolCalls[j]

AllKinds == {"tool_execution", "uncertain_outcome"}
\* Mutant: a call runs unless it was rejected.
NotRejected(s) ==
  Safety[s] \notin NeedsApproval \/ A!LastDecision(s, AllKinds) # "rejected"

Approved(s) ==
  Safety[s] \notin NeedsApproval \/ A!LastDecision(s, AllKinds) = "approved"

----------------------------------------------------------------------------
(***************************************************************************)
(* Moves of the task.                                                      *)
(***************************************************************************)
Goto(p)    == pc' = p /\ UNCHANGED localVars
WorkOn(p, s) == pc' = p /\ cur' = s /\ UNCHANGED <<todo, reply>>
Reset      == cur' = NoStep /\ todo' = {} /\ reply' = NoReply
Return     == pc' = "idle" /\ Reset

\* An operation of the journal that may find nothing to do.
Reclaim   == J!ReclaimExpiredLeases \/ (J!ExpiredSteps = {} /\ UNCHANGED journalVars)
Ensure(s) == J!CreateStep(s) \/ (J!StepExists(s) /\ UNCHANGED journalVars)
MarkUnless(statuses, target) ==
  IF runStatus[Run] \in statuses THEN UNCHANGED journalVars
  ELSE J!MarkRunStatus(Run, target)

\* _pause leaves a run that is not created or running as it is.
PauseRun == MarkUnless({"paused", "completed", "failed", "cancelled"}, "paused")

\* _refresh_lease succeeds; when it raises, the task ends (LeaseLost).
OwnsLease == stepStatus[cur] \in J!Held /\ J!OwnsLiveLease(cur, Worker)

----------------------------------------------------------------------------
(***************************************************************************)
(* execute, up to the loop: approvals, then uncertain steps.               *)
(***************************************************************************)
\* Mutant: only the start of the daemon reclaims leases.
ExecuteWithoutReclaim ==
  /\ pc = "execute"
  /\ IF Terminal THEN Return ELSE Goto("gate")
  /\ OnlyTask

Execute ==
  /\ pc = "execute"
  /\ IF Terminal THEN UNCHANGED journalVars /\ Return ELSE Reclaim /\ Goto("gate")
  /\ OnlyJournal

GatePending ==
  /\ pc = "gate"
  /\ A!FirstUnapproved # 0
  /\ approvals[A!FirstUnapproved].status = "pending"
  /\ PauseRun /\ Return
  /\ OnlyJournal

GateRejected ==
  /\ pc = "gate"
  /\ A!FirstUnapproved # 0
  /\ approvals[A!FirstUnapproved].status = "rejected"
  /\ LET s == approvals[A!FirstUnapproved].step IN
     IF stepStatus[s] \in {"ready", "uncertain"}
     THEN J!CancelStep(s, None) ELSE UNCHANGED journalVars
  /\ Goto("reject")
  /\ OnlyJournal

Reject ==
  /\ pc = "reject"
  /\ J!MarkRunStatus(Run, "cancelled") /\ Return
  /\ OnlyJournal

GatePassed ==
  /\ pc = "gate"
  /\ A!FirstUnapproved = 0
  /\ pc' = "uncertain" /\ todo' = UncertainSteps /\ UNCHANGED <<cur, reply>>
  /\ OnlyTask

\* Every uncertain step is dealt with: mark the run running, enter the loop.
Proceed ==
  /\ pc = "uncertain" /\ todo = {}
  /\ MarkUnless({"running"}, "running") /\ Goto("loop")
  /\ OnlyJournal

Handles(s) == pc = "uncertain" /\ todo # {} /\ s = Earliest(todo)
Handled    ==
  pc' = "uncertain" /\ todo' = todo \ {Earliest(todo)} /\ cur' = NoStep /\ UNCHANGED reply

\* A step that needs no more work: reconciled before, or its approved retry
\* has an outcome of its own.
SkipUncertain(s) ==
  /\ Handles(s)
  /\ IF Safety[s] = "reconcilable" THEN HasReceipt(s)
     ELSE /\ A!LastDecision(s, {"uncertain_outcome"}) = "approved"
          /\ stepStatus[Replacement(s)] \in {"committed", "uncertain"}
  /\ Handled /\ OnlyTask

StartReconcile(s) ==
  /\ Handles(s)
  /\ Safety[s] = "reconcilable" /\ ~HasReceipt(s)
  /\ Ensure(ReconcilerOf(s))
  /\ WorkOn(IF stepStatus[ReconcilerOf(s)] = "committed" THEN "verdict" ELSE "claim",
            ReconcilerOf(s))
  /\ OnlyJournal

AskAboutUncertain(s) ==
  /\ Handles(s)
  /\ Safety[s] # "reconcilable"
  /\ A!RequestsFor(s, {"uncertain_outcome"}) = {}
  /\ A!RequestApproval(s, "uncertain_outcome")
  /\ Goto("pause")
  /\ UNCHANGED <<journalVars, ledgerVars, outputVars, effects, writing, crashes>>

\* Mutant: a retry that was made before is not looked up.
RetryAgain(s) ==
  /\ Handles(s)
  /\ Safety[s] # "reconcilable"
  /\ A!LastDecision(s, {"uncertain_outcome"}) = "approved"
  /\ \E t \in {Replacement(s), Replacement(Replacement(s))} \cap Steps :
       Ensure(t) /\ WorkOn("claim", t)
  /\ OnlyJournal

RetryUncertain(s) ==
  /\ Handles(s)
  /\ Safety[s] # "reconcilable"
  /\ A!LastDecision(s, {"uncertain_outcome"}) = "approved"
  /\ stepStatus[Replacement(s)] \notin {"committed", "uncertain"}
  /\ Ensure(Replacement(s)) /\ WorkOn("claim", Replacement(s))
  /\ OnlyJournal

\* The reconciliation proved the effect: record the receipt of the original.
VerdictApplied ==
  /\ pc = "verdict" /\ cur \in proven
  /\ J!RecordReceipt(ReconciledBy(cur), ReconciledKey(ReconciledBy(cur)), Result)
  /\ Handled
  /\ OnlyJournal

VerdictNotApplied ==
  /\ pc = "verdict" /\ cur \notin proven
  /\ Ensure(Replacement(ReconciledBy(cur)))
  /\ WorkOn("approve", Replacement(ReconciledBy(cur)))
  /\ OnlyJournal

Pause ==
  /\ pc = "pause"
  /\ PauseRun /\ Return
  /\ OnlyJournal

----------------------------------------------------------------------------
(***************************************************************************)
(* The loop of execute: reconstruct, then a model call or a tool group.    *)
(***************************************************************************)
CompleteRun ==
  /\ pc = "loop" /\ HasFinalText
  /\ J!MarkRunStatus(Run, "completed") /\ Return
  /\ OnlyJournal

IterationLimit ==
  /\ pc = "loop" /\ NextIteration = MaxIterations
  /\ Goto("stop") /\ OnlyTask

ContinueGroup ==
  /\ pc = "loop" /\ ~HasFinalText
  /\ NextIteration < MaxIterations /\ Answered(NextIteration)
  /\ WorkOn("group", Original(<<NextIteration, 1>>)) /\ OnlyTask

\* _execute_model up to its claim: resume the open attempt or plan the next.
PlanModel ==
  /\ pc = "loop"
  /\ NextIteration < MaxIterations /\ ~Answered(NextIteration)
  /\ LET attempt(n) == Step("model", NextIteration, n, 0)
         failures   == Cardinality({n \in 1 .. MaxIterations : stepStatus[attempt(n)] = "failed"})
         open       == {n \in 1 .. MaxIterations :
                          stepStatus[attempt(n)] \in {"ready", "leased", "executing"}}
     IN  IF failures >= MaxIterations
         THEN UNCHANGED journalVars /\ Goto("stop")
         ELSE IF open # {}
         THEN UNCHANGED journalVars /\ \E n \in open : WorkOn("claim", attempt(n))
         ELSE Ensure(attempt(failures + 1)) /\ WorkOn("claim", attempt(failures + 1))
  /\ OnlyJournal

\* _execute_tool_group: on with the first call of the group not yet committed.
OpenCalls ==
  {n \in toolCalls[cur.iter] : stepStatus[Original(<<cur.iter, n>>)] # "committed"}

PlanTool ==
  /\ pc = "group"
  /\ \E n \in OpenCalls :
       /\ \A m \in OpenCalls : n <= m
       /\ Ensure(Original(<<cur.iter, n>>)) /\ WorkOn("approve", Original(<<cur.iter, n>>))
  /\ OnlyJournal

\* Every call is committed; a repeated set of calls ends the run.
GroupDone ==
  /\ pc = "group" /\ OpenCalls = {}
  /\ WorkOn(IF Repeated THEN "stop" ELSE "loop", NoStep)
  /\ OnlyTask

\* _approval_outcome of a tool step: the first time it is asked for, it is
\* requested.  A pending or rejected request never gets here (GateHolds).
AskApproval ==
  /\ pc = "approve"
  /\ Safety[cur] \in NeedsApproval /\ A!RequestsFor(cur, AllKinds) = {}
  /\ A!RequestApproval(cur, "tool_execution")
  /\ Goto("pause")
  /\ UNCHANGED <<journalVars, ledgerVars, outputVars, effects, writing, crashes>>

HasApproval ==
  /\ pc = "approve" /\ Approved(cur)
  /\ Goto("claim") /\ OnlyTask

----------------------------------------------------------------------------
(***************************************************************************)
(* _claim and mark_executing, for every kind of step.                      *)
(***************************************************************************)
\* claim_ready_step takes whatever step of the run is first; another one than
\* expected stays leased and a RuntimeError ends the task.
Claim(t) ==
  /\ pc = "claim" /\ stepStatus[cur] = "ready"
  /\ J!ClaimReadyStep(Worker, {Run}, t)
  /\ Goto(IF t = cur THEN "begin" ELSE "stop")
  /\ OnlyJournal

\* The step is not ready.  The model loop tries again, the group gives up and
\* leaves the run as it is, and the recovery paths pause the run.
ClaimNone ==
  /\ pc = "claim" /\ stepStatus[cur] # "ready"
  /\ CASE cur.kind = "model" -> Goto("loop") /\ UNCHANGED journalVars
       [] cur.kind = "tool" /\ cur.depth = 0 -> Return /\ UNCHANGED journalVars
       [] OTHER -> PauseRun /\ Return
  /\ OnlyJournal

Begin ==
  /\ pc = "begin"
  /\ J!MarkExecuting(cur, Worker)
  /\ Goto(IF cur.kind = "model" THEN "sweep" ELSE "work")
  /\ OnlyJournal

\* The lease is gone at a call that needs it; the exception ends the task.
LeaseLost ==
  /\ pc \in {"begin", "work", "worked", "settle", "commit", "refuse", "failstep"}
  /\ ~OwnsLease
  /\ Goto("stop") /\ OnlyTask

----------------------------------------------------------------------------
(***************************************************************************)
(* A model step: provider bookkeeping around the call.                     *)
(***************************************************************************)
StartedCalls == {c \in 1 .. MaxProviderCalls : callStatus[c] = "started" /\ callStep[c] = cur}

\* A call that an earlier attempt left open is written off, with a warning.
WriteOffCall(c) ==
  /\ pc = "sweep" /\ c \in StartedCalls
  /\ L!CompleteProviderCall(c, "uncertain")
  /\ Goto("sweep")
  /\ OnlyLedger

\* Mutant: calls that a dead attempt left open are not written off.
ReserveWithoutSweep ==
  /\ pc = "sweep"
  /\ \/ L!ReserveBudget(cur, Run, Reservation)
     \/ L!ReserveRepeats(cur, Run, Reservation) /\ UNCHANGED ledgerVars
  /\ Goto("call")
  /\ OnlyLedger

Reserve ==
  /\ pc = "sweep" /\ StartedCalls = {}
  /\ \/ L!ReserveBudget(cur, Run, Reservation) /\ Goto("call")
     \/ L!ReserveRepeats(cur, Run, Reservation) /\ UNCHANGED ledgerVars /\ Goto("call")
     \/ /\ resStatus[cur] = "absent" /\ ~L!Fits(Run, Reservation)
        /\ UNCHANGED ledgerVars /\ Goto("refuse")
  /\ OnlyLedger

\* BudgetExceededError: fail the step, then the run.
Refuse ==
  /\ pc = "refuse"
  /\ J!FailStep(cur, Worker) /\ Goto("stop")
  /\ OnlyJournal

\* start_provider_call under a fresh id, and the lease refresh before the wait.
StartCall(c) ==
  /\ pc = "call"
  /\ callStatus[c] = "absent" /\ \A b \in 1 .. c - 1 : callStatus[b] # "absent"
  /\ L!StartProviderCall(c, cur)
  /\ IF OwnsLease THEN J!Heartbeat(cur, Worker) /\ Goto("work")
     ELSE UNCHANGED journalVars /\ Goto("stop")
  /\ UNCHANGED <<approvals, outputVars, effects, writing, crashes>>

\* The reply arrives: refresh and complete_provider_call.
ProviderReplies(c, calls, tokens) ==
  /\ pc = "work" /\ cur.kind = "model" /\ OwnsLease
  /\ c \in StartedCalls
  /\ J!Heartbeat(cur, Worker)
  /\ L!CompleteProviderCall(c, "completed")
  /\ pc' = "settle" /\ reply' = [calls |-> calls, tokens |-> tokens] /\ UNCHANGED <<cur, todo>>
  /\ UNCHANGED <<approvals, outputVars, effects, writing, crashes>>

\* settle_budget, or its answer to a settled reservation; a different amount
\* raises JournalConflictError, which ends the task.
Settle(tokens, next) ==
  \/ L!SettleBudget(cur, Run, Actual(tokens)) /\ Goto(next)
  \/ L!SettleRepeats(cur, Run, Actual(tokens)) /\ UNCHANGED ledgerVars /\ Goto(next)
  \/ /\ resStatus[cur] = "settled" /\ resActual[cur] # Actual(tokens)
     /\ UNCHANGED ledgerVars /\ Goto("stop")

SettleReply ==
  /\ pc = "settle" /\ OwnsLease
  /\ J!Heartbeat(cur, Worker)
  /\ Settle(reply.tokens, "commit")
  /\ UNCHANGED <<approvals, outputVars, effects, writing, crashes>>

CommitModel ==
  /\ pc = "commit"
  /\ J!CommitStep(cur, Worker, None, None)
  /\ toolCalls' = [toolCalls EXCEPT ![cur.iter] = reply.calls]
  /\ pc' = "loop" /\ Reset
  /\ UNCHANGED <<ledgerVars, approvals, proven, effects, writing, crashes>>

\* Mutant: the record of a failed call is removed.
FailedCallForgotten(c) ==
  /\ pc = "work" /\ cur.kind = "model"
  /\ c \in StartedCalls
  /\ callStatus' = [callStatus EXCEPT ![c] = "absent"]
  /\ UNCHANGED <<callStep, resStatus, resRun, resAmount, resActual, reserved, used, overrun>>
  /\ Goto("settlefailed")
  /\ OnlyLedger

\* ProviderError or TimeoutError: three transactions, none needs the lease
\* before fail_step.
ProviderFails(c) ==
  /\ pc = "work" /\ cur.kind = "model"
  /\ c \in StartedCalls
  /\ L!CompleteProviderCall(c, "failed")
  /\ Goto("settlefailed")
  /\ OnlyLedger

SettleFailed ==
  /\ pc = "settlefailed"
  /\ Settle(0, "failstep")
  /\ OnlyLedger

\* Mutant: the failed step is made ready again and keeps its lease.
FailedModelReady ==
  /\ pc = "failstep" /\ OwnsLease
  /\ stepStatus' = [stepStatus EXCEPT ![cur] = "ready"]
  /\ UNCHANGED <<runStatus, runKey, runIdentity, parentRun, leaseOwner, leaseExpires,
                 attempts, receipts, stepReceipt, now>>
  /\ pc' = "loop" /\ Reset
  /\ OnlyJournal

FailModel ==
  /\ pc = "failstep"
  /\ J!FailStep(cur, Worker)
  /\ pc' = "loop" /\ Reset
  /\ OnlyJournal

----------------------------------------------------------------------------
(***************************************************************************)
(* A tool or reconcile step.                                               *)
(***************************************************************************)
\* The tool takes effect; the daemon does not know yet.
TakeEffect ==
  /\ pc = "work" /\ cur.kind = "tool" /\ Safety[cur] # "read_only"
  /\ effects' = [effects EXCEPT ![CallOf(cur)] = @ + 1]
  /\ Goto("worked")
  /\ UNCHANGED <<journalVars, ledgerVars, approvals, outputVars, writing, crashes>>

ToolReturned ==
  /\ cur.kind = "tool"
  /\ IF Safety[cur] = "read_only" THEN pc = "work" ELSE pc = "worked"

\* Refresh and commit_step; only the receipts of reconcilable tools are kept.
\* Then on with the group, or with the next uncertain step.
CommitTool ==
  /\ ToolReturned
  /\ J!CommitStep(cur, Worker,
                  IF Safety[cur] = "reconcilable" THEN <<"tool", cur>> ELSE None, Result)
  /\ IF cur.depth = 0 THEN Goto("group") ELSE Handled
  /\ OnlyJournal

\* The tool raises, before or after its effect: fail_step, then the run fails.
ToolRaises ==
  /\ pc \in {"work", "worked"} /\ cur.kind # "model"
  /\ J!FailStep(cur, Worker)
  /\ Goto("stop")
  /\ OnlyJournal

\* Mutant: an answer that proves the effect is not recognised.
ProofNotRecognised ==
  /\ pc = "work" /\ cur.kind = "reconcile"
  /\ J!CommitStep(cur, Worker, <<"reconcile", cur>>, Result)
  /\ Goto("verdict")
  /\ OnlyJournal

\* reconcile reads the world, and its answer is committed with a receipt.
CommitReconcile ==
  /\ pc = "work" /\ cur.kind = "reconcile"
  /\ J!CommitStep(cur, Worker, <<"reconcile", cur>>, Result)
  /\ proven' = IF effects[CallOf(cur)] > 0 THEN proven \cup {cur} ELSE proven
  /\ Goto("verdict")
  /\ UNCHANGED <<ledgerVars, approvals, toolCalls, effects, writing, crashes>>

\* _stop_failed, or the service marking a run failed whose task raised.
Stop ==
  /\ pc = "stop"
  /\ MarkUnless(J!TerminalRun, "failed") /\ Return
  /\ OnlyJournal

----------------------------------------------------------------------------
(***************************************************************************)
(* The service: submission, start of the daemon, and the handlers.         *)
(***************************************************************************)
Submit ==
  /\ pc = "idle" /\ ~Exists
  /\ J!CreateRun(Run, None, Run, None)
  /\ Goto("execute")
  /\ OnlyJournal

Startup ==
  /\ pc = "down"
  /\ Reclaim /\ Goto("starting")
  /\ OnlyJournal

\* startup schedules what it may recover and leaves the rest alone for good.
StartupSchedule ==
  /\ pc = "starting"
  /\ Goto(IF /\ runStatus[Run] \in {"created", "running"}
             /\ ~HasActiveLease /\ ~HasUncertainOpaqueStep
          THEN "execute" ELSE "idle")
  /\ OnlyTask

\* decide_approval and _schedule.
Decide(i, decision) ==
  /\ pc = "idle"
  /\ A!DecideApproval(i, decision)
  /\ Goto(IF Terminal THEN "idle" ELSE "execute")
  /\ UNCHANGED <<journalVars, ledgerVars, outputVars, effects, writing, crashes>>

\* The same decision sent again is answered from the row, and schedules too.
RepeatDecision(i) ==
  /\ pc = "idle" /\ i \in DOMAIN approvals /\ i \notin A!Pending
  /\ ~Terminal
  /\ Patient => ~HasLiveLease
  /\ Goto("execute") /\ OnlyTask

Resume ==
  /\ pc = "idle" /\ Exists /\ ~Terminal
  /\ ~HasUncertainOpaqueStep
  /\ Patient => ~HasLiveLease
  /\ Goto("execute") /\ OnlyTask

\* Mutant: the task is not cancelled with the run.
CancelRunOnly ==
  /\ pc \in {"idle", "execute", "work", "worked"} /\ Exists /\ ~Terminal
  /\ J!MarkRunStatus(Run, "cancelled") /\ UNCHANGED <<pc, localVars>>
  /\ OnlyJournal

\* cancel ends the task where it waits; the step keeps its lease.  The thread of
\* a file write is not stopped; a command is killed before its task ends.
Cancel ==
  /\ pc \in {"idle", "execute", "work", "worked"} /\ Exists /\ ~Terminal
  /\ J!MarkRunStatus(Run, "cancelled") /\ Return
  /\ \/ UNCHANGED writing
     \/ /\ pc = "work" /\ cur.kind = "tool" /\ Safety[cur] = "reconcilable"
        /\ writing' = {CallOf(cur)}
  /\ UNCHANGED <<ledgerVars, approvals, outputVars, effects, crashes>>

\* The thread that outlived its task replaces the file, or fails unheard.
WriteEnds(c) ==
  /\ c \in writing /\ writing' = writing \ {c}
  /\ \/ effects' = [effects EXCEPT ![c] = @ + 1]
     \/ UNCHANGED effects
  /\ UNCHANGED <<journalVars, ledgerVars, approvals, outputVars, pc, localVars, crashes>>

----------------------------------------------------------------------------
(***************************************************************************)
(* What happens to the daemon.                                             *)
(***************************************************************************)
Crash ==
  /\ pc # "down" /\ Exists /\ crashes < MaxCrashes
  /\ crashes' = crashes + 1
  /\ pc' = "down" /\ Reset /\ writing' = {}
  /\ UNCHANGED <<journalVars, ledgerVars, approvals, outputVars, effects>>

Waiting == pc \in {"down", "idle", "work", "worked"}

\* Time is only told while nothing or an await runs, and while a lease can
\* expire: the stretches of the task between two awaits are instantaneous.
TimePasses ==
  /\ Waiting /\ HasLiveLease
  /\ J!Tick /\ UNCHANGED <<pc, localVars>>
  /\ OnlyJournal

\* The heartbeat of the current step.
Beat ==
  /\ pc \in {"work", "worked"}
  /\ J!Heartbeat(cur, Worker) /\ UNCHANGED <<pc, localVars>>
  /\ OnlyJournal

\* execute of another run reclaims every expired lease, this run's included.
OtherRunReclaims ==
  /\ Waiting /\ pc # "down"
  /\ J!ReclaimExpiredLeases /\ UNCHANGED <<pc, localVars>>
  /\ OnlyJournal

----------------------------------------------------------------------------
Gate == Execute \/ GatePending \/ GateRejected \/ Reject \/ GatePassed

Recovery ==
  \/ Proceed \/ VerdictApplied \/ VerdictNotApplied \/ Pause
  \/ \E s \in todo : SkipUncertain(s) \/ StartReconcile(s) \/ AskAboutUncertain(s) \/ RetryUncertain(s)

Loop ==
  \/ CompleteRun \/ IterationLimit \/ ContinueGroup \/ PlanModel \/ PlanTool \/ GroupDone
  \/ AskApproval \/ HasApproval \/ (\E t \in Steps : Claim(t)) \/ ClaimNone \/ Begin
  \/ LeaseLost \/ Stop

ModelCall ==
  \/ \E c \in 1 .. MaxProviderCalls : WriteOffCall(c) \/ StartCall(c)
  \/ Reserve \/ Refuse
  \/ \E c \in 1 .. MaxProviderCalls, calls \in Replies, tokens \in Usages :
       ProviderReplies(c, calls, tokens)
  \/ SettleReply \/ CommitModel

ModelFailure ==
  \/ \E c \in 1 .. MaxProviderCalls : ProviderFails(c)
  \/ SettleFailed \/ FailModel

ToolRun == TakeEffect \/ CommitTool \/ CommitReconcile

Operator ==
  \/ \E i \in DOMAIN approvals :
       \/ \E decision \in A!Decisions : Decide(i, decision)
       \/ RepeatDecision(i)
  \/ Resume

Task   == Gate \/ Recovery \/ Loop \/ ModelCall \/ ModelFailure \/ ToolRun \/ Startup \/ StartupSchedule

Next ==
  \/ Submit \/ Task \/ ToolRaises \/ Operator \/ Cancel
  \/ Crash \/ TimePasses \/ Beat \/ OtherRunReclaims
  \/ \E c \in ToolCalls : WriteEnds(c)

Spec == Init /\ [][Next]_vars

(***************************************************************************)
(* Fairness.  The event loop keeps running the task, the supervisor starts *)
(* the daemon again, clocks advance while leases are held, and an operator *)
(* who gets the chance again and again decides what is pending and resumes *)
(* the run.  Crashes, cancellations, failures of tools and heartbeats are  *)
(* owed to nobody.                                                         *)
(***************************************************************************)
LiveSpec ==
  /\ Spec
  /\ WF_vars(Submit) /\ WF_vars(Task) /\ SF_vars(TimePasses)
  /\ SF_vars(Resume)
  /\ SF_vars(\E i \in DOMAIN approvals, decision \in A!Decisions : Decide(i, decision))

----------------------------------------------------------------------------
(***************************************************************************)
(* Properties.                                                             *)
(***************************************************************************)
Points ==
  {"down", "starting", "idle", "execute", "gate", "reject", "uncertain", "verdict", "pause",
   "loop", "group", "approve", "claim", "begin", "sweep", "call", "work", "worked", "settle",
   "commit", "settlefailed", "failstep", "refuse", "stop"}

\* Every variable, durable or volatile, holds a value of its type.
TypeOK ==
  /\ J!TypeOK /\ L!TypeOK /\ approvals \in Seq(A!Approval)
  /\ toolCalls \in [Iterations -> Replies \cup {None}]
  /\ proven \subseteq ReconcileSteps
  /\ effects \in [ToolCalls -> Nat] /\ writing \subseteq ToolCalls
  /\ pc \in Points /\ cur \in Steps \cup {NoStep} /\ todo \subseteq Steps
  /\ reply \in [calls : Replies \cup {{}}, tokens : Usages \cup {0}]
  /\ crashes \in 0 .. MaxCrashes

\* A tool that needs approval is handed out only after an operator approved
\* that very step, or approved retrying the uncertain step it replaces.
ApprovedBefore(s) ==
  \/ A!LastDecision(s, {"tool_execution"}) = "approved"
  \/ /\ s.depth > 0 /\ Safety[s] = "opaque_side_effect"
     /\ A!LastDecision([s EXCEPT !.depth = @ - 1], {"uncertain_outcome"}) = "approved"
ToolRunsApproved ==
  \A s \in ToolSteps : attempts[s] > 0 /\ Safety[s] \in NeedsApproval => ApprovedBefore(s)

\* However often the daemon dies around a tool call, a reconcilable call takes
\* effect at most once, and an opaque one at most once more for each retry an
\* operator approved knowing that the outcome is uncertain.
RetriesGranted(c) ==
  Cardinality({i \in DOMAIN approvals :
    /\ CallOf(approvals[i].step) = c
    /\ approvals[i].kind = "uncertain_outcome" /\ approvals[i].status = "approved"})
EffectsBounded ==
  \A c \in ToolCalls :
    /\ CallSafety[c[2]] = "reconcilable" => effects[c] <= 1
    /\ CallSafety[c[2]] = "opaque_side_effect" => effects[c] <= 1 + RetriesGranted(c)

\* A recorded outcome is reused, never produced again: a tool call whose output
\* can be found takes effect no more, and an iteration whose reply is committed
\* is not sent to the provider again, whatever is resumed or restarted.
OutcomesReused ==
  [][/\ \A c \in ToolCalls : Found(c) => effects'[c] = effects[c]
     /\ \A c \in 1 .. MaxProviderCalls :
          callStatus[c] = "absent" /\ callStatus'[c] = "started" => ~Answered(callStep'[c].iter)]_vars

\* After the end of a run no step is handed out and no provider is called, and a
\* tool takes effect only late: in a cancelled run, for the first time, and for a
\* call that the journal shows as handed out and unsettled, never as done.
Unsettled(c) ==
  \E d \in Depths :
    stepStatus[[Original(c) EXCEPT !.depth = d]] \in {"executing", "uncertain"}
EndedRunIsQuiet ==
  [][Terminal =>
       /\ UNCHANGED <<attempts, callStatus>>
       /\ \A c \in ToolCalls : effects'[c] # effects[c] =>
            /\ runStatus[Run] = "cancelled" /\ CallSafety[c[2]] = "reconcilable"
            /\ effects[c] = 0 /\ Unsettled(c) /\ ~Found(c)]_vars

\* A completed run has no loose ends: every tool call of every reply has an
\* output, no step is held, every provider call has an outcome and no budget
\* stays reserved, across all retries and crashes that led there.
CompletedRunIsSettled ==
  runStatus[Run] = "completed" =>
    /\ \A i \in Iterations : Answered(i) => Outputs(i)
    /\ ~HasActiveLease
    /\ \A c \in 1 .. MaxProviderCalls : callStatus[c] # "started"
    /\ reserved[Run].tokens = 0
    /\ A!FirstUnapproved = 0

\* The runtime uses the journal and the ledger only as their modules allow, so
\* that what holds of them holds of every run.
UsesJournal == J!Spec
UsesLedger  == L!Spec

ClockOut == now = MaxTime   \* the model's bound on time, not the code's

\* A crash between fail_step and the marking of the run leaves a failed tool
\* step in a run that is still open; no later execute gets past it.
Orphaned == ~Terminal /\ \E s \in Steps : s.kind # "model" /\ stepStatus[s] = "failed"

\* With operators that decide and resume, every submitted run ends, whatever
\* crashes, expires or is refused on the way, except behind an orphaned failure.
RunEndsUnlessOrphaned == Exists ~> (Terminal \/ Orphaned \/ ClockOut)
=============================================================================
