------------------------- MODULE AgentRuntimeProofs -------------------------
(***************************************************************************)
(* Theorems about AgentRuntime for every set of replies, every policy,     *)
(* limit and safety class, and every number of crashes and retries.        *)
(*                                                                         *)
(* The runtime drives the journal and the ledger only through their        *)
(* operations (RunUsesJournal, RunUsesLedger), so that whatever is proved  *)
(* of Journal and Ledger holds of a run: their theorems are cited through  *)
(* the instances JP and LP.                                                *)
(*                                                                         *)
(* The inductive invariant has five parts, each of which needs the ones    *)
(* before it: Inv1, that the task's own variables fit the point it has     *)
(* reached and the journal; Inv2, in which order steps are made, and which *)
(* approvals, reconciliations and receipts a step that was replaced leaves *)
(* behind; Late, what a thread that outlived its task may still write;     *)
(* Inv3, which try has spent an effect; Inv4, that provider calls and      *)
(* reservations hang on a step that is open.                               *)
(*                                                                         *)
(* A lemma XStep says that a step keeps conjunct X, a lemma XFrom from     *)
(* where a task can get to X, and a lemma XFacts what X says.              *)
(***************************************************************************)
EXTENDS AgentRuntime, FiniteSetTheorems, WellFoundedInduction, TLAPS

JP == INSTANCE JournalProofs WITH
        Runs <- {Run}, Workers <- {Worker}, Payloads <- {Result},
        RunKeys <- {}, Identities <- {Run}, StepRun <- [s \in Steps |-> Run]

LP == INSTANCE LedgerProofs WITH
        Runs <- {Run}, Calls <- 1 .. MaxProviderCalls, Reservations <- ModelSteps,
        Resources <- {"tokens"}, Limit <- Limits, Amounts <- {Reservation},
        Actuals <- {Actual(n) : n \in Usages \cup {0}}, Unlimited <- None

----------------------------------------------------------------------------
(***************************************************************************)
(* Steps, calls and tries.                                                 *)
(***************************************************************************)
\* The step of call c after d retries.
Try(c, d) == Step("tool", c[1], c[2], d)

LEMMA ToolStepFacts ==
  ASSUME NEW s \in ToolSteps
  PROVE  /\ s \in Steps /\ s.kind = "tool"
         /\ s.iter \in Iterations /\ s.n \in CallIndex /\ s.depth \in Depths
         /\ CallOf(s) \in ToolCalls /\ s = Try(CallOf(s), s.depth)
         /\ ReconcilerOf(s) \in ReconcileSteps /\ ReconcilerOf(s) \in Steps
         /\ ReconciledBy(ReconcilerOf(s)) = s
         /\ CallOf(ReconcilerOf(s)) = CallOf(s)
         /\ Replacement(s) = Try(CallOf(s), s.depth + 1)
         /\ Safety[s] = CallSafety[s.n]
<1>1. PICK i \in Iterations, n \in CallIndex, d \in Depths :
         s = [kind |-> "tool", iter |-> i, n |-> n, depth |-> d]
  BY DEF ToolSteps, Step
<1>2. /\ s \in Steps /\ s.kind = "tool" /\ s.iter = i /\ s.n = n /\ s.depth = d
      /\ CallOf(s) \in ToolCalls /\ s = Try(CallOf(s), s.depth)
  BY <1>1 DEF Steps, CallOf, ToolCalls, Try, Step
<1>3. ReconcilerOf(s) = [kind |-> "reconcile", iter |-> i, n |-> n, depth |-> d]
  BY <1>1 DEF ReconcilerOf
<1>4. /\ ReconcilerOf(s) \in ReconcileSteps /\ ReconcilerOf(s) \in Steps
      /\ CallOf(ReconcilerOf(s)) = CallOf(s)
  BY <1>1, <1>3 DEF ReconcileSteps, ReconcilerOf, Steps, CallOf
<1>5. ReconciledBy(ReconcilerOf(s)) = s
  BY <1>1, <1>3 DEF ReconciledBy
<1>6. Replacement(s) = Try(CallOf(s), s.depth + 1)
  BY <1>1 DEF Replacement, CallOf, Try, Step
<1>7. Safety[s] = CallSafety[s.n]
  BY <1>2 DEF Safety
<1> QED BY <1>2, <1>4, <1>5, <1>6, <1>7

LEMMA TryFacts ==
  ASSUME NEW c \in ToolCalls, NEW d \in Depths
  PROVE  /\ Try(c, d) \in ToolSteps
         /\ CallOf(Try(c, d)) = c
         /\ Try(c, d).depth = d /\ Try(c, d).iter = c[1] /\ Try(c, d).n = c[2]
  BY DEF ToolSteps, Step, CallOf, ToolCalls, Try

LEMMA CallSafetyOf ==
  ASSUME NEW s \in ToolSteps
  PROVE  Safety[s] = CallSafety[CallOf(s)[2]]
BY ToolStepFacts DEF Safety, CallOf

LEMMA ReconcileStepFacts ==
  ASSUME NEW r \in ReconcileSteps
  PROVE  /\ r \in Steps /\ r.kind = "reconcile"
         /\ ReconciledBy(r) \in ToolSteps /\ ReconcilerOf(ReconciledBy(r)) = r
         /\ CallOf(r) = CallOf(ReconciledBy(r))
         /\ Safety[r] = "read_only"
<1>1. PICK s \in ToolSteps : r = [s EXCEPT !.kind = "reconcile"]
  BY DEF ReconcileSteps
<1>2. r = ReconcilerOf(s) /\ r \in Steps /\ CallOf(r) = CallOf(s) /\ ReconciledBy(r) = s
  BY <1>1, ToolStepFacts DEF ReconcilerOf
<1>3. r.kind = "reconcile"
  BY <1>1 DEF ToolSteps, Step
<1> QED BY <1>2, <1>3 DEF Safety

LEMMA ModelStepFacts ==
  ASSUME NEW m \in ModelSteps
  PROVE  /\ m \in Steps /\ m.kind = "model" /\ m.iter \in Iterations /\ Safety[m] = "read_only"
  BY DEF ModelSteps, Steps, Step, Safety

LEMMA StepKinds ==
  ASSUME NEW s \in Steps
  PROVE  /\ s.kind = "model" <=> s \in ModelSteps
         /\ s.kind = "tool" <=> s \in ToolSteps
         /\ s.kind = "reconcile" <=> s \in ReconcileSteps
         /\ s \in ModelSteps \/ s \in ToolSteps \/ s \in ReconcileSteps
         /\ s \in ToolSteps \/ Safety[s] = "read_only"
<1>1. s \in ModelSteps \/ s \in ToolSteps \/ s \in ReconcileSteps
  BY DEF Steps
<1> QED BY <1>1, ToolStepFacts, ReconcileStepFacts, ModelStepFacts

LEMMA JournalInstance == JP!JournalAssumption
<1>1. Safety \in [Steps -> JP!SafetyClasses]
  <2>1. ASSUME NEW s \in Steps PROVE Safety[s] \in JP!SafetyClasses
    <3>1. CASE s \in ToolSteps
      BY <3>1, ToolStepFacts, AgentRuntimeAssumption DEF JP!SafetyClasses, CallIndex
    <3>2. CASE s \notin ToolSteps
      BY <3>2, StepKinds DEF JP!SafetyClasses
    <3> QED BY <3>1, <3>2
  <2> QED BY <2>1 DEF Safety
<1>2. Sequence \in [Steps -> Nat]
  <2>1. ASSUME NEW s \in Steps PROVE Sequence[s] \in Nat
    <3>1. s.iter \in Nat /\ s.depth \in Nat
      BY AgentRuntimeAssumption
         DEF Steps, ModelSteps, ToolSteps, ReconcileSteps, Step, Iterations, Depths
    <3>2. s.kind # "model" => s.n \in Nat
      BY AgentRuntimeAssumption DEF Steps, ModelSteps, ToolSteps, ReconcileSteps, Step,
         CallIndex
    <3> QED BY <3>1, <3>2 DEF Sequence
  <2> QED BY <2>1 DEF Sequence
<1>3. None \notin {Run} \cup Steps \cup {Worker} \cup ReceiptKeys \cup {} \cup {Run}
  BY NoneAssumption
<1> QED BY <1>1, <1>2, <1>3, AgentRuntimeAssumption DEF JP!JournalAssumption

----------------------------------------------------------------------------
(***************************************************************************)
(* Inv1: the task fits the point it has reached and the journal.           *)
(***************************************************************************)
JTypeOK == J!TypeOK

\* The types of the variables that are neither the journal's nor the ledger's.
OwnTypes ==
  /\ approvals \in Seq(A!Approval)
  /\ toolCalls \in [Iterations -> Replies \cup {None}]
  /\ proven \subseteq ReconcileSteps
  /\ effects \in [ToolCalls -> Nat] /\ writing \subseteq ToolCalls
  /\ pc \in Points /\ cur \in Steps \cup {NoStep} /\ todo \subseteq Steps
  /\ reply \in [calls : Replies \cup {{}}, tokens : Usages \cup {0}]
  /\ crashes \in 0 .. MaxCrashes

\* What the task remembers fits the point where it is.
ModelPoints == {"sweep", "call", "settle", "commit", "settlefailed", "failstep", "refuse"}
CurFits ==
  /\ pc \in ModelPoints => cur \in ModelSteps
  /\ pc \in {"group", "approve", "worked"} => cur \in ToolSteps
  /\ pc = "verdict" => cur \in ReconcileSteps
  /\ pc \in {"claim", "begin", "work"} => cur \in Steps
TodoFits ==
  /\ todo \subseteq UncertainSteps
  /\ pc \in {"idle", "down", "starting", "execute", "gate"} => todo = {}
ReplyFits == pc \in {"settle", "commit"} => reply.calls \in Replies

\* Only a tool step that may not be repeated is ever uncertain, and while it is
\* being reconciled it stays so.
UncertainUnsafe ==
  \A s \in Steps : stepStatus[s] = "uncertain" => s \in ToolSteps /\ Safety[s] \notin J!Repeatable
Reconciling ==
  pc \in {"claim", "begin", "work", "verdict"} /\ cur \in ReconcileSteps =>
    stepStatus[ReconciledBy(cur)] = "uncertain" /\ Safety[ReconciledBy(cur)] = "reconcilable"

\* A call is tried once more only after another crash: the tries fit Depths, and
\* what was cut off by the present crash may be tried again.
DepthBound ==
  /\ \A s \in ToolSteps : stepStatus[s] # "absent" => s.depth <= crashes
  /\ \A s \in ToolSteps :
       /\ stepStatus[s] \in {"leased", "executing", "uncertain"}
       /\ ~Terminal /\ pc # "stop"
       /\ ~(pc \in {"begin", "work", "worked"} /\ cur = s)
       => s.depth < crashes

\* Tool steps belong to a recorded reply.
ToolAnswered ==
  /\ \A s \in ToolSteps : stepStatus[s] # "absent" => Answered(s.iter)
  /\ pc \in {"group", "approve", "claim", "begin", "work", "worked"} /\ cur \in ToolSteps =>
       Answered(cur.iter)

\* Nothing works on a run that has ended.
EndedIsIdle == Terminal => pc \in {"down", "starting", "idle"}

Inv1 ==
  /\ JTypeOK /\ OwnTypes
  /\ CurFits /\ TodoFits /\ ReplyFits /\ UncertainUnsafe /\ Reconciling
  /\ DepthBound /\ ToolAnswered /\ EndedIsIdle

LEMMA CurIsStep ==
  ASSUME CurFits,
         pc \in {"group", "approve", "worked", "verdict", "claim", "begin", "work"} \cup ModelPoints
  PROVE  cur \in Steps
BY ToolStepFacts, ReconcileStepFacts, ModelStepFacts DEF CurFits

LEMMA CurKind ==
  ASSUME CurFits,
         pc \in {"group", "approve", "worked", "verdict", "claim", "begin", "work"} \cup ModelPoints
  PROVE  /\ cur \in Steps
         /\ cur \in ToolSteps <=> cur.kind = "tool"
         /\ cur \in ModelSteps <=> cur.kind = "model"
         /\ cur \in ReconcileSteps <=> cur.kind = "reconcile"
BY CurIsStep, StepKinds

LEMMA ReplacementIsStep ==
  ASSUME NEW s \in ToolSteps, OwnTypes, s.depth < crashes
  PROVE  Replacement(s) \in ToolSteps /\ Replacement(s) \in Steps
<1>1. s.depth + 1 \in Depths
  BY ToolStepFacts, AgentRuntimeAssumption DEF OwnTypes, Depths
<1> QED BY <1>1, ToolStepFacts, TryFacts

LEMMA TodoStep ==
  ASSUME Inv1, NEW s \in todo, pc = "uncertain"
  PROVE  /\ s \in ToolSteps /\ s \in Steps /\ stepStatus[s] = "uncertain"
         /\ Safety[s] \notin J!Repeatable
         /\ s.depth < crashes
         /\ Replacement(s) \in ToolSteps /\ Replacement(s) \in Steps
         /\ ReconcilerOf(s) \in ReconcileSteps /\ ReconcilerOf(s) \in Steps
<1>1. s \in Steps /\ stepStatus[s] = "uncertain"
  BY DEF Inv1, TodoFits, UncertainSteps
<1>2. s \in ToolSteps /\ Safety[s] \notin J!Repeatable
  BY <1>1 DEF Inv1, UncertainUnsafe
<1>3. s.depth < crashes
  BY <1>1, <1>2 DEF Inv1, DepthBound, EndedIsIdle
<1> QED BY <1>1, <1>2, <1>3, ToolStepFacts, ReplacementIsStep DEF Inv1

LEMMA VerdictStep ==
  ASSUME Inv1, pc = "verdict"
  PROVE  /\ cur \in ReconcileSteps /\ ReconciledBy(cur) \in ToolSteps
         /\ stepStatus[ReconciledBy(cur)] = "uncertain"
         /\ Safety[ReconciledBy(cur)] = "reconcilable"
         /\ ReconciledBy(cur).depth < crashes
         /\ Replacement(ReconciledBy(cur)) \in ToolSteps /\ Replacement(ReconciledBy(cur)) \in Steps
<1>1. cur \in ReconcileSteps /\ ReconciledBy(cur) \in ToolSteps
  BY ReconcileStepFacts DEF Inv1, CurFits
<1>2. stepStatus[ReconciledBy(cur)] = "uncertain" /\ Safety[ReconciledBy(cur)] = "reconcilable"
  BY <1>1 DEF Inv1, Reconciling
<1>3. ReconciledBy(cur).depth < crashes
  BY <1>1, <1>2 DEF Inv1, DepthBound, EndedIsIdle
<1> QED BY <1>1, <1>2, <1>3, ReplacementIsStep DEF Inv1

Moves(s, from, to) ==
  /\ s \in Steps /\ stepStatus[s] \in from
  /\ stepStatus' = [stepStatus EXCEPT ![s] = to]

Creates(s) ==
  /\ s = cur'
  /\ \/ \E u \in todo : StartReconcile(u) /\ s = ReconcilerOf(u)
     \/ \E u \in todo : RetryUncertain(u) /\ s = Replacement(u)
     \/ VerdictNotApplied /\ s = Replacement(ReconciledBy(cur))
     \/ PlanModel /\ s \in ModelSteps
     \/ PlanTool /\ s \in ToolSteps

LEMMA Least ==
  ASSUME NEW T \in SUBSET Nat, T # {}
  PROVE  \E x \in T : \A y \in T : x <= y
<1>1. PICK x \in T : \A y \in T : ~(<<y, x>> \in OpToRel(<, Nat))
  BY NatLessThanWellFounded, WFMin
<1>2. \A y \in T : ~(y < x)
  BY <1>1 DEF OpToRel
<1>3. x \in Nat /\ \A y \in T : y \in Nat
  OBVIOUS
<1> QED BY <1>2, <1>3

LEMMA NextIterationFacts ==
  /\ NextIteration \in 0 .. MaxIterations
  /\ \A j \in 0 .. NextIteration - 1 : Complete(j)
  /\ NextIteration < MaxIterations => ~Complete(NextIteration) /\ NextIteration \in Iterations
<1> DEFINE P(i) == /\ \A j \in 0 .. i - 1 : Complete(j)
                   /\ i < MaxIterations => ~Complete(i)
<1> DEFINE T == {i \in 0 .. MaxIterations : i < MaxIterations => ~Complete(i)}
<1>1. MaxIterations \in T /\ T \in SUBSET Nat
  BY AgentRuntimeAssumption
<1>2. PICK x \in T : \A y \in T : x <= y
  BY <1>1, Least
<1>3. x \in 0 .. MaxIterations /\ P(x)
  <2>1. ASSUME NEW j \in 0 .. x - 1, ~Complete(j) PROVE FALSE
    BY <1>1, <1>2, <2>1, AgentRuntimeAssumption
  <2> QED BY <1>2, <2>1, AgentRuntimeAssumption
<1>4. NextIteration \in 0 .. MaxIterations /\ P(NextIteration)
  BY <1>3 DEF NextIteration
<1> QED BY <1>4, AgentRuntimeAssumption DEF Iterations

LEMMA FirstUnapprovedFacts ==
  ASSUME approvals \in Seq(A!Approval)
  PROVE  /\ A!FirstUnapproved # 0 => /\ A!FirstUnapproved \in DOMAIN approvals
                                     /\ approvals[A!FirstUnapproved].step \in Steps
                                     /\ approvals[A!FirstUnapproved].status # "approved"
         /\ A!FirstUnapproved = 0 => \A i \in DOMAIN approvals : approvals[i].status = "approved"
         /\ (\A i \in DOMAIN approvals : approvals[i].status = "approved") => A!FirstUnapproved = 0
<1> DEFINE T == {i \in DOMAIN approvals : approvals[i].status # "approved"}
<1>1. T \in SUBSET Nat /\ 0 \notin T
  OBVIOUS
<1>2. \A i \in DOMAIN approvals : approvals[i] \in A!Approval
  OBVIOUS
<1>3. \A i \in DOMAIN approvals : approvals[i].step \in Steps
  BY <1>2 DEF A!Approval
<1>4. CASE T = {}
  BY <1>4 DEF A!FirstUnapproved
<1>5. CASE T # {}
  <2>1. PICK x \in T : \A y \in T : x <= y
    BY <1>1, <1>5, Least
  <2>2. A!FirstUnapproved \in T
    BY <1>5, <2>1 DEF A!FirstUnapproved
  <2>3. A!FirstUnapproved # 0
    BY <1>1, <2>2
  <2>4. PICK i \in DOMAIN approvals : approvals[i].status # "approved"
    BY <1>5
  <2> HIDE DEF T
  <2> QED BY <1>3, <2>2, <2>3, <2>4 DEF T
<1> QED BY <1>4, <1>5

LEMMA PlanToolStep ==
  ASSUME PlanTool, OwnTypes, CurFits, ToolAnswered
  PROVE  /\ cur \in ToolSteps /\ Answered(cur.iter)
         /\ \E s \in ToolSteps : /\ WorkOn("approve", s) /\ Ensure(s)
                               /\ s = Original(<<cur.iter, s.n>>) /\ s.iter = cur.iter
                               /\ s.n \in OpenCalls /\ \A m \in OpenCalls : s.n <= m
<1>1. PICK n \in OpenCalls :
        /\ Ensure(Original(<<cur.iter, n>>)) /\ WorkOn("approve", Original(<<cur.iter, n>>))
        /\ \A m \in OpenCalls : n <= m
  BY DEF PlanTool
<1>2. cur \in ToolSteps /\ cur.iter \in Iterations
  BY ToolStepFacts DEF CurFits, PlanTool
<1>3. toolCalls[cur.iter] \in Replies
  BY <1>2 DEF OwnTypes, PlanTool, ToolAnswered, Answered
<1>4. n \in CallIndex
  BY <1>1, <1>3, AgentRuntimeAssumption DEF CallIndex, OpenCalls
<1>5. 0 \in Depths
  BY AgentRuntimeAssumption DEF Depths
<1>6. /\ Original(<<cur.iter, n>>) \in ToolSteps
      /\ Original(<<cur.iter, n>>).iter = cur.iter /\ Original(<<cur.iter, n>>).n = n
  BY <1>2, <1>4, <1>5 DEF Original, ToolSteps, Step
<1>7. Answered(cur.iter)
  BY <1>2 DEF PlanTool, ToolAnswered
<1> QED BY <1>1, <1>2, <1>6, <1>7

LEMMA PlanModelStep ==
  ASSUME PlanModel
  PROVE  \/ UNCHANGED journalVars /\ Goto("stop")
         \/ \E s \in ModelSteps :
              /\ WorkOn("claim", s)
              /\ s.iter = NextIteration
              /\ \/ UNCHANGED journalVars /\ stepStatus[s] \in {"ready", "leased", "executing"}
                 \/ /\ Ensure(s)
                    /\ \A m \in ModelSteps :
                         m.iter = NextIteration =>
                           stepStatus[m] \notin {"ready", "leased", "executing"}
<1> DEFINE attempt(n) == Step("model", NextIteration, n, 0)
<1> DEFINE failures == Cardinality({n \in 1 .. MaxIterations : stepStatus[attempt(n)] = "failed"})
<1> DEFINE open == {n \in 1 .. MaxIterations :
                      stepStatus[attempt(n)] \in {"ready", "leased", "executing"}}
<1>1. failures \in Nat
  <2>1. IsFiniteSet(1 .. MaxIterations)
    BY FS_Interval, AgentRuntimeAssumption
  <2> QED BY <2>1, FS_Subset, FS_CardinalityType
<1>2. NextIteration \in Iterations
  BY NextIterationFacts DEF PlanModel
<1>3. \A n \in 1 .. MaxIterations : attempt(n) \in ModelSteps /\ attempt(n).iter = NextIteration
  BY <1>2 DEF ModelSteps, Step
<1>4. CASE open # {} /\ ~(failures >= MaxIterations)
  BY <1>3, <1>4 DEF PlanModel
<1>5. CASE failures >= MaxIterations
  BY <1>5 DEF PlanModel
<1>6. CASE open = {} /\ ~(failures >= MaxIterations)
  <2>1. Ensure(attempt(failures + 1)) /\ WorkOn("claim", attempt(failures + 1))
    BY <1>6 DEF PlanModel
  <2>2. failures + 1 \in 1 .. MaxIterations
    BY <1>1, <1>6, AgentRuntimeAssumption
  <2>3. ASSUME NEW m \in ModelSteps, m.iter = NextIteration
        PROVE  stepStatus[m] \notin {"ready", "leased", "executing"}
    <3>1. PICK n \in 1 .. MaxIterations : m = attempt(n)
      BY <2>3 DEF ModelSteps, Step
    <3> QED BY <1>6, <3>1
  <2> HIDE DEF failures, attempt, open
  <2> QED BY <1>3, <2>1, <2>2, <2>3
<1> QED BY <1>4, <1>5, <1>6

LEMMA ContinueGroupStep ==
  ASSUME ContinueGroup, OwnTypes
  PROVE  \E s \in ToolSteps : WorkOn("group", s) /\ s.iter = NextIteration
<1>1. NextIteration \in Iterations
  BY NextIterationFacts DEF ContinueGroup
<1>2. toolCalls[NextIteration] \in Replies /\ toolCalls[NextIteration] # {}
  BY <1>1 DEF ContinueGroup, OwnTypes, Answered, HasFinalText
<1>3. 1 \in CallIndex
  BY <1>2, AgentRuntimeAssumption DEF CallIndex
<1>4. 0 \in Depths
  BY AgentRuntimeAssumption DEF Depths
<1>5. /\ Original(<<NextIteration, 1>>) \in ToolSteps
      /\ Original(<<NextIteration, 1>>).iter = NextIteration
  BY <1>1, <1>3, <1>4 DEF Original, ToolSteps, Step
<1> QED BY <1>5 DEF ContinueGroup

----------------------------------------------------------------------------
(***************************************************************************)
(* What each step does to the journal.                                     *)
(***************************************************************************)
LEMMA StepMoves ==
  ASSUME [Next]_vars, Inv1
  PROVE  \/ UNCHANGED <<stepStatus, attempts>>
         \/ /\ Execute \/ Startup \/ OtherRunReclaims
            /\ J!ReclaimExpiredLeases
         \/ /\ GateRejected /\ UNCHANGED attempts
            /\ \E s \in Steps : Moves(s, {"ready", "uncertain"}, "cancelled")
         \/ \E s \in Steps : Moves(s, {"absent"}, "ready") /\ Creates(s) /\ UNCHANGED attempts
         \/ \E s \in Steps : /\ Moves(s, {"ready"}, "leased") /\ Claim(s)
                             /\ attempts' = [attempts EXCEPT ![s] = @ + 1]
         \/ Begin /\ Moves(cur, {"leased"}, "executing") /\ UNCHANGED attempts
         \/ /\ Refuse \/ FailModel \/ ToolRaises
            /\ Moves(cur, J!Held, "failed") /\ UNCHANGED attempts
         \/ /\ CommitModel \/ CommitTool \/ CommitReconcile
            /\ Moves(cur, {"executing"}, "committed") /\ UNCHANGED attempts
<1> DEFINE Goal ==
      \/ UNCHANGED <<stepStatus, attempts>>
      \/ /\ Execute \/ Startup \/ OtherRunReclaims
         /\ J!ReclaimExpiredLeases
      \/ /\ GateRejected /\ UNCHANGED attempts
         /\ \E s \in Steps : Moves(s, {"ready", "uncertain"}, "cancelled")
      \/ \E s \in Steps : Moves(s, {"absent"}, "ready") /\ Creates(s) /\ UNCHANGED attempts
      \/ \E s \in Steps : /\ Moves(s, {"ready"}, "leased") /\ Claim(s)
                          /\ attempts' = [attempts EXCEPT ![s] = @ + 1]
      \/ Begin /\ Moves(cur, {"leased"}, "executing") /\ UNCHANGED attempts
      \/ (Refuse \/ FailModel \/ ToolRaises) /\ Moves(cur, J!Held, "failed") /\ UNCHANGED attempts
      \/ /\ CommitModel \/ CommitTool \/ CommitReconcile
         /\ Moves(cur, {"executing"}, "committed") /\ UNCHANGED attempts
<1> SUFFICES Goal
  OBVIOUS
<1>1. (GatePending \/ Reject \/ GatePassed) => Goal
  BY DEF GatePending, Reject, GatePassed, journalVars, OnlyTask, OnlyJournal, J!MarkRunStatus,
     J!stepVars, MarkUnless, PauseRun
<1>2. CASE Execute
  BY <1>2 DEF Execute, Reclaim, journalVars
<1>3. CASE GateRejected
  <2> DEFINE s == approvals[A!FirstUnapproved].step
  <2>1. CASE UNCHANGED journalVars
    BY <2>1 DEF journalVars
  <2>2. CASE J!CancelStep(s, None) /\ stepStatus[s] \in {"ready", "uncertain"}
    <3>1. Moves(s, {"ready", "uncertain"}, "cancelled") /\ UNCHANGED attempts
      <4>1. s \in Steps
        BY <1>3, FirstUnapprovedFacts DEF GateRejected, Inv1, OwnTypes
      <4> QED BY <4>1, <2>2 DEF J!CancelStep, J!Release, Moves
    <3> HIDE DEF s
    <3> QED BY <1>3, <3>1 DEF Moves
  <2> QED BY <1>3, <2>1, <2>2 DEF GateRejected
<1>4. (Proceed \/ VerdictApplied \/ Pause \/ (\E s \in todo : SkipUncertain(s)) \/
      (\E s \in todo : AskAboutUncertain(s))) => Goal
  BY DEF Proceed, VerdictApplied, Pause, SkipUncertain, AskAboutUncertain, journalVars,
     OnlyTask, OnlyJournal, J!MarkRunStatus, J!RecordReceipt, J!stepVars, MarkUnless, PauseRun
<1>5. CASE VerdictNotApplied
  <2>1. Ensure(Replacement(ReconciledBy(cur))) /\ Replacement(ReconciledBy(cur)) \in Steps
    BY <1>5, VerdictStep DEF VerdictNotApplied
  <2>2. CASE J!CreateStep(Replacement(ReconciledBy(cur)))
    <3>1. Moves(Replacement(ReconciledBy(cur)), {"absent"}, "ready") /\ UNCHANGED attempts
      BY <2>1, <2>2 DEF J!CreateStep, J!StepExists, Moves
    <3>2. cur' = Replacement(ReconciledBy(cur))
      BY <1>5, <2>1, <2>2 DEF VerdictNotApplied, WorkOn
    <3> QED BY <1>5, <3>1, <3>2 DEF Creates, Moves
  <2>3. CASE UNCHANGED journalVars
    BY <2>3 DEF journalVars
  <2> QED BY <2>1, <2>2, <2>3 DEF Ensure
<1>6. ASSUME NEW s \in todo, StartReconcile(s) PROVE Goal
  <2>1. Ensure(ReconcilerOf(s)) /\ ReconcilerOf(s) \in Steps
    BY <1>6, TodoStep DEF StartReconcile, Handles
  <2>2. CASE J!CreateStep(ReconcilerOf(s))
    <3>1. Moves(ReconcilerOf(s), {"absent"}, "ready") /\ UNCHANGED attempts
      BY <2>1, <2>2 DEF J!CreateStep, J!StepExists, Moves
    <3>2. cur' = ReconcilerOf(s)
      BY <1>6, <2>1, <2>2 DEF StartReconcile, WorkOn
    <3> QED BY <1>6, <3>1, <3>2 DEF Creates, Moves
  <2>3. CASE UNCHANGED journalVars
    BY <2>3 DEF journalVars
  <2> QED BY <2>1, <2>2, <2>3 DEF Ensure
<1>7. ASSUME NEW s \in todo, RetryUncertain(s) PROVE Goal
  <2>1. Ensure(Replacement(s)) /\ Replacement(s) \in Steps
    BY <1>7, TodoStep DEF RetryUncertain, Handles
  <2>2. CASE J!CreateStep(Replacement(s))
    <3>1. Moves(Replacement(s), {"absent"}, "ready") /\ UNCHANGED attempts
      BY <2>1, <2>2 DEF J!CreateStep, J!StepExists, Moves
    <3>2. cur' = Replacement(s)
      BY <1>7, <2>1, <2>2 DEF RetryUncertain, WorkOn
    <3> QED BY <1>7, <3>1, <3>2 DEF Creates, Moves
  <2>3. CASE UNCHANGED journalVars
    BY <2>3 DEF journalVars
  <2> QED BY <2>1, <2>2, <2>3 DEF Ensure
<1>8. (CompleteRun \/ IterationLimit \/ ContinueGroup \/ GroupDone \/ AskApproval \/
      HasApproval \/ ClaimNone \/ LeaseLost \/ Stop) => Goal
  BY DEF CompleteRun, IterationLimit, ContinueGroup, GroupDone, AskApproval, HasApproval,
     ClaimNone, LeaseLost, Stop, journalVars, OnlyTask, OnlyJournal, J!MarkRunStatus,
     J!stepVars, MarkUnless, PauseRun
<1>9. CASE PlanModel
  <2>1. UNCHANGED journalVars \/ \E s \in ModelSteps : J!CreateStep(s) /\ s = cur'
    BY <1>9, PlanModelStep DEF Inv1, Ensure, WorkOn
  <2>2. ASSUME NEW s \in ModelSteps, J!CreateStep(s), s = cur' PROVE Goal
    <3>1. Moves(s, {"absent"}, "ready") /\ UNCHANGED attempts
      BY <2>2, StepKinds DEF J!CreateStep, J!StepExists, Moves, Steps
    <3> QED BY <1>9, <2>2, <3>1 DEF Creates, Moves
  <2>3. CASE UNCHANGED journalVars
    BY <2>3 DEF journalVars
  <2> QED BY <2>1, <2>2, <2>3
<1>10. CASE PlanTool
  <2>1. UNCHANGED journalVars \/ \E s \in ToolSteps : J!CreateStep(s) /\ s = cur'
    BY <1>10, PlanToolStep DEF Inv1, Ensure, WorkOn
  <2>2. ASSUME NEW s \in ToolSteps, J!CreateStep(s), s = cur' PROVE Goal
    <3>1. Moves(s, {"absent"}, "ready") /\ UNCHANGED attempts
      BY <2>2, StepKinds DEF J!CreateStep, J!StepExists, Moves, Steps
    <3> QED BY <1>10, <2>2, <3>1 DEF Creates, Moves
  <2>3. CASE UNCHANGED journalVars
    BY <2>3 DEF journalVars
  <2> QED BY <2>1, <2>2, <2>3
<1>11. ASSUME NEW t \in Steps, Claim(t) PROVE Goal
  BY <1>11 DEF Claim, J!ClaimReadyStep, J!FirstReady, J!ReadySteps, Moves
<1>12. CASE Begin
  BY <1>12 DEF Begin, J!MarkExecuting, Moves, Inv1, CurFits
<1>13. ((\E c \in 1 .. MaxProviderCalls : WriteOffCall(c)) \/
      (\E c \in 1 .. MaxProviderCalls : StartCall(c)) \/ Reserve \/
      (\E c \in 1 .. MaxProviderCalls, calls \in Replies, tokens \in Usages :
         ProviderReplies(c, calls, tokens)) \/
      SettleReply) => Goal
  BY DEF WriteOffCall, StartCall, Reserve, ProviderReplies, SettleReply, journalVars,
     OnlyLedger, J!Heartbeat
<1>14. CASE Refuse
  <2>1. cur \in Steps /\ J!FailStep(cur, Worker)
    BY <1>14, CurIsStep DEF Refuse, Inv1, ModelPoints
  <2>2. Moves(cur, J!Held, "failed") /\ UNCHANGED attempts
    BY <2>1 DEF J!FailStep, J!FinishOwnedStep, J!Release, Moves
  <2> QED BY <1>14, <2>2
<1>15. CASE CommitModel
  <2>1. cur \in Steps
    BY <1>15, CurIsStep DEF CommitModel, Inv1, ModelPoints
  <2>2. Moves(cur, {"executing"}, "committed") /\ UNCHANGED attempts
    BY <1>15, <2>1 DEF CommitModel, J!CommitStep, J!Release, Moves
  <2> QED BY <1>15, <2>2
<1>16. ((\E c \in 1 .. MaxProviderCalls : ProviderFails(c)) \/ SettleFailed) => Goal
  BY DEF ProviderFails, SettleFailed, journalVars, OnlyLedger
<1>17. CASE FailModel
  <2>1. cur \in Steps /\ J!FailStep(cur, Worker)
    BY <1>17, CurIsStep DEF FailModel, Inv1, ModelPoints
  <2>2. Moves(cur, J!Held, "failed") /\ UNCHANGED attempts
    BY <2>1 DEF J!FailStep, J!FinishOwnedStep, J!Release, Moves
  <2> QED BY <1>17, <2>2
<1>18. (TakeEffect) => Goal
  BY DEF TakeEffect, journalVars
<1>19. CASE CommitTool
  <2>1. cur \in Steps
    BY <1>19, CurIsStep DEF CommitTool, ToolReturned, Inv1, ModelPoints
  <2>2. Moves(cur, {"executing"}, "committed") /\ UNCHANGED attempts
    BY <1>19, <2>1 DEF CommitTool, J!CommitStep, J!Release, Moves
  <2> QED BY <1>19, <2>2
<1>20. CASE CommitReconcile
  <2>1. cur \in Steps
    BY <1>20, CurIsStep DEF CommitReconcile, Inv1, ModelPoints
  <2>2. Moves(cur, {"executing"}, "committed") /\ UNCHANGED attempts
    BY <1>20, <2>1 DEF CommitReconcile, J!CommitStep, J!Release, Moves
  <2> QED BY <1>20, <2>2
<1>21. ((\E i \in DOMAIN approvals, decision \in A!Decisions : Decide(i, decision)) \/
      (\E i \in DOMAIN approvals : RepeatDecision(i)) \/ Resume) => Goal
  BY DEF Decide, RepeatDecision, Resume, journalVars, OnlyTask
<1>22. (Submit \/ StartupSchedule \/ Cancel) => Goal
  BY DEF Submit, StartupSchedule, Cancel, journalVars, OnlyTask, OnlyJournal, J!CreateRun,
     J!MarkRunStatus, J!stepVars
<1>23. CASE Startup
  BY <1>23 DEF Startup, Reclaim, journalVars
<1>24. CASE ToolRaises
  <2>1. cur \in Steps /\ J!FailStep(cur, Worker)
    BY <1>24, CurIsStep DEF ToolRaises, Inv1, ModelPoints
  <2>2. Moves(cur, J!Held, "failed") /\ UNCHANGED attempts
    BY <2>1 DEF J!FailStep, J!FinishOwnedStep, J!Release, Moves
  <2> QED BY <1>24, <2>2
<1>25. (Crash \/ TimePasses \/ Beat \/ (\E c \in ToolCalls : WriteEnds(c))) => Goal
  BY DEF Crash, TimePasses, Beat, WriteEnds, journalVars, OnlyJournal, J!Heartbeat, J!Tick,
     J!stepVars
<1>26. CASE OtherRunReclaims
  BY <1>26 DEF OtherRunReclaims, journalVars
<1>27. UNCHANGED vars => Goal
  BY DEF vars, localVars, journalVars
<1> HIDE DEF Goal
<1> QED
  BY <1>1, <1>2, <1>3, <1>4, <1>5, <1>6, <1>7, <1>8, <1>9, <1>10, <1>11, <1>12, <1>13, <1>14,
     <1>15, <1>16, <1>17, <1>18, <1>19, <1>20, <1>21, <1>22, <1>23, <1>24, <1>25, <1>26, <1>27
     DEF Next, Task, Gate, Recovery, Loop, ModelCall, ModelFailure, ToolRun, Operator

LEMMA JournalOps ==
  ASSUME NEW s \in Steps
  PROVE  /\ J!CreateStep(s) => J!Next
         /\ J!CancelStep(s, None) => J!Next
         /\ \A k \in ReceiptKeys : J!RecordReceipt(s, k, Result) => J!Next
         /\ J!ClaimReadyStep(Worker, {Run}, s) => J!Next
         /\ J!MarkExecuting(s, Worker) => J!Next
         /\ J!Heartbeat(s, Worker) => J!Next
         /\ \A k \in ReceiptKeys : J!CommitStep(s, Worker, k, Result) => J!Next
         /\ \A p : J!CommitStep(s, Worker, None, p) => J!Next
         /\ J!FailStep(s, Worker) => J!Next
<1>1. \A p : J!CommitStep(s, Worker, None, p) => J!CommitStep(s, Worker, None, Result)
  BY DEF J!CommitStep
<1> QED BY <1>1 DEF J!Next, J!StepOperation

LEMMA RunOps ==
  /\ \A target \in J!RunStatuses : J!MarkRunStatus(Run, target) => J!Next
  /\ J!CreateRun(Run, None, Run, None) => J!Next
  /\ J!ReclaimExpiredLeases => J!Next
  /\ J!Tick => J!Next
BY DEF J!Next, J!RunOperation

LEMMA JournalStep ==
  ASSUME [Next]_vars, Inv1
  PROVE  J!Next \/ UNCHANGED journalVars
<1> DEFINE Goal ==
      J!Next \/ UNCHANGED journalVars
<1> SUFFICES Goal
  OBVIOUS
<1>1. (GatePassed) => Goal
  BY DEF GatePassed, OnlyTask
<1>2. CASE Execute
  BY <1>2, RunOps DEF Execute, Reclaim
<1>3. CASE GatePending
  BY <1>3, RunOps DEF GatePending, PauseRun, MarkUnless, J!RunStatuses
<1>4. CASE GateRejected
  BY <1>4, FirstUnapprovedFacts, JournalOps DEF GateRejected, Inv1, OwnTypes
<1>5. CASE Reject
  BY <1>5, RunOps DEF Reject, J!RunStatuses
<1>6. ((\E s \in todo : SkipUncertain(s)) \/ (\E s \in todo : AskAboutUncertain(s))) => Goal
  BY DEF SkipUncertain, AskAboutUncertain, OnlyTask
<1>7. CASE Proceed
  BY <1>7, RunOps DEF Proceed, MarkUnless, J!RunStatuses
<1>8. CASE VerdictApplied
  <2>1. ReconciledBy(cur) \in Steps /\ ReconciledKey(ReconciledBy(cur)) \in ReceiptKeys
    BY <1>8, VerdictStep, ToolStepFacts DEF VerdictApplied, ReceiptKeys, ReconciledKey
  <2> QED BY <1>8, <2>1, JournalOps DEF VerdictApplied
<1>9. CASE VerdictNotApplied
  BY <1>9, VerdictStep, JournalOps DEF VerdictNotApplied, Ensure
<1>10. CASE Pause
  BY <1>10, RunOps DEF Pause, PauseRun, MarkUnless, J!RunStatuses
<1>11. ASSUME NEW s \in todo, StartReconcile(s) PROVE Goal
  BY <1>11, TodoStep, JournalOps DEF StartReconcile, Handles, Ensure
<1>12. ASSUME NEW s \in todo, RetryUncertain(s) PROVE Goal
  BY <1>12, TodoStep, JournalOps DEF RetryUncertain, Handles, Ensure
<1>13. (IterationLimit \/ ContinueGroup \/ GroupDone \/ AskApproval \/ HasApproval \/
      LeaseLost) => Goal
  BY DEF IterationLimit, ContinueGroup, GroupDone, AskApproval, HasApproval, LeaseLost, OnlyTask
<1>14. CASE CompleteRun
  BY <1>14, RunOps DEF CompleteRun, J!RunStatuses
<1>15. CASE PlanModel
  BY <1>15, PlanModelStep, JournalOps, StepKinds DEF Inv1, Steps, Ensure
<1>16. CASE PlanTool
  BY <1>16, PlanToolStep, JournalOps, StepKinds DEF Inv1, Steps, Ensure
<1>17. ASSUME NEW t \in Steps, Claim(t) PROVE Goal
  BY <1>17, JournalOps DEF Claim
<1>18. CASE ClaimNone
  BY <1>18, RunOps DEF ClaimNone, PauseRun, MarkUnless, J!RunStatuses
<1>19. CASE Begin
  <2>1. cur \in Steps
    BY <1>19, CurIsStep DEF Begin, Inv1, ModelPoints
  <2> QED BY <1>19, <2>1, JournalOps DEF Begin
<1>20. CASE Stop
  BY <1>20, RunOps DEF Stop, MarkUnless, J!RunStatuses
<1>21. ((\E c \in 1 .. MaxProviderCalls : WriteOffCall(c)) \/ Reserve) => Goal
  BY DEF WriteOffCall, Reserve, OnlyLedger
<1>22. ASSUME NEW c \in 1 .. MaxProviderCalls, StartCall(c) PROVE Goal
  <2>1. cur \in Steps
    BY <1>22, CurIsStep DEF StartCall, Inv1, ModelPoints
  <2> QED BY <1>22, <2>1, JournalOps DEF StartCall
<1>23. CASE Refuse
  <2>1. cur \in Steps
    BY <1>23, CurIsStep DEF Refuse, Inv1, ModelPoints
  <2> QED BY <1>23, <2>1, JournalOps DEF Refuse
<1>24. ASSUME NEW c \in 1 .. MaxProviderCalls, NEW calls \in Replies, NEW tokens \in Usages,
             ProviderReplies(c, calls, tokens)
      PROVE  Goal
  <2>1. cur \in Steps
    BY <1>24, CurIsStep DEF ProviderReplies, Inv1, ModelPoints
  <2> QED BY <1>24, <2>1, JournalOps DEF ProviderReplies
<1>25. CASE SettleReply
  <2>1. cur \in Steps
    BY <1>25, CurIsStep DEF SettleReply, Inv1, ModelPoints
  <2> QED BY <1>25, <2>1, JournalOps DEF SettleReply
<1>26. CASE CommitModel
  <2>1. cur \in Steps
    BY <1>26, CurIsStep DEF CommitModel, Inv1, ModelPoints
  <2> QED BY <1>26, <2>1, JournalOps DEF CommitModel
<1>27. ((\E c \in 1 .. MaxProviderCalls : ProviderFails(c)) \/ SettleFailed) => Goal
  BY DEF ProviderFails, SettleFailed, OnlyLedger
<1>28. CASE FailModel
  <2>1. cur \in Steps
    BY <1>28, CurIsStep DEF FailModel, Inv1, ModelPoints
  <2> QED BY <1>28, <2>1, JournalOps DEF FailModel
<1>29. (TakeEffect) => Goal
  BY DEF TakeEffect
<1>30. CASE CommitTool
  <2>1. cur \in Steps /\ cur \in ToolSteps
    BY <1>30, CurIsStep, StepKinds DEF CommitTool, ToolReturned, Inv1
  <2>2. <<"tool", cur>> \in ReceiptKeys
    BY <2>1 DEF ReceiptKeys
  <2> QED BY <1>30, <2>1, <2>2, JournalOps DEF CommitTool
<1>31. CASE CommitReconcile
  <2>1. cur \in Steps /\ cur \in ReconcileSteps
    BY <1>31, CurIsStep, StepKinds DEF CommitReconcile, Inv1
  <2>2. <<"reconcile", cur>> \in ReceiptKeys
    BY <2>1 DEF ReceiptKeys
  <2> QED BY <1>31, <2>1, <2>2, JournalOps DEF CommitReconcile
<1>32. ((\E i \in DOMAIN approvals, decision \in A!Decisions : Decide(i, decision)) \/
      (\E i \in DOMAIN approvals : RepeatDecision(i)) \/ Resume) => Goal
  BY DEF Decide, RepeatDecision, Resume, OnlyTask
<1>33. (StartupSchedule) => Goal
  BY DEF StartupSchedule, OnlyTask
<1>34. CASE Submit
  BY <1>34, RunOps DEF Submit
<1>35. CASE Startup
  BY <1>35, RunOps DEF Startup, Reclaim
<1>36. CASE ToolRaises
  <2>1. cur \in Steps
    BY <1>36, CurIsStep DEF ToolRaises, Inv1, ModelPoints
  <2> QED BY <1>36, <2>1, JournalOps DEF ToolRaises
<1>37. CASE Cancel
  BY <1>37, RunOps DEF Cancel, J!RunStatuses
<1>38. (Crash \/ (\E c \in ToolCalls : WriteEnds(c))) => Goal
  BY DEF Crash, WriteEnds
<1>39. CASE TimePasses
  BY <1>39, RunOps DEF TimePasses
<1>40. CASE Beat
  <2>1. cur \in Steps
    BY <1>40, CurIsStep DEF Beat, Inv1, ModelPoints
  <2> QED BY <1>40, <2>1, JournalOps DEF Beat
<1>41. CASE OtherRunReclaims
  BY <1>41, RunOps DEF OtherRunReclaims
<1>42. UNCHANGED vars => Goal
  BY DEF vars, localVars
<1> HIDE DEF Goal
<1> QED
  BY <1>1, <1>2, <1>3, <1>4, <1>5, <1>6, <1>7, <1>8, <1>9, <1>10, <1>11, <1>12, <1>13, <1>14,
     <1>15, <1>16, <1>17, <1>18, <1>19, <1>20, <1>21, <1>22, <1>23, <1>24, <1>25, <1>26, <1>27,
     <1>28, <1>29, <1>30, <1>31, <1>32, <1>33, <1>34, <1>35, <1>36, <1>37, <1>38, <1>39, <1>40,
     <1>41, <1>42
     DEF Next, Task, Gate, Recovery, Loop, ModelCall, ModelFailure, ToolRun, Operator

LEMMA SameJournal ==
  /\ J!Next => JP!Next
  /\ J!Init => JP!Init
  /\ JTypeOK <=> JP!TypeOK
  /\ JTypeOK' <=> JP!TypeOK'
  /\ UNCHANGED journalVars <=> UNCHANGED JP!vars
<1>1. J!Next => JP!Next
  BY DEF J!Next, JP!Next, J!RunOperation, JP!RunOperation, J!StepOperation, JP!StepOperation,
     J!CreateRun, JP!CreateRun, J!RunsWithKey, JP!RunsWithKey, J!MarkRunStatus,
     JP!MarkRunStatus, J!RunExists, JP!RunExists, J!RunStatuses, JP!RunStatuses,
     J!RunTransitions, JP!RunTransitions, J!CreateStep, JP!CreateStep, J!CancelStep,
     JP!CancelStep, J!RecordReceipt, JP!RecordReceipt, J!ClaimReadyStep, JP!ClaimReadyStep,
     J!FirstReady, JP!FirstReady, J!ReadySteps, JP!ReadySteps, J!MarkExecuting,
     JP!MarkExecuting, J!Heartbeat, JP!Heartbeat, J!CommitStep, JP!CommitStep, J!FailStep,
     JP!FailStep, J!MarkUncertain, JP!MarkUncertain, J!FinishOwnedStep, JP!FinishOwnedStep,
     J!OwnsLiveLease, JP!OwnsLiveLease, J!ReceiptAccepted, JP!ReceiptAccepted, J!WriteReceipt,
     JP!WriteReceipt, J!Release, JP!Release, J!StepExists, JP!StepExists, J!Tick, JP!Tick,
     J!ReclaimExpiredLeases, JP!ReclaimExpiredLeases, J!ExpiredSteps, JP!ExpiredSteps,
     J!RecoveryTarget, JP!RecoveryTarget, J!Repeatable, JP!Repeatable, J!Held, JP!Held,
     J!NoReceipt, JP!NoReceipt, J!NoExpiry, JP!NoExpiry, J!runVars, JP!runVars, J!stepVars,
     JP!stepVars
<1>2. J!Init => JP!Init
  BY DEF J!Init, JP!Init, J!NoExpiry, JP!NoExpiry, J!NoReceipt, JP!NoReceipt
<1>3. (JTypeOK <=> JP!TypeOK) /\ (JTypeOK' <=> JP!TypeOK')
  BY DEF JTypeOK, J!TypeOK, JP!TypeOK, J!StepStatuses, JP!StepStatuses, J!RunStatuses,
     JP!RunStatuses, J!Receipt, JP!Receipt, J!NoReceipt, JP!NoReceipt
<1>4. UNCHANGED journalVars <=> UNCHANGED JP!vars
  BY DEF journalVars, JP!vars, JP!runVars, JP!stepVars
<1> QED BY <1>1, <1>2, <1>3, <1>4

LEMMA JournalTyped == ASSUME [Next]_vars, Inv1 PROVE JTypeOK'
<1>1. [JP!Next]_(JP!vars) /\ JP!TypeOK
  BY JournalStep, SameJournal DEF Inv1
<1> QED BY <1>1, JournalInstance, JP!TypeStep, SameJournal

LEMMA Settled ==
  ASSUME [Next]_vars, Inv1
  PROVE  /\ Terminal => runStatus'[Run] = runStatus[Run]
         /\ Terminal => Terminal'
         /\ \A s \in Steps : stepStatus[s] \in {"committed", "failed", "cancelled"} =>
                               stepStatus'[s] = stepStatus[s]
         /\ \A k \in ReceiptKeys : receipts[k] # J!NoReceipt => receipts'[k] = receipts[k]
<1>1. [JP!Next]_(JP!vars) /\ JP!TypeOK
  BY JournalStep, SameJournal DEF Inv1
<1>2. /\ \A r \in {Run} : runStatus[r] \in JP!TerminalRun => runStatus'[r] = runStatus[r]
      /\ \A s \in Steps : stepStatus[s] \in JP!TerminalStep => stepStatus'[s] = stepStatus[s]
      /\ \A k \in ReceiptKeys : receipts[k] # JP!NoReceipt => receipts'[k] = receipts[k]
  BY <1>1, JournalInstance, JP!SettledStep
<1> QED
  BY <1>2 DEF Terminal, J!TerminalRun, JP!TerminalRun, JP!TerminalStep, J!NoReceipt,
     JP!NoReceipt

\* The run and its task stand still; at most a thread writes its file.
Still == UNCHANGED <<journalVars, ledgerVars, approvals, outputVars, pc, localVars>>

LEMMA Frame ==
  ASSUME [Next]_vars
  PROVE  /\ UNCHANGED toolCalls \/ CommitModel
         /\ UNCHANGED proven \/ CommitReconcile
         /\ UNCHANGED effects \/ TakeEffect \/ \E c \in ToolCalls : WriteEnds(c)
         /\ UNCHANGED writing \/ Cancel \/ Crash \/ \E c \in ToolCalls : WriteEnds(c)
         /\ UNCHANGED crashes \/ Crash
         /\ \/ UNCHANGED approvals
            \/ \E s \in todo : AskAboutUncertain(s)
            \/ AskApproval
            \/ \E i \in DOMAIN approvals, decision \in A!Decisions : Decide(i, decision)
<1> DEFINE Kept == UNCHANGED <<toolCalls, proven, effects, writing, crashes, approvals>>
<1>1. Submit => Kept
  BY DEF Submit, OnlyJournal, outputVars
<1>2. Execute => Kept
  BY DEF Execute, OnlyJournal, outputVars
<1>3. GatePending => Kept
  BY DEF GatePending, OnlyJournal, outputVars
<1>4. GateRejected => Kept
  BY DEF GateRejected, OnlyJournal, outputVars
<1>5. Reject => Kept
  BY DEF Reject, OnlyJournal, outputVars
<1>6. GatePassed => Kept
  BY DEF GatePassed, OnlyTask, outputVars
<1>7. Proceed => Kept
  BY DEF Proceed, OnlyJournal, outputVars
<1>8. \A s \in todo : SkipUncertain(s) => Kept
  BY DEF SkipUncertain, OnlyTask, outputVars
<1>9. \A s \in todo : StartReconcile(s) => Kept
  BY DEF StartReconcile, OnlyJournal, outputVars
<1>10. \A s \in todo : RetryUncertain(s) => Kept
  BY DEF RetryUncertain, OnlyJournal, outputVars
<1>11. VerdictApplied => Kept
  BY DEF VerdictApplied, OnlyJournal, outputVars
<1>12. VerdictNotApplied => Kept
  BY DEF VerdictNotApplied, OnlyJournal, outputVars
<1>13. Pause => Kept
  BY DEF Pause, OnlyJournal, outputVars
<1>14. CompleteRun => Kept
  BY DEF CompleteRun, OnlyJournal, outputVars
<1>15. IterationLimit => Kept
  BY DEF IterationLimit, OnlyTask, outputVars
<1>16. ContinueGroup => Kept
  BY DEF ContinueGroup, OnlyTask, outputVars
<1>17. PlanModel => Kept
  BY DEF PlanModel, OnlyJournal, outputVars
<1>18. PlanTool => Kept
  BY DEF PlanTool, OnlyJournal, outputVars
<1>19. GroupDone => Kept
  BY DEF GroupDone, OnlyTask, outputVars
<1>20. HasApproval => Kept
  BY DEF HasApproval, OnlyTask, outputVars
<1>21. \A t \in Steps : Claim(t) => Kept
  BY DEF Claim, OnlyJournal, outputVars
<1>22. ClaimNone => Kept
  BY DEF ClaimNone, OnlyJournal, outputVars
<1>23. Begin => Kept
  BY DEF Begin, OnlyJournal, outputVars
<1>24. LeaseLost => Kept
  BY DEF LeaseLost, OnlyTask, outputVars
<1>25. \A c \in 1 .. MaxProviderCalls : WriteOffCall(c) => Kept
  BY DEF WriteOffCall, OnlyLedger, outputVars
<1>26. \A c \in 1 .. MaxProviderCalls : StartCall(c) => Kept
  BY DEF StartCall, outputVars
<1>27. Reserve => Kept
  BY DEF Reserve, OnlyLedger, outputVars
<1>28. Refuse => Kept
  BY DEF Refuse, OnlyJournal, outputVars
<1>29. \A c \in 1 .. MaxProviderCalls, calls \in Replies, tokens \in Usages :
         ProviderReplies(c, calls, tokens) => Kept
  BY DEF ProviderReplies, outputVars
<1>30. SettleReply => Kept
  BY DEF SettleReply, outputVars
<1>31. \A c \in 1 .. MaxProviderCalls : ProviderFails(c) => Kept
  BY DEF ProviderFails, OnlyLedger, outputVars
<1>32. SettleFailed => Kept
  BY DEF SettleFailed, OnlyLedger, outputVars
<1>33. FailModel => Kept
  BY DEF FailModel, OnlyJournal, outputVars
<1>34. CommitTool => Kept
  BY DEF CommitTool, OnlyJournal, outputVars
<1>35. ToolRaises => Kept
  BY DEF ToolRaises, OnlyJournal, outputVars
<1>36. Stop => Kept
  BY DEF Stop, OnlyJournal, outputVars
<1>37. Startup => Kept
  BY DEF Startup, OnlyJournal, outputVars
<1>38. StartupSchedule => Kept
  BY DEF StartupSchedule, OnlyTask, outputVars
<1>39. \A i \in DOMAIN approvals : RepeatDecision(i) => Kept
  BY DEF RepeatDecision, OnlyTask, outputVars
<1>40. Resume => Kept
  BY DEF Resume, OnlyTask, outputVars
<1>41. Cancel => UNCHANGED <<toolCalls, proven, effects, crashes, approvals>>
  BY DEF Cancel, outputVars
<1>42. TimePasses => Kept
  BY DEF TimePasses, OnlyJournal, outputVars
<1>43. Beat => Kept
  BY DEF Beat, OnlyJournal, outputVars
<1>44. OtherRunReclaims => Kept
  BY DEF OtherRunReclaims, OnlyJournal, outputVars
<1>45. UNCHANGED vars => Kept
  BY DEF vars, outputVars
<1>46. CommitModel => UNCHANGED <<proven, effects, writing, crashes, approvals>>
  BY DEF CommitModel
<1>47. CommitReconcile => UNCHANGED <<toolCalls, effects, writing, crashes, approvals>>
  BY DEF CommitReconcile
<1>48. TakeEffect => UNCHANGED <<toolCalls, proven, writing, crashes, approvals>>
  BY DEF TakeEffect, outputVars
<1>49. Crash => UNCHANGED <<toolCalls, proven, effects, approvals>>
  BY DEF Crash, outputVars
<1>50. \A s \in todo :
         AskAboutUncertain(s) => UNCHANGED <<toolCalls, proven, effects, writing, crashes>>
  BY DEF AskAboutUncertain, outputVars
<1>51. AskApproval => UNCHANGED <<toolCalls, proven, effects, writing, crashes>>
  BY DEF AskApproval, outputVars
<1>52. \A i \in DOMAIN approvals, decision \in A!Decisions :
         Decide(i, decision) => UNCHANGED <<toolCalls, proven, effects, writing, crashes>>
  BY DEF Decide, outputVars
<1>53. \A c \in ToolCalls : WriteEnds(c) => UNCHANGED <<toolCalls, proven, crashes, approvals>>
  BY DEF WriteEnds, outputVars
<1> QED
  BY <1>1, <1>2, <1>3, <1>4, <1>5, <1>6, <1>7, <1>8, <1>9, <1>10, <1>11, <1>12, <1>13, <1>14,
     <1>15, <1>16, <1>17, <1>18, <1>19, <1>20, <1>21, <1>22, <1>23, <1>24, <1>25, <1>26, <1>27,
     <1>28, <1>29, <1>30, <1>31, <1>32, <1>33, <1>34, <1>35, <1>36, <1>37, <1>38, <1>39, <1>40,
     <1>41, <1>42, <1>43, <1>44, <1>45, <1>46, <1>47, <1>48, <1>49, <1>50, <1>51, <1>52,
     <1>53
     DEF Next, Task, Gate, Recovery, Loop, ModelCall, ModelFailure, ToolRun, Operator

\* Where a step leaves the task.
OwnLocal ==
  /\ pc \in Points /\ cur \in Steps \cup {NoStep}
  /\ reply \in [calls : Replies \cup {{}}, tokens : Usages \cup {0}]
TodoShort == pc \in {"idle", "down", "starting", "execute", "gate"} => todo = {}

LEMMA Control ==
  ASSUME [Next]_vars, Inv1
  PROVE  OwnLocal' /\ CurFits' /\ TodoShort' /\ ReplyFits' /\ (todo' \subseteq todo \/ GatePassed)
<1> DEFINE Goal ==
      OwnLocal' /\ CurFits' /\ TodoShort' /\ ReplyFits' /\ (todo' \subseteq todo \/ GatePassed)
<1> SUFFICES Goal
  OBVIOUS
<1> USE DEF Inv1, OwnTypes, TodoFits
<1>1. (Execute \/ GatePending \/ GateRejected \/ Reject \/ GatePassed) => Goal
  BY DEF Execute, GatePending, GateRejected, Reject, GatePassed, Goto, Return, Reset, localVars,
     Points, OwnLocal, CurFits, ModelPoints, TodoShort, ReplyFits, NoReply
<1>2. (Proceed \/ VerdictApplied \/ Pause \/ (\E s \in todo : SkipUncertain(s)) \/
      (\E s \in todo : AskAboutUncertain(s))) => Goal
  BY DEF Proceed, VerdictApplied, Pause, SkipUncertain, AskAboutUncertain, Goto, Handled,
     Return, Reset, localVars, Points, OwnLocal, CurFits, ModelPoints, TodoShort, ReplyFits,
     NoReply
<1>3. CASE VerdictNotApplied
  <2>1. Replacement(ReconciledBy(cur)) \in ToolSteps /\ Replacement(ReconciledBy(cur)) \in Steps
    BY <1>3, VerdictStep DEF VerdictNotApplied
  <2> QED BY <1>3, <2>1
      DEF VerdictNotApplied, WorkOn, Points, OwnLocal, CurFits, ModelPoints, TodoShort,
      ReplyFits
<1>4. ASSUME NEW s \in todo, StartReconcile(s) PROVE Goal
  <2>1. s \in todo /\ ReconcilerOf(s) \in ReconcileSteps /\ ReconcilerOf(s) \in Steps
    BY <1>4, TodoStep DEF StartReconcile, Handles
  <2> QED BY <1>4, <2>1
      DEF StartReconcile, WorkOn, Points, OwnLocal, CurFits, ModelPoints, TodoShort, ReplyFits
<1>5. ASSUME NEW s \in todo, RetryUncertain(s) PROVE Goal
  <2>1. Replacement(s) \in ToolSteps /\ Replacement(s) \in Steps
    BY <1>5, TodoStep DEF RetryUncertain, Handles
  <2> QED BY <1>5, <2>1
      DEF RetryUncertain, WorkOn, Points, OwnLocal, CurFits, ModelPoints, TodoShort, ReplyFits
<1>6. (CompleteRun \/ IterationLimit \/ GroupDone \/ AskApproval \/
      (\E t \in Steps : Claim(t)) \/ ClaimNone \/ LeaseLost \/ Stop) => Goal
  BY DEF CompleteRun, IterationLimit, GroupDone, AskApproval, Claim, ClaimNone, LeaseLost, Stop,
     Goto, WorkOn, Return, Reset, localVars, Points, OwnLocal, CurFits, ModelPoints, TodoShort,
     ReplyFits, NoReply
<1>7. CASE ContinueGroup
  <2>1. PICK s \in ToolSteps : WorkOn("group", s)
    BY <1>7, ContinueGroupStep
  <2>2. s \in Steps
    BY ToolStepFacts
  <2> QED BY <2>1, <2>2 DEF WorkOn, Points, OwnLocal, CurFits, ModelPoints, TodoShort, ReplyFits
<1>8. CASE PlanModel
  <2>1. Goto("stop") \/ \E s \in ModelSteps : WorkOn("claim", s)
    BY <1>8, PlanModelStep
  <2>2. ModelSteps \in SUBSET Steps
    BY DEF Steps
  <2> QED BY <2>1, <2>2
      DEF Goto, WorkOn, localVars, Points, OwnLocal, CurFits, ModelPoints, TodoShort, ReplyFits
<1>9. CASE PlanTool
  <2>1. PICK s \in ToolSteps : WorkOn("approve", s)
    BY <1>9, PlanToolStep
  <2>2. s \in Steps
    BY ToolStepFacts
  <2> QED BY <2>1, <2>2
      DEF Goto, WorkOn, localVars, Points, OwnLocal, CurFits, ModelPoints, TodoShort, ReplyFits
<1>10. CASE HasApproval
  <2> QED BY <1>10, CurKind
      DEF HasApproval, Goto, WorkOn, localVars, Points, OwnLocal, CurFits, ModelPoints,
      TodoShort, ReplyFits
<1>11. CASE Begin
  <2> QED BY <1>11, CurKind
      DEF Begin, Goto, WorkOn, localVars, Points, OwnLocal, CurFits, ModelPoints, TodoShort,
      ReplyFits
<1>12. ((\E c \in 1 .. MaxProviderCalls : WriteOffCall(c)) \/ Reserve \/ Refuse \/
      CommitModel) => Goal
  BY DEF WriteOffCall, Reserve, Refuse, CommitModel, Goto, WorkOn, Reset, localVars,
     Points,
     OwnLocal, CurFits, ModelPoints, TodoShort, ReplyFits, NoReply
<1>13. ASSUME NEW c \in 1 .. MaxProviderCalls, StartCall(c) PROVE Goal
  <2> QED BY <1>13, CurKind
      DEF StartCall, Goto, WorkOn, localVars, Points, OwnLocal, CurFits, ModelPoints, TodoShort,
      ReplyFits
<1>14. ASSUME NEW c \in 1 .. MaxProviderCalls, NEW calls \in Replies, NEW tokens \in Usages,
             ProviderReplies(c, calls, tokens)
      PROVE  Goal
  <2> QED BY <1>14, CurKind
      DEF ProviderReplies, Goto, WorkOn, localVars, Points, OwnLocal, CurFits, ModelPoints,
      TodoShort, ReplyFits
<1>15. CASE SettleReply
  <2> QED BY <1>15, CurKind
      DEF SettleReply, Goto, WorkOn, localVars, Points, Settle, OwnLocal, CurFits, ModelPoints,
      TodoShort, ReplyFits
<1>16. (FailModel) => Goal
  BY DEF FailModel, Goto, WorkOn, Reset, localVars, Points, OwnLocal, CurFits, ModelPoints,
     TodoShort, ReplyFits, NoReply
<1>17. ASSUME NEW c \in 1 .. MaxProviderCalls, ProviderFails(c) PROVE Goal
  <2> QED BY <1>17, CurKind
      DEF ProviderFails, Goto, WorkOn, localVars, Points, OwnLocal, CurFits, ModelPoints,
      TodoShort, ReplyFits
<1>18. CASE SettleFailed
  <2> QED BY <1>18, CurKind
      DEF SettleFailed, Goto, WorkOn, localVars, Points, Settle, OwnLocal, CurFits, ModelPoints,
      TodoShort, ReplyFits
<1>19. CASE TakeEffect
  <2>2. cur \in ToolSteps
    BY <1>19, CurKind DEF TakeEffect
  <2> QED BY <2>2, <1>19, CurKind
      DEF TakeEffect, Goto, WorkOn, localVars, Points, OwnLocal, CurFits, ModelPoints,
      TodoShort, ReplyFits
<1>20. CASE CommitTool
  <2>2. cur \in ToolSteps
    BY <1>20, CurKind DEF CommitTool, ToolReturned
  <2> QED BY <2>2, <1>20, CurKind
      DEF CommitTool, Goto, WorkOn, Handled, localVars, Points, OwnLocal, CurFits, ModelPoints,
      TodoShort, ReplyFits
<1>21. CASE CommitReconcile
  <2>2. cur \in ReconcileSteps
    BY <1>21, CurKind DEF CommitReconcile
  <2> QED BY <2>2, <1>21, CurKind
      DEF CommitReconcile, Goto, WorkOn, localVars, Points, OwnLocal, CurFits, ModelPoints,
      TodoShort, ReplyFits
<1>22. ((\E i \in DOMAIN approvals, decision \in A!Decisions : Decide(i, decision)) \/
      (\E i \in DOMAIN approvals : RepeatDecision(i)) \/ Resume) => Goal
  BY DEF Decide, RepeatDecision, Resume, Goto, WorkOn, localVars, Points, OwnLocal, CurFits,
     ModelPoints, TodoShort, ReplyFits
<1>23. (Submit \/ Startup \/ StartupSchedule \/ ToolRaises \/ Cancel) => Goal
  BY DEF Submit, Startup, StartupSchedule, ToolRaises, Cancel, Goto, WorkOn, Return, Reset,
     localVars, Points, OwnLocal, CurFits, ModelPoints, TodoShort, ReplyFits, NoReply
<1>24. (Crash \/ TimePasses \/ Beat \/ OtherRunReclaims \/
      (\E c \in ToolCalls : WriteEnds(c))) => Goal
  BY DEF Crash, TimePasses, Beat, OtherRunReclaims, WriteEnds, Goto, WorkOn, Reset, localVars,
     Points,
     OwnLocal, CurFits, ModelPoints, TodoShort, ReplyFits, NoReply
<1>25. CASE UNCHANGED vars
  <2>1. UNCHANGED <<pc, cur, todo, reply>>
    BY <1>25 DEF vars, localVars
  <2> QED BY <2>1 DEF Goto, WorkOn, localVars, Points, OwnLocal, CurFits, ModelPoints,
      TodoShort, ReplyFits
<1> HIDE DEF Goal
<1> QED
  BY <1>1, <1>2, <1>3, <1>4, <1>5, <1>6, <1>7, <1>8, <1>9, <1>10, <1>11, <1>12, <1>13, <1>14,
     <1>15, <1>16, <1>17, <1>18, <1>19, <1>20, <1>21, <1>22, <1>23, <1>24, <1>25
     DEF Next, Task, Gate, Recovery, Loop, ModelCall, ModelFailure, ToolRun, Operator

----------------------------------------------------------------------------
(***************************************************************************)
(* Each step keeps Inv1.                                                   *)
(***************************************************************************)
LEMMA StatusChange ==
  ASSUME [Next]_vars, Inv1, NEW s \in Steps
  PROVE  \/ stepStatus'[s] = stepStatus[s] /\ attempts'[s] = attempts[s]
         \/ /\ Execute \/ Startup \/ OtherRunReclaims
            /\ stepStatus[s] \in J!Held /\ stepStatus'[s] = J!RecoveryTarget(s)
            /\ attempts'[s] = attempts[s]
         \/ /\ GateRejected /\ attempts'[s] = attempts[s]
            /\ stepStatus[s] \in {"ready", "uncertain"} /\ stepStatus'[s] = "cancelled"
         \/ /\ Creates(s) /\ attempts'[s] = attempts[s]
            /\ stepStatus[s] = "absent" /\ stepStatus'[s] = "ready"
         \/ /\ Claim(s) /\ attempts'[s] = attempts[s] + 1
            /\ stepStatus[s] = "ready" /\ stepStatus'[s] = "leased"
         \/ /\ Begin /\ s = cur /\ attempts'[s] = attempts[s]
            /\ stepStatus[s] = "leased" /\ stepStatus'[s] = "executing"
         \/ /\ Refuse \/ FailModel \/ ToolRaises
            /\ s = cur /\ attempts'[s] = attempts[s]
            /\ stepStatus[s] \in J!Held /\ stepStatus'[s] = "failed"
         \/ /\ CommitModel \/ CommitTool \/ CommitReconcile
            /\ s = cur /\ attempts'[s] = attempts[s]
            /\ stepStatus[s] = "executing" /\ stepStatus'[s] = "committed"
<1>1. stepStatus \in [Steps -> J!StepStatuses \cup {"absent"}] /\ attempts \in [Steps -> Nat]
  BY DEF Inv1, JTypeOK, J!TypeOK
<1>2. ASSUME NEW t, NEW from, NEW to, Moves(t, from, to)
      PROVE  /\ t \in Steps /\ stepStatus[t] \in from /\ stepStatus'[t] = to
             /\ s # t => stepStatus'[s] = stepStatus[s]
  BY <1>1, <1>2 DEF Moves
<1>3. CASE UNCHANGED <<stepStatus, attempts>>
  BY <1>3
<1>4. ASSUME Execute \/ Startup \/ OtherRunReclaims, J!ReclaimExpiredLeases
      PROVE  /\ attempts'[s] = attempts[s]
             /\ \/ stepStatus'[s] = stepStatus[s]
                \/ stepStatus[s] \in J!Held /\ stepStatus'[s] = J!RecoveryTarget(s)
  BY <1>4 DEF J!ReclaimExpiredLeases, J!ExpiredSteps
<1>5. ASSUME GateRejected, UNCHANGED attempts,
             NEW t \in Steps, Moves(t, {"ready", "uncertain"}, "cancelled")
      PROVE  \/ stepStatus'[s] = stepStatus[s]
             \/ stepStatus[s] \in {"ready", "uncertain"} /\ stepStatus'[s] = "cancelled"
  BY <1>2, <1>5
<1>6. ASSUME NEW t \in Steps, Moves(t, {"absent"}, "ready"), Creates(t), UNCHANGED attempts
      PROVE  \/ stepStatus'[s] = stepStatus[s]
             \/ Creates(s) /\ stepStatus[s] = "absent" /\ stepStatus'[s] = "ready"
  BY <1>2, <1>6
<1>7. ASSUME NEW t \in Steps, Moves(t, {"ready"}, "leased"), Claim(t),
             attempts' = [attempts EXCEPT ![t] = @ + 1]
      PROVE  \/ stepStatus'[s] = stepStatus[s] /\ attempts'[s] = attempts[s]
             \/ /\ Claim(s) /\ attempts'[s] = attempts[s] + 1
                /\ stepStatus[s] = "ready" /\ stepStatus'[s] = "leased"
  BY <1>1, <1>2, <1>7
<1>8. ASSUME Moves(cur, {"leased"}, "executing")
      PROVE  \/ stepStatus'[s] = stepStatus[s]
             \/ s = cur /\ stepStatus[s] = "leased" /\ stepStatus'[s] = "executing"
  BY <1>2, <1>8
<1>9. ASSUME Moves(cur, J!Held, "failed")
      PROVE  \/ stepStatus'[s] = stepStatus[s]
             \/ s = cur /\ stepStatus[s] \in J!Held /\ stepStatus'[s] = "failed"
  BY <1>2, <1>9
<1>10. ASSUME Moves(cur, {"executing"}, "committed")
       PROVE  \/ stepStatus'[s] = stepStatus[s]
              \/ s = cur /\ stepStatus[s] = "executing" /\ stepStatus'[s] = "committed"
  BY <1>2, <1>10
<1> QED BY <1>3, <1>4, <1>5, <1>6, <1>7, <1>8, <1>9, <1>10, StepMoves

LEMMA StatusKept ==
  ASSUME [Next]_vars, Inv1, NEW s \in Steps
  PROVE  /\ stepStatus[s] # "absent" => stepStatus'[s] # "absent"
         /\ stepStatus[s] = "absent" /\ stepStatus'[s] # "absent" =>
              Creates(s) /\ stepStatus'[s] = "ready"
         /\ stepStatus[s] = "uncertain" =>
              stepStatus'[s] = "uncertain" \/ (GateRejected /\ stepStatus'[s] = "cancelled")
         /\ stepStatus[s] = "committed" => stepStatus'[s] = "committed"
         /\ stepStatus[s] = "cancelled" => stepStatus'[s] = "cancelled"
         /\ stepStatus'[s] = "uncertain" =>
              \/ stepStatus[s] = "uncertain"
              \/ (stepStatus[s] \in J!Held /\ Safety[s] \notin J!Repeatable)
<1>1. stepStatus[s] # "absent" => stepStatus'[s] # "absent"
  BY StatusChange DEF J!RecoveryTarget
<1>2. stepStatus[s] = "absent" /\ stepStatus'[s] # "absent" =>
        Creates(s) /\ stepStatus'[s] = "ready"
  BY StatusChange DEF J!Held
<1>3. stepStatus[s] = "uncertain" =>
        stepStatus'[s] = "uncertain" \/ (GateRejected /\ stepStatus'[s] = "cancelled")
  BY StatusChange DEF J!Held
<1>4. stepStatus[s] \in {"committed", "cancelled"} => stepStatus'[s] = stepStatus[s]
  BY Settled
<1>5. stepStatus'[s] = "uncertain" =>
        stepStatus[s] = "uncertain" \/ (stepStatus[s] \in J!Held /\ Safety[s] \notin J!Repeatable)
  BY StatusChange DEF J!RecoveryTarget
<1> QED BY <1>1, <1>2, <1>3, <1>4, <1>5

LEMMA AnsweredStays ==
  ASSUME [Next]_vars, Inv1, NEW i \in Iterations
  PROVE  Answered(i) => Answered(i)'
<1>1. CASE UNCHANGED toolCalls
  BY <1>1 DEF Answered
<1>2. CASE CommitModel
  <2>1. reply.calls \in Replies
    BY <1>2 DEF Inv1, ReplyFits, CommitModel
  <2>2. reply.calls # None
    BY <2>1, NoneAssumption
  <2> QED BY <1>2, <2>2 DEF CommitModel, Answered, Inv1, OwnTypes
<1> QED BY <1>1, <1>2, Frame

LEMMA TodoFitsStep == ASSUME [Next]_vars, Inv1 PROVE TodoFits'
<1>1. TodoShort'
  BY Control
<1>2. CASE GatePassed
  BY <1>2, <1>1 DEF GatePassed, OnlyTask, journalVars, TodoFits, UncertainSteps, TodoShort
<1>3. CASE todo' \subseteq todo
  <2>1. ASSUME NEW s \in todo', ~(s \in UncertainSteps') PROVE FALSE
    <3>1. s \in Steps /\ stepStatus[s] = "uncertain"
      BY <1>3, <2>1 DEF Inv1, TodoFits, UncertainSteps
    <3>2. stepStatus'[s] # "uncertain"
      BY <2>1, <3>1 DEF UncertainSteps
    <3>3. GateRejected
      BY <3>1, <3>2, StatusKept
    <3> QED BY <1>3, <2>1, <3>3 DEF GateRejected, Inv1, TodoFits
  <2> QED BY <1>1, <2>1 DEF TodoFits, TodoShort
<1> QED BY <1>2, <1>3, Control

LEMMA UncertainUnsafeStep == ASSUME [Next]_vars, Inv1 PROVE UncertainUnsafe'
<1>1. ASSUME NEW s \in Steps, stepStatus'[s] = "uncertain"
      PROVE  s \in ToolSteps /\ Safety[s] \notin J!Repeatable
  <2>1. Safety[s] \notin J!Repeatable
    BY <1>1, StatusKept DEF Inv1, UncertainUnsafe
  <2> QED BY <2>1, StepKinds DEF J!Repeatable
<1> QED BY <1>1 DEF UncertainUnsafe, J!Repeatable

LEMMA ReconcilingFrom ==
  ASSUME [Next]_vars, Inv1
  PROVE  pc' \in {"claim", "begin", "work", "verdict"} /\ cur' \in ReconcileSteps =>
           \/ cur' = cur /\ pc \in {"claim", "begin", "work", "verdict"}
           \/ \E u \in todo : StartReconcile(u) /\ cur' = ReconcilerOf(u)
<1> DEFINE Goal ==
      pc' \in {"claim", "begin", "work", "verdict"} /\ cur' \in ReconcileSteps =>
        \/ cur' = cur /\ pc \in {"claim", "begin", "work", "verdict"}
        \/ \E u \in todo : StartReconcile(u) /\ cur' = ReconcilerOf(u)
<1> SUFFICES Goal
  OBVIOUS
<1>1. (Execute \/ GatePending \/ GateRejected \/ Reject \/ GatePassed) => Goal
  BY DEF Execute, GatePending, GateRejected, Reject, GatePassed, Goto, Return, Reset, localVars
<1>2. (Proceed \/ VerdictApplied \/ VerdictNotApplied \/ Pause \/
      (\E s \in todo : SkipUncertain(s)) \/ (\E s \in todo : AskAboutUncertain(s))) => Goal
  BY DEF Proceed, VerdictApplied, VerdictNotApplied, Pause, SkipUncertain, AskAboutUncertain,
     Goto, WorkOn, Handled, Return, Reset, localVars
<1>3. ASSUME NEW s \in todo, StartReconcile(s) PROVE Goal
  BY <1>3 DEF StartReconcile, WorkOn
<1>4. ASSUME NEW s \in todo, RetryUncertain(s) PROVE Goal
  <2>1. Replacement(s) \in ToolSteps
    BY <1>4, TodoStep DEF RetryUncertain, Handles
  <2> QED BY <1>4, <2>1, ToolStepFacts, ReconcileStepFacts DEF RetryUncertain, WorkOn
<1>5. (CompleteRun \/ IterationLimit \/ ContinueGroup \/ GroupDone \/ AskApproval \/
      (\E t \in Steps : Claim(t)) \/ ClaimNone \/ Begin \/ LeaseLost \/ Stop) => Goal
  BY DEF CompleteRun, IterationLimit, ContinueGroup, GroupDone, AskApproval, Claim, ClaimNone,
     Begin, LeaseLost, Stop, Goto, WorkOn, Return, Reset, localVars
<1>6. CASE PlanModel
  BY <1>6, PlanModelStep, ModelStepFacts, ReconcileStepFacts DEF Goto, WorkOn, localVars
<1>7. CASE PlanTool
  BY <1>7, PlanToolStep, ToolStepFacts, ReconcileStepFacts DEF Inv1, WorkOn
<1>8. CASE HasApproval
  BY <1>8, ToolStepFacts, ReconcileStepFacts DEF HasApproval, Goto, localVars, Inv1, CurFits
<1>9. ((\E c \in 1 .. MaxProviderCalls : WriteOffCall(c)) \/ Reserve \/ Refuse \/
      (\E c \in 1 .. MaxProviderCalls, calls \in Replies, tokens \in Usages :
         ProviderReplies(c, calls, tokens)) \/
      CommitModel) => Goal
  BY DEF WriteOffCall, Reserve, Refuse, ProviderReplies, CommitModel, Goto, Reset, localVars
<1>10. ASSUME NEW c \in 1 .. MaxProviderCalls, StartCall(c) PROVE Goal
  BY <1>10, ModelStepFacts, ReconcileStepFacts
     DEF StartCall, Goto, localVars, Inv1, CurFits, ModelPoints
<1>11. CASE SettleReply
  BY <1>11 DEF SettleReply, Settle, Goto, localVars
<1>12. ((\E c \in 1 .. MaxProviderCalls : ProviderFails(c)) \/ FailModel) => Goal
  BY DEF ProviderFails, FailModel, Goto, Reset, localVars
<1>13. CASE SettleFailed
  BY <1>13 DEF SettleFailed, Settle, Goto, localVars
<1>14. (TakeEffect \/ CommitTool \/ CommitReconcile) => Goal
  BY DEF TakeEffect, CommitTool, CommitReconcile, Goto, Handled, localVars
<1>15. ((\E i \in DOMAIN approvals, decision \in A!Decisions : Decide(i, decision)) \/
      (\E i \in DOMAIN approvals : RepeatDecision(i)) \/ Resume) => Goal
  BY DEF Decide, RepeatDecision, Resume, Goto, localVars
<1>16. (Submit \/ Startup \/ StartupSchedule \/ ToolRaises \/ Cancel) => Goal
  BY DEF Submit, Startup, StartupSchedule, ToolRaises, Cancel, Goto, Return, Reset, localVars
<1>17. (Crash \/ TimePasses \/ Beat \/ OtherRunReclaims \/
      (\E c \in ToolCalls : WriteEnds(c))) => Goal
  BY DEF Crash, TimePasses, Beat, OtherRunReclaims, WriteEnds, Reset, localVars
<1>18. CASE UNCHANGED vars
  BY <1>18 DEF vars, localVars
<1> HIDE DEF Goal
<1> QED
  BY <1>1, <1>2, <1>3, <1>4, <1>5, <1>6, <1>7, <1>8, <1>9, <1>10, <1>11, <1>12, <1>13, <1>14,
     <1>15, <1>16, <1>17, <1>18
     DEF Next, Task, Gate, Recovery, Loop, ModelCall, ModelFailure, ToolRun, Operator

LEMMA ReconcilingStep == ASSUME [Next]_vars, Inv1 PROVE Reconciling'
<1> SUFFICES ASSUME pc' \in {"claim", "begin", "work", "verdict"}, cur' \in ReconcileSteps
             PROVE  /\ stepStatus'[ReconciledBy(cur')] = "uncertain"
                    /\ Safety[ReconciledBy(cur')] = "reconcilable"
  BY DEF Reconciling
<1>1. ReconciledBy(cur') \in Steps
  BY ReconcileStepFacts, ToolStepFacts
<1>2. ~GateRejected
  BY DEF GateRejected, Goto
<1>3. CASE cur' = cur /\ pc \in {"claim", "begin", "work", "verdict"}
  <2>1. stepStatus[ReconciledBy(cur')] = "uncertain" /\ Safety[ReconciledBy(cur')] = "reconcilable"
    BY <1>3 DEF Inv1, Reconciling
  <2> QED BY <1>1, <1>2, <2>1, StatusKept
<1>4. ASSUME NEW u \in todo, StartReconcile(u), cur' = ReconcilerOf(u)
      PROVE  /\ stepStatus'[ReconciledBy(cur')] = "uncertain"
             /\ Safety[ReconciledBy(cur')] = "reconcilable"
  <2>1. u \in ToolSteps /\ stepStatus[u] = "uncertain" /\ Safety[u] = "reconcilable"
    BY <1>4, TodoStep DEF StartReconcile, Handles
  <2>2. ReconciledBy(cur') = u
    BY <1>4, <2>1, ToolStepFacts
  <2> QED BY <1>1, <1>2, <2>1, <2>2, StatusKept
<1> QED BY <1>3, <1>4, ReconcilingFrom

LEMMA StopEnds ==
  ASSUME [Next]_vars, Inv1
  PROVE  pc = "stop" => pc' = "stop" \/ Terminal' \/ Crash
<1> DEFINE Goal ==
      pc = "stop" => pc' = "stop" \/ Terminal' \/ Crash
<1> SUFFICES Goal
  OBVIOUS
<1>1. (Execute \/ GatePending \/ GateRejected \/ Reject \/ GatePassed) => Goal
  BY DEF Execute, GatePending, GateRejected, Reject, GatePassed
<1>2. (Proceed \/ VerdictApplied \/ VerdictNotApplied \/ Pause \/
      (\E s \in todo : SkipUncertain(s)) \/ (\E s \in todo : StartReconcile(s)) \/
      (\E s \in todo : AskAboutUncertain(s)) \/ (\E s \in todo : RetryUncertain(s))) => Goal
  BY DEF Proceed, VerdictApplied, VerdictNotApplied, Pause, SkipUncertain, StartReconcile,
     AskAboutUncertain, RetryUncertain, Handles
<1>3. (CompleteRun \/ IterationLimit \/ ContinueGroup \/ PlanModel \/ PlanTool \/ GroupDone \/
      AskApproval \/ HasApproval \/ (\E t \in Steps : Claim(t)) \/ ClaimNone \/ Begin \/
      LeaseLost) => Goal
  BY DEF CompleteRun, IterationLimit, ContinueGroup, PlanModel, PlanTool, GroupDone,
     AskApproval, HasApproval, Claim, ClaimNone, Begin, LeaseLost
<1>4. CASE Stop
  BY <1>4
     DEF Stop, MarkUnless, J!MarkRunStatus, Terminal, J!TerminalRun, J!RunTransitions,
     journalVars, Inv1, JTypeOK, J!TypeOK
<1>5. ((\E c \in 1 .. MaxProviderCalls : WriteOffCall(c)) \/
      (\E c \in 1 .. MaxProviderCalls : StartCall(c)) \/ Reserve \/ Refuse \/
      (\E c \in 1 .. MaxProviderCalls, calls \in Replies, tokens \in Usages :
         ProviderReplies(c, calls, tokens)) \/
      SettleReply \/ CommitModel) => Goal
  BY DEF WriteOffCall, StartCall, Reserve, Refuse, ProviderReplies, SettleReply, CommitModel
<1>6. ((\E c \in 1 .. MaxProviderCalls : ProviderFails(c)) \/ SettleFailed \/ FailModel) => Goal
  BY DEF ProviderFails, SettleFailed, FailModel
<1>7. (TakeEffect \/ CommitReconcile) => Goal
  BY DEF TakeEffect, CommitReconcile
<1>8. CASE CommitTool
  BY <1>8 DEF CommitTool, ToolReturned
<1>9. ((\E i \in DOMAIN approvals, decision \in A!Decisions : Decide(i, decision)) \/
      (\E i \in DOMAIN approvals : RepeatDecision(i)) \/ Resume) => Goal
  BY DEF Decide, RepeatDecision, Resume
<1>10. (Submit \/ Startup \/ StartupSchedule \/ ToolRaises \/ Cancel) => Goal
  BY DEF Submit, Startup, StartupSchedule, ToolRaises, Cancel
<1>11. (Crash \/ TimePasses \/ Beat \/ OtherRunReclaims \/
      (\E c \in ToolCalls : WriteEnds(c))) => Goal
  BY DEF Crash, TimePasses, Beat, OtherRunReclaims, WriteEnds, Waiting
<1>12. CASE UNCHANGED vars
  BY <1>12 DEF vars
<1> HIDE DEF Goal
<1> QED
  BY <1>1, <1>2, <1>3, <1>4, <1>5, <1>6, <1>7, <1>8, <1>9, <1>10, <1>11, <1>12
     DEF Next, Task, Gate, Recovery, Loop, ModelCall, ModelFailure, ToolRun, Operator

LEMMA WorkEnds ==
  ASSUME [Next]_vars, Inv1
  PROVE  pc \in {"begin", "work", "worked"} /\ cur \in ToolSteps =>
                  \/ pc' \in {"begin", "work", "worked"} /\ cur' = cur
                  \/ pc' = "stop" \/ Terminal' \/ Crash
                  \/ stepStatus'[cur] \in {"committed", "failed"}
<1> DEFINE Goal ==
      pc \in {"begin", "work", "worked"} /\ cur \in ToolSteps =>
               \/ pc' \in {"begin", "work", "worked"} /\ cur' = cur
               \/ pc' = "stop" \/ Terminal' \/ Crash
               \/ stepStatus'[cur] \in {"committed", "failed"}
<1> SUFFICES Goal
  OBVIOUS
<1>1. (Execute \/ GatePending \/ GateRejected \/ Reject \/ GatePassed) => Goal
  BY DEF Execute, GatePending, GateRejected, Reject, GatePassed, Goto, Return, Reset, localVars
<1>2. (Proceed \/ VerdictApplied \/ VerdictNotApplied \/ Pause \/
      (\E s \in todo : SkipUncertain(s)) \/ (\E s \in todo : StartReconcile(s)) \/
      (\E s \in todo : AskAboutUncertain(s)) \/ (\E s \in todo : RetryUncertain(s))) => Goal
  BY DEF Proceed, VerdictApplied, VerdictNotApplied, Pause, SkipUncertain, StartReconcile,
     AskAboutUncertain, RetryUncertain, Handles, Goto, WorkOn, Handled, Return, Reset, localVars
<1>3. (CompleteRun \/ IterationLimit \/ ContinueGroup \/ PlanModel \/ PlanTool \/ GroupDone \/
      AskApproval \/ HasApproval \/ (\E t \in Steps : Claim(t)) \/ ClaimNone \/ LeaseLost \/
      Stop) => Goal
  BY DEF CompleteRun, IterationLimit, ContinueGroup, PlanModel, PlanTool, GroupDone,
     AskApproval, HasApproval, Claim, ClaimNone, LeaseLost, Stop, Goto, WorkOn, Return, Reset,
     localVars
<1>4. CASE Begin
  BY <1>4, ToolStepFacts DEF Begin, Goto, localVars
<1>5. ((\E c \in 1 .. MaxProviderCalls : WriteOffCall(c)) \/
      (\E c \in 1 .. MaxProviderCalls : StartCall(c)) \/ Reserve \/ Refuse \/
      CommitModel) => Goal
  BY DEF WriteOffCall, StartCall, Reserve, Refuse, CommitModel, Goto, Reset, localVars
<1>6. ASSUME NEW c \in 1 .. MaxProviderCalls, NEW calls \in Replies, NEW tokens \in Usages,
             ProviderReplies(c, calls, tokens)
      PROVE  Goal
  BY <1>6, ToolStepFacts DEF ProviderReplies
<1>7. CASE SettleReply
  BY <1>7 DEF SettleReply
<1>8. (SettleFailed \/ FailModel) => Goal
  BY DEF SettleFailed, FailModel, Reset
<1>9. ASSUME NEW c \in 1 .. MaxProviderCalls, ProviderFails(c) PROVE Goal
  BY <1>9, ToolStepFacts DEF ProviderFails, Goto, localVars
<1>10. (TakeEffect) => Goal
  BY DEF TakeEffect, Goto, localVars
<1>11. CASE CommitTool
  BY <1>11, ToolStepFacts DEF CommitTool, J!CommitStep, J!Release, Inv1, JTypeOK, J!TypeOK
<1>12. CASE CommitReconcile
  BY <1>12, ToolStepFacts DEF CommitReconcile, J!CommitStep, J!Release, Inv1, JTypeOK, J!TypeOK
<1>13. ((\E i \in DOMAIN approvals, decision \in A!Decisions : Decide(i, decision)) \/
      (\E i \in DOMAIN approvals : RepeatDecision(i)) \/ Resume) => Goal
  BY DEF Decide, RepeatDecision, Resume, Goto, localVars
<1>14. (Submit \/ Startup \/ StartupSchedule) => Goal
  BY DEF Submit, Startup, StartupSchedule, Goto, localVars
<1>15. CASE ToolRaises
  BY <1>15, ToolStepFacts
     DEF ToolRaises, J!FailStep, J!FinishOwnedStep, J!Release, Inv1, JTypeOK, J!TypeOK
<1>16. CASE Cancel
  BY <1>16 DEF Cancel, J!MarkRunStatus, Terminal, J!TerminalRun, Inv1, JTypeOK, J!TypeOK
<1>17. (Crash \/ TimePasses \/ Beat \/ OtherRunReclaims \/
      (\E c \in ToolCalls : WriteEnds(c))) => Goal
  BY DEF Crash, TimePasses, Beat, OtherRunReclaims, WriteEnds, Reset, localVars
<1>18. CASE UNCHANGED vars
  BY <1>18 DEF vars, localVars
<1> HIDE DEF Goal
<1> QED
  BY <1>1, <1>2, <1>3, <1>4, <1>5, <1>6, <1>7, <1>8, <1>9, <1>10, <1>11, <1>12, <1>13, <1>14,
     <1>15, <1>16, <1>17, <1>18
     DEF Next, Task, Gate, Recovery, Loop, ModelCall, ModelFailure, ToolRun, Operator

LEMMA DepthBoundStep == ASSUME [Next]_vars, Inv1 PROVE DepthBound'
<1>1. crashes \in Nat /\ crashes' \in Nat /\ crashes <= crashes'
      /\ (Crash => crashes' = crashes + 1)
  BY Frame, AgentRuntimeAssumption DEF Inv1, OwnTypes, Crash
<1>2. \A s \in ToolSteps : s.depth \in Nat
  BY ToolStepFacts DEF Depths
<1>3. ASSUME NEW s \in ToolSteps, stepStatus'[s] # "absent"
      PROVE  s.depth <= crashes
  <2>1. s \in Steps /\ s.kind = "tool"
    BY ToolStepFacts
  <2>2. CASE stepStatus[s] # "absent"
    BY <2>2 DEF Inv1, DepthBound
  <2>3. CASE Creates(s)
    <3>1. CASE \E u \in todo : StartReconcile(u) /\ s = ReconcilerOf(u)
      BY <2>1, <3>1, TodoStep, ReconcileStepFacts DEF StartReconcile, Handles
    <3>2. CASE \E u \in todo : RetryUncertain(u) /\ s = Replacement(u)
      <4>1. PICK u \in todo : RetryUncertain(u) /\ s = Replacement(u)
        BY <3>2
      <4>2. u \in ToolSteps /\ u.depth < crashes
        BY <4>1, TodoStep DEF RetryUncertain, Handles
      <4>3. s.depth = u.depth + 1
        BY <4>1, <4>2, ToolStepFacts DEF Try, Step
      <4> QED BY <1>1, <1>2, <4>2, <4>3
    <3>3. CASE VerdictNotApplied /\ s = Replacement(ReconciledBy(cur))
      <4> DEFINE u == ReconciledBy(cur)
      <4>1. u \in ToolSteps /\ u.depth < crashes
        BY <3>3, VerdictStep DEF VerdictNotApplied
      <4>2. s.depth = u.depth + 1
        BY <3>3, <4>1, ToolStepFacts DEF Try, Step
      <4> QED BY <1>1, <1>2, <4>1, <4>2
    <3>4. CASE PlanModel /\ s \in ModelSteps
      BY <2>1, <3>4, ModelStepFacts
    <3>5. CASE PlanTool
      <4>1. s.depth = 0
        BY <2>3, <3>5, PlanToolStep DEF Creates, Inv1, Original, Step, WorkOn
      <4> QED BY <1>1, <4>1
    <3> QED BY <2>3, <3>1, <3>2, <3>3, <3>4, <3>5 DEF Creates
  <2> QED BY <1>3, <2>1, <2>2, <2>3, StatusKept
<1>4. ASSUME NEW s \in ToolSteps,
             stepStatus'[s] \in {"leased", "executing", "uncertain"},
             ~Terminal', pc' # "stop",
             ~(pc' \in {"begin", "work", "worked"} /\ cur' = s),
             ~Crash
      PROVE  s.depth < crashes
  <2>1. s \in Steps
    BY ToolStepFacts
  <2>2. ~Terminal
    BY <1>4, Settled
  <2>3. pc # "stop"
    BY <1>4, StopEnds
  <2>4. ~(pc \in {"begin", "work", "worked"} /\ cur = s)
    BY <1>4, WorkEnds
  <2>5. stepStatus[s] \in {"leased", "executing", "uncertain"}
    <3>1. ~Claim(s)
      BY <1>4 DEF Claim, Goto, localVars
    <3> QED BY <1>4, <2>1, <3>1, StatusChange DEF J!Held
  <2> QED BY <2>2, <2>3, <2>4, <2>5 DEF Inv1, DepthBound
<1>5. ASSUME NEW s \in ToolSteps,
             stepStatus'[s] \in {"leased", "executing", "uncertain"},
             ~Terminal', pc' # "stop",
             ~(pc' \in {"begin", "work", "worked"} /\ cur' = s)
      PROVE  s.depth < crashes'
  BY <1>1, <1>2, <1>3, <1>4, <1>5
<1>6. \A s \in ToolSteps : stepStatus'[s] # "absent" => s.depth <= crashes'
  BY <1>1, <1>2, <1>3
<1> QED BY <1>5, <1>6 DEF DepthBound

ToolPoints == {"group", "approve", "claim", "begin", "work", "worked"}

LEMMA ToolPointFrom ==
  ASSUME [Next]_vars, Inv1
  PROVE  pc' \in ToolPoints /\ cur' \in ToolSteps =>
                    \/ cur' = cur /\ pc \in ToolPoints
                    \/ Answered(cur'.iter)
<1> DEFINE Goal ==
      pc' \in ToolPoints /\ cur' \in ToolSteps =>
                 \/ cur' = cur /\ pc \in ToolPoints
                 \/ Answered(cur'.iter)
<1> SUFFICES Goal
  OBVIOUS
<1> USE DEF ToolPoints
<1>1. (Execute \/ GatePending \/ GateRejected \/ Reject \/ GatePassed) => Goal
  BY DEF Execute, GatePending, GateRejected, Reject, GatePassed, Goto, Return, Reset, localVars
<1>2. (Proceed \/ VerdictApplied \/ Pause \/ (\E s \in todo : SkipUncertain(s)) \/
      (\E s \in todo : AskAboutUncertain(s))) => Goal
  BY DEF Proceed, VerdictApplied, Pause, SkipUncertain, AskAboutUncertain, Goto, Handled,
     Return, Reset, localVars
<1>3. CASE VerdictNotApplied
  <2> DEFINE s == ReconciledBy(cur)
  <2>1. s \in ToolSteps /\ s \in Steps /\ stepStatus[s] = "uncertain"
    BY <1>3, VerdictStep, ToolStepFacts DEF VerdictNotApplied
  <2>2. Answered(s.iter)
    BY <2>1 DEF Inv1, ToolAnswered
  <2>3. Replacement(s).iter = s.iter
    BY <2>1, ToolStepFacts DEF Replacement, ToolSteps, Step
  <2> QED BY <1>3, <2>2, <2>3 DEF VerdictNotApplied, WorkOn
<1>4. ASSUME NEW s \in todo, StartReconcile(s) PROVE Goal
  <2>1. ReconcilerOf(s) \in ReconcileSteps
    BY <1>4, TodoStep DEF StartReconcile, Handles
  <2> QED BY <1>4, <2>1, ReconcileStepFacts, ToolStepFacts DEF StartReconcile, WorkOn
<1>5. ASSUME NEW s \in todo, RetryUncertain(s) PROVE Goal
  <2>1. s \in ToolSteps /\ s \in Steps /\ stepStatus[s] = "uncertain"
    BY <1>5, TodoStep DEF RetryUncertain, Handles
  <2>2. Answered(s.iter)
    BY <2>1 DEF Inv1, ToolAnswered
  <2>3. Replacement(s).iter = s.iter
    BY <2>1, ToolStepFacts DEF Replacement, ToolSteps, Step
  <2> QED BY <1>5, <2>2, <2>3 DEF RetryUncertain, WorkOn
<1>6. (CompleteRun \/ IterationLimit \/ GroupDone \/ AskApproval \/ HasApproval \/
      (\E t \in Steps : Claim(t)) \/ ClaimNone \/ Begin \/ LeaseLost \/ Stop) => Goal
  BY DEF CompleteRun, IterationLimit, GroupDone, AskApproval, HasApproval, Claim, ClaimNone,
     Begin, LeaseLost, Stop, Goto, WorkOn, Return, Reset, localVars
<1>7. CASE ContinueGroup
  BY <1>7, ContinueGroupStep DEF Inv1, WorkOn, ContinueGroup
<1>8. CASE PlanModel
  BY <1>8, PlanModelStep, ModelStepFacts, ToolStepFacts DEF Goto, WorkOn, localVars
<1>9. CASE PlanTool
  BY <1>9, PlanToolStep DEF Inv1, WorkOn
<1>10. ((\E c \in 1 .. MaxProviderCalls : WriteOffCall(c)) \/ Reserve \/ Refuse \/
      (\E c \in 1 .. MaxProviderCalls, calls \in Replies, tokens \in Usages :
         ProviderReplies(c, calls, tokens)) \/
      CommitModel) => Goal
  BY DEF WriteOffCall, Reserve, Refuse, ProviderReplies, CommitModel, Goto, Reset, localVars
<1>11. ASSUME NEW c \in 1 .. MaxProviderCalls, StartCall(c) PROVE Goal
  BY <1>11, ModelStepFacts, ToolStepFacts DEF StartCall, Goto, localVars, Inv1, CurFits,
     ModelPoints
<1>12. CASE SettleReply
  BY <1>12 DEF SettleReply, Settle, Goto, localVars
<1>13. ((\E c \in 1 .. MaxProviderCalls : ProviderFails(c)) \/ FailModel) => Goal
  BY DEF ProviderFails, FailModel, Goto, Reset, localVars
<1>14. CASE SettleFailed
  BY <1>14 DEF SettleFailed, Settle, Goto, localVars
<1>15. (TakeEffect \/ CommitReconcile) => Goal
  BY DEF TakeEffect, CommitReconcile, Goto, localVars
<1>16. CASE CommitTool
  <2>1. cur' = cur \/ cur' = NoStep
    BY <1>16 DEF CommitTool, Goto, Handled, localVars
  <2> QED BY <1>16, <2>1 DEF CommitTool, ToolReturned, NoStep, ToolSteps, Step, Goto, Handled,
      localVars
<1>17. ((\E i \in DOMAIN approvals, decision \in A!Decisions : Decide(i, decision)) \/
      (\E i \in DOMAIN approvals : RepeatDecision(i)) \/ Resume) => Goal
  BY DEF Decide, RepeatDecision, Resume, Goto, localVars
<1>18. (Submit \/ Startup \/ StartupSchedule \/ ToolRaises \/ Cancel) => Goal
  BY DEF Submit, Startup, StartupSchedule, ToolRaises, Cancel, Goto, Return, Reset, localVars
<1>19. (Crash \/ TimePasses \/ Beat \/ OtherRunReclaims \/
      (\E c \in ToolCalls : WriteEnds(c))) => Goal
  BY DEF Crash, TimePasses, Beat, OtherRunReclaims, WriteEnds, Reset, localVars
<1>20. CASE UNCHANGED vars
  BY <1>20 DEF vars, localVars
<1> HIDE DEF Goal
<1> QED
  BY <1>1, <1>2, <1>3, <1>4, <1>5, <1>6, <1>7, <1>8, <1>9, <1>10, <1>11, <1>12, <1>13, <1>14,
     <1>15, <1>16, <1>17, <1>18, <1>19, <1>20
     DEF Next, Task, Gate, Recovery, Loop, ModelCall, ModelFailure, ToolRun, Operator

LEMMA ToolAnsweredStep == ASSUME [Next]_vars, Inv1 PROVE ToolAnswered'
<1>1. ASSUME NEW s \in ToolSteps, stepStatus'[s] # "absent"
      PROVE  Answered(s.iter)
  <2>1. s \in Steps /\ s.kind = "tool"
    BY ToolStepFacts
  <2>2. CASE stepStatus[s] # "absent"
    BY <2>2 DEF Inv1, ToolAnswered
  <2>3. CASE Creates(s)
    <3>1. CASE \E u \in todo : StartReconcile(u) /\ s = ReconcilerOf(u)
      BY <2>1, <3>1, TodoStep, ReconcileStepFacts DEF StartReconcile, Handles
    <3>2. ASSUME NEW u \in todo, RetryUncertain(u), s = Replacement(u)
          PROVE  Answered(s.iter)
      <4>1. u \in ToolSteps /\ u \in Steps /\ stepStatus[u] = "uncertain"
        BY <3>2, TodoStep DEF RetryUncertain, Handles
      <4>2. s.iter = u.iter
        BY <3>2, <4>1, ToolStepFacts DEF Replacement, ToolSteps, Step
      <4> QED BY <4>1, <4>2 DEF Inv1, ToolAnswered
    <3>3. CASE VerdictNotApplied /\ s = Replacement(ReconciledBy(cur))
      <4> DEFINE u == ReconciledBy(cur)
      <4>1. u \in ToolSteps /\ u \in Steps /\ stepStatus[u] = "uncertain"
        BY <3>3, VerdictStep, ToolStepFacts DEF VerdictNotApplied
      <4>2. s.iter = u.iter
        BY <3>3, <4>1, ToolStepFacts DEF Replacement, ToolSteps, Step
      <4> QED BY <4>1, <4>2 DEF Inv1, ToolAnswered
    <3>4. CASE PlanModel /\ s \in ModelSteps
      BY <2>1, <3>4, ModelStepFacts
    <3>5. CASE PlanTool
      BY <2>3, <3>5, PlanToolStep DEF Creates, Inv1, WorkOn
    <3> QED BY <2>3, <3>1, <3>2, <3>3, <3>4, <3>5 DEF Creates
  <2> QED BY <1>1, <2>1, <2>2, <2>3, StatusKept
<1>2. ASSUME NEW s \in ToolSteps, stepStatus'[s] # "absent"
      PROVE  Answered(s.iter)'
  BY <1>1, <1>2, AnsweredStays, ToolStepFacts
<1>3. ASSUME pc' \in ToolPoints, cur' \in ToolSteps
      PROVE  Answered(cur.iter)'
  <2>1. cur'.iter \in Iterations
    BY <1>3, ToolStepFacts
  <2>2. Answered(cur'.iter)
    BY <1>3, ToolPointFrom DEF Inv1, ToolAnswered, ToolPoints
  <2>3. ASSUME NEW i \in Iterations, Answered(i) PROVE Answered(i)'
    BY <2>3, AnsweredStays
  <2> QED BY <2>1, <2>2, <2>3 DEF Answered
<1> QED BY <1>2, <1>3 DEF ToolAnswered, ToolPoints, Answered

LEMMA RunMoves ==
  ASSUME [Next]_vars, Inv1
  PROVE  \/ UNCHANGED runStatus
         \/ Submit
         \/ CompleteRun
         \/ Proceed /\ runStatus'[Run] = "running"
         \/ Return /\ runStatus'[Run] \in {"paused", "failed", "cancelled"}
<1> DEFINE Goal ==
      \/ UNCHANGED runStatus
      \/ Submit
      \/ CompleteRun
      \/ Proceed /\ runStatus'[Run] = "running"
      \/ Return /\ runStatus'[Run] \in {"paused", "failed", "cancelled"}
<1> SUFFICES Goal
  OBVIOUS
<1>1. (Execute \/ GateRejected \/ GatePassed) => Goal
  BY DEF Execute, GateRejected, GatePassed, OnlyTask, journalVars, J!runVars, J!CancelStep,
     J!ReclaimExpiredLeases, Reclaim
<1>2. CASE GatePending
  BY <1>2
     DEF GatePending, MarkUnless, PauseRun, J!MarkRunStatus, journalVars, Inv1, JTypeOK,
     J!TypeOK
<1>3. CASE Reject
  BY <1>3 DEF Reject, J!MarkRunStatus, Inv1, JTypeOK, J!TypeOK
<1>4. (VerdictApplied \/ VerdictNotApplied \/ (\E s \in todo : SkipUncertain(s)) \/
      (\E s \in todo : StartReconcile(s)) \/ (\E s \in todo : AskAboutUncertain(s)) \/
      (\E s \in todo : RetryUncertain(s))) => Goal
  BY DEF VerdictApplied, VerdictNotApplied, SkipUncertain, StartReconcile, AskAboutUncertain,
     RetryUncertain, OnlyTask, journalVars, J!runVars, J!CreateStep, J!RecordReceipt, Ensure
<1>5. CASE Proceed
  BY <1>5 DEF Proceed, MarkUnless, J!MarkRunStatus, journalVars, Inv1, JTypeOK, J!TypeOK
<1>6. CASE Pause
  BY <1>6 DEF Pause, MarkUnless, PauseRun, J!MarkRunStatus, journalVars, Inv1, JTypeOK, J!TypeOK
<1>7. (IterationLimit \/ ContinueGroup \/ GroupDone \/ AskApproval \/ HasApproval \/
      (\E t \in Steps : Claim(t)) \/ Begin \/ LeaseLost) => Goal
  BY DEF IterationLimit, ContinueGroup, GroupDone, AskApproval, HasApproval, Claim, Begin,
     LeaseLost, OnlyTask, journalVars, J!runVars, J!ClaimReadyStep, J!MarkExecuting
<1>8. CASE CompleteRun
  BY <1>8 DEF CompleteRun, J!MarkRunStatus, Inv1, JTypeOK, J!TypeOK
<1>9. CASE PlanModel
  BY <1>9, PlanModelStep DEF Ensure, J!CreateStep, journalVars, J!runVars
<1>10. CASE PlanTool
  BY <1>10, PlanToolStep DEF Inv1, Ensure, J!CreateStep, journalVars, J!runVars
<1>11. CASE ClaimNone
  BY <1>11 DEF ClaimNone, MarkUnless, PauseRun, J!MarkRunStatus, journalVars, Inv1, JTypeOK,
     J!TypeOK
<1>12. CASE Stop
  BY <1>12 DEF Stop, MarkUnless, J!MarkRunStatus, journalVars, Inv1, JTypeOK, J!TypeOK
<1>13. ((\E c \in 1 .. MaxProviderCalls : WriteOffCall(c)) \/
      (\E c \in 1 .. MaxProviderCalls : StartCall(c)) \/ Reserve \/ Refuse \/
      (\E c \in 1 .. MaxProviderCalls, calls \in Replies, tokens \in Usages :
         ProviderReplies(c, calls, tokens)) \/
      SettleReply \/ CommitModel) => Goal
  BY DEF WriteOffCall, StartCall, Reserve, Refuse, ProviderReplies, SettleReply, CommitModel,
     OnlyLedger, journalVars, J!runVars, J!CommitStep, J!FailStep, J!FinishOwnedStep,
     J!Heartbeat
<1>14. ((\E c \in 1 .. MaxProviderCalls : ProviderFails(c)) \/ SettleFailed \/ FailModel) => Goal
  BY DEF ProviderFails, SettleFailed, FailModel, OnlyLedger, journalVars, J!runVars, J!FailStep,
     J!FinishOwnedStep
<1>15. (TakeEffect \/ CommitTool \/ CommitReconcile) => Goal
  BY DEF TakeEffect, CommitTool, CommitReconcile, journalVars, J!runVars, J!CommitStep
<1>16. ((\E i \in DOMAIN approvals, decision \in A!Decisions : Decide(i, decision)) \/
      (\E i \in DOMAIN approvals : RepeatDecision(i)) \/ Resume) => Goal
  BY DEF Decide, RepeatDecision, Resume, OnlyTask, journalVars
<1>17. (Startup \/ StartupSchedule \/ ToolRaises) => Goal
  BY DEF Startup, StartupSchedule, ToolRaises, OnlyTask, journalVars, J!runVars, J!FailStep,
     J!FinishOwnedStep, J!ReclaimExpiredLeases, Reclaim
<1>18. CASE Submit
  BY <1>18
<1>19. CASE Cancel
  BY <1>19 DEF Cancel, J!MarkRunStatus, Inv1, JTypeOK, J!TypeOK
<1>20. (Crash \/ TimePasses \/ Beat \/ OtherRunReclaims \/
      (\E c \in ToolCalls : WriteEnds(c))) => Goal
  BY DEF Crash, TimePasses, Beat, OtherRunReclaims, WriteEnds, journalVars, J!runVars,
     J!Heartbeat, J!Tick, J!ReclaimExpiredLeases
<1>21. CASE UNCHANGED vars
  BY <1>21 DEF vars, journalVars
<1> HIDE DEF Goal
<1> QED
  BY <1>1, <1>2, <1>3, <1>4, <1>5, <1>6, <1>7, <1>8, <1>9, <1>10, <1>11, <1>12, <1>13, <1>14,
     <1>15, <1>16, <1>17, <1>18, <1>19, <1>20, <1>21
     DEF Next, Task, Gate, Recovery, Loop, ModelCall, ModelFailure, ToolRun, Operator

LEMMA QuietStays ==
  ASSUME [Next]_vars, Inv1
  PROVE  Terminal /\ pc \in {"down", "starting", "idle"} => pc' \in {"down", "starting", "idle"}
<1> DEFINE Goal ==
      Terminal /\ pc \in {"down", "starting", "idle"} => pc' \in {"down", "starting", "idle"}
<1> SUFFICES Goal
  OBVIOUS
<1>1. (Execute \/ GatePending \/ GateRejected \/ Reject \/ GatePassed) => Goal
  BY DEF Execute, GatePending, GateRejected, Reject, GatePassed, Goto, Return, Reset, Terminal,
     J!TerminalRun
<1>2. (Proceed \/ VerdictApplied \/ VerdictNotApplied \/ Pause \/
      (\E s \in todo : SkipUncertain(s)) \/ (\E s \in todo : StartReconcile(s)) \/
      (\E s \in todo : AskAboutUncertain(s)) \/ (\E s \in todo : RetryUncertain(s))) => Goal
  BY DEF Proceed, VerdictApplied, VerdictNotApplied, Pause, SkipUncertain, StartReconcile,
     AskAboutUncertain, RetryUncertain, Goto, WorkOn, Handled, Return, Reset, Handles, Terminal,
     J!TerminalRun
<1>3. (CompleteRun \/ IterationLimit \/ ContinueGroup \/ PlanModel \/ PlanTool \/ GroupDone \/
      AskApproval \/ HasApproval \/ (\E t \in Steps : Claim(t)) \/ ClaimNone \/ Begin \/
      LeaseLost \/ Stop) => Goal
  BY DEF CompleteRun, IterationLimit, ContinueGroup, PlanModel, PlanTool, GroupDone,
     AskApproval, HasApproval, Claim, ClaimNone, Begin, LeaseLost, Stop, Goto, WorkOn, Return,
     Reset, Terminal, J!TerminalRun
<1>4. ((\E c \in 1 .. MaxProviderCalls : WriteOffCall(c)) \/
      (\E c \in 1 .. MaxProviderCalls : StartCall(c)) \/ Reserve \/ Refuse \/
      (\E c \in 1 .. MaxProviderCalls, calls \in Replies, tokens \in Usages :
         ProviderReplies(c, calls, tokens)) \/
      SettleReply \/ CommitModel) => Goal
  BY DEF WriteOffCall, StartCall, Reserve, Refuse, ProviderReplies, SettleReply, CommitModel,
     Goto, Reset, Terminal, J!TerminalRun
<1>5. ((\E c \in 1 .. MaxProviderCalls : ProviderFails(c)) \/ SettleFailed \/ FailModel) => Goal
  BY DEF ProviderFails, SettleFailed, FailModel, Goto, Reset, Terminal, J!TerminalRun
<1>6. (TakeEffect \/ CommitTool \/ CommitReconcile) => Goal
  BY DEF TakeEffect, CommitTool, CommitReconcile, Goto, Handled, ToolReturned, Terminal,
     J!TerminalRun
<1>7. ((\E i \in DOMAIN approvals, decision \in A!Decisions : Decide(i, decision)) \/
      (\E i \in DOMAIN approvals : RepeatDecision(i)) \/ Resume) => Goal
  BY DEF Decide, RepeatDecision, Resume, Goto, Terminal, J!TerminalRun
<1>8. (Startup \/ StartupSchedule \/ ToolRaises \/ Cancel) => Goal
  BY DEF Startup, StartupSchedule, ToolRaises, Cancel, Goto, Return, Reset, Terminal,
     J!TerminalRun
<1>9. CASE Submit
  BY <1>9 DEF Submit, Exists, Terminal, J!TerminalRun, Inv1, JTypeOK, J!TypeOK
<1>10. (Crash \/ TimePasses \/ Beat \/ OtherRunReclaims \/
      (\E c \in ToolCalls : WriteEnds(c))) => Goal
  BY DEF Crash, TimePasses, Beat, OtherRunReclaims, WriteEnds, Reset, Terminal, J!TerminalRun
<1>11. CASE UNCHANGED vars
  BY <1>11 DEF vars
<1> HIDE DEF Goal
<1> QED
  BY <1>1, <1>2, <1>3, <1>4, <1>5, <1>6, <1>7, <1>8, <1>9, <1>10, <1>11
     DEF Next, Task, Gate, Recovery, Loop, ModelCall, ModelFailure, ToolRun, Operator

LEMMA EndedIsIdleStep == ASSUME [Next]_vars, Inv1 PROVE EndedIsIdle'
<1>1. CASE Terminal
  BY <1>1, QuietStays DEF Inv1, EndedIsIdle
<1>2. ASSUME ~Terminal, Terminal' PROVE Return
  <2>1. ~Submit
    BY <1>2 DEF Submit, J!CreateRun, Terminal, J!TerminalRun, Inv1, JTypeOK, J!TypeOK
  <2>2. CASE UNCHANGED runStatus
    BY <1>2, <2>2 DEF Terminal, J!TerminalRun
  <2>3. ~Proceed \/ runStatus'[Run] # "running"
    BY <1>2 DEF Terminal, J!TerminalRun
  <2> QED BY <2>1, <2>2, <2>3, RunMoves DEF CompleteRun
<1> QED BY <1>1, <1>2 DEF EndedIsIdle, Return

LEMMA OwnTypesStep == ASSUME [Next]_vars, Inv1 PROVE OwnTypes'
<1>1. approvals' \in Seq(A!Approval)
  <2>1. ASSUME NEW s \in Steps, NEW kind \in {"tool_execution", "uncertain_outcome"},
               A!RequestApproval(s, kind)
        PROVE  approvals' \in Seq(A!Approval)
    <3>1. [step |-> s, kind |-> kind, status |-> "pending"] \in A!Approval
      BY DEF A!Approval
    <3> QED BY <2>1, <3>1 DEF A!RequestApproval, Inv1, OwnTypes
  <2>2. ASSUME NEW i \in DOMAIN approvals, NEW decision \in A!Decisions, Decide(i, decision)
        PROVE  approvals' \in Seq(A!Approval)
    <3>1. approvals[i] \in A!Approval
      BY DEF Inv1, OwnTypes
    <3>2. [approvals[i] EXCEPT !.status = decision] \in A!Approval
      BY <3>1 DEF A!Approval
    <3>3. approvals' = [approvals EXCEPT ![i] = [approvals[i] EXCEPT !.status = decision]]
      BY <2>2 DEF Decide, A!DecideApproval
    <3> HIDE DEF A!Approval
    <3> QED BY <3>2, <3>3 DEF Inv1, OwnTypes
  <2>3. ASSUME NEW s \in todo, AskAboutUncertain(s) PROVE approvals' \in Seq(A!Approval)
    BY <2>1, <2>3, TodoStep DEF AskAboutUncertain, Handles
  <2>4. CASE AskApproval
    BY <2>1, <2>4, CurIsStep DEF AskApproval, Inv1
  <2>5. CASE UNCHANGED approvals
    BY <2>5 DEF Inv1, OwnTypes
  <2> QED BY <2>2, <2>3, <2>4, <2>5, Frame
<1>2. toolCalls' \in [Iterations -> Replies \cup {None}]
  BY Frame DEF CommitModel, Inv1, OwnTypes, ReplyFits
<1>3. proven' \subseteq ReconcileSteps
  <2>1. CASE CommitReconcile
    <3>1. cur \in ReconcileSteps
      BY <2>1, StepKinds DEF CommitReconcile, Inv1, CurFits
    <3> QED BY <2>1, <3>1 DEF CommitReconcile, Inv1, OwnTypes
  <2> QED BY <2>1, Frame DEF Inv1, OwnTypes
<1>4. effects' \in [ToolCalls -> Nat]
  <2>1. ASSUME NEW c \in ToolCalls PROVE effects[c] + 1 \in Nat
    BY DEF Inv1, OwnTypes
  <2>2. CASE TakeEffect
    BY <2>1, <2>2 DEF TakeEffect, Inv1, OwnTypes
  <2>3. ASSUME NEW c \in ToolCalls, WriteEnds(c) PROVE effects' \in [ToolCalls -> Nat]
    BY <2>1, <2>3 DEF WriteEnds, Inv1, OwnTypes
  <2> QED BY <2>2, <2>3, Frame DEF Inv1, OwnTypes
<1>5. crashes' \in 0 .. MaxCrashes
  BY Frame, AgentRuntimeAssumption DEF Crash, Inv1, OwnTypes
<1>6. todo' \subseteq Steps
  BY Control DEF GatePassed, UncertainSteps, Inv1, OwnTypes
<1>7. writing' \subseteq ToolCalls
  <2>1. CASE Cancel
    <3>1. CASE UNCHANGED writing
      BY <3>1 DEF Inv1, OwnTypes
    <3>2. CASE ~UNCHANGED writing
      <4>1. pc = "work" /\ cur.kind = "tool" /\ writing' = {CallOf(cur)}
        BY <2>1, <3>2 DEF Cancel
      <4>2. CallOf(cur) \in ToolCalls
        BY <4>1, CurKind, ToolStepFacts DEF Inv1
      <4> QED BY <4>1, <4>2
    <3> QED BY <3>1, <3>2
  <2>2. CASE Crash
    BY <2>2 DEF Crash
  <2>3. ASSUME NEW c \in ToolCalls, WriteEnds(c) PROVE writing' \subseteq ToolCalls
    BY <2>3 DEF WriteEnds, Inv1, OwnTypes
  <2> QED BY <2>1, <2>2, <2>3, Frame DEF Inv1, OwnTypes
<1> QED BY <1>1, <1>2, <1>3, <1>4, <1>5, <1>6, <1>7, Control DEF OwnTypes, OwnLocal

LEMMA Inv1Step == ASSUME [Next]_vars, Inv1 PROVE Inv1'
BY JournalTyped, OwnTypesStep, Control, TodoFitsStep, UncertainUnsafeStep, ReconcilingStep,
   DepthBoundStep, ToolAnsweredStep, EndedIsIdleStep
   DEF Inv1

LEMMA Inv1Init == ASSUME Init PROVE Inv1
<1>1. JTypeOK
  BY DEF Init, J!Init, JTypeOK, J!TypeOK, J!NoExpiry
<1>2. OwnTypes
  BY AgentRuntimeAssumption DEF Init, OwnTypes, A!Init, Points, NoReply
<1>3. runStatus[Run] = "absent" /\ \A s \in Steps : stepStatus[s] = "absent"
  BY DEF Init, J!Init
<1>4. DepthBound
  BY <1>3, ToolStepFacts DEF DepthBound
<1>5. ToolAnswered
  BY <1>3, ToolStepFacts DEF Init, ToolAnswered
<1>6. CurFits /\ TodoFits /\ ReplyFits /\ UncertainUnsafe /\ Reconciling /\ EndedIsIdle
  BY <1>3
     DEF Init, CurFits, ModelPoints, TodoFits, ReplyFits, UncertainUnsafe, Reconciling,
     EndedIsIdle
<1> QED BY <1>1, <1>2, <1>4, <1>5, <1>6 DEF Inv1

LEMMA Inv1Always == Spec => []Inv1
BY Inv1Init, Inv1Step, PTL DEF Spec

----------------------------------------------------------------------------
(***************************************************************************)
(* The ledger of the run; what the two modules promise of it.              *)
(***************************************************************************)
LEMMA LedgerInstance == LP!LedgerAssumption
<1>1. Limits \in [{Run} -> [{"tokens"} -> Nat \cup {None}]]
  <2>1. [tokens |-> TokenLimit] \in [{"tokens"} -> Nat \cup {None}]
    BY AgentRuntimeAssumption
  <2> QED BY <2>1 DEF Limits
<1>2. ASSUME NEW n \in Nat PROVE [tokens |-> n] \in [{"tokens"} -> Nat]
  OBVIOUS
<1>3. {Reservation} \subseteq [{"tokens"} -> Nat]
  BY <1>2 DEF Reservation
<1>4. {Actual(n) : n \in Usages \cup {0}} \subseteq [{"tokens"} -> Nat]
  BY <1>2, AgentRuntimeAssumption DEF Actual
<1> QED BY <1>1, <1>3, <1>4, NoneAssumption DEF LP!LedgerAssumption

LEMMA LedgerOps ==
  ASSUME NEW m \in ModelSteps
  PROVE  /\ \A c \in 1 .. MaxProviderCalls : L!StartProviderCall(c, m) => L!Next
         /\ \A c \in 1 .. MaxProviderCalls, status \in L!FinalCall :
              L!CompleteProviderCall(c, status) => L!Next
         /\ L!ReserveBudget(m, Run, Reservation) => L!Next
         /\ \A n \in Usages \cup {0} : L!SettleBudget(m, Run, Actual(n)) => L!Next
<1>1. m \in Steps
  BY ModelStepFacts
<1>2. \A c \in 1 .. MaxProviderCalls : L!StartProviderCall(c, m) => L!Next
  BY <1>1 DEF L!Next
<1>3. \A c \in 1 .. MaxProviderCalls, status \in L!FinalCall :
        L!CompleteProviderCall(c, status) => L!Next
  BY DEF L!Next
<1>4. L!ReserveBudget(m, Run, Reservation) => L!Next
  BY DEF L!Next
<1>5. \A n \in Usages \cup {0} : L!SettleBudget(m, Run, Actual(n)) => L!Next
  BY DEF L!Next
<1> QED BY <1>2, <1>3, <1>4, <1>5

LEMMA LedgerStep ==
  ASSUME [Next]_vars, Inv1
  PROVE  L!Next \/ UNCHANGED ledgerVars
<1> DEFINE Goal ==
      L!Next \/ UNCHANGED ledgerVars
<1> SUFFICES Goal
  OBVIOUS
<1>1. (Execute \/ GatePending \/ GateRejected \/ Reject \/ GatePassed) => Goal
  BY DEF Execute, GatePending, GateRejected, Reject, GatePassed, OnlyTask, OnlyJournal
<1>2. (Proceed \/ VerdictApplied \/ VerdictNotApplied \/ Pause \/
      (\E s \in todo : SkipUncertain(s)) \/ (\E s \in todo : StartReconcile(s)) \/
      (\E s \in todo : RetryUncertain(s))) => Goal
  BY DEF Proceed, VerdictApplied, VerdictNotApplied, Pause, SkipUncertain, StartReconcile,
     RetryUncertain, OnlyTask, OnlyJournal
<1>3. ASSUME NEW s \in todo, AskAboutUncertain(s) PROVE Goal
  BY <1>3 DEF AskAboutUncertain
<1>4. (CompleteRun \/ IterationLimit \/ ContinueGroup \/ PlanModel \/ PlanTool \/ GroupDone \/
      HasApproval \/ (\E t \in Steps : Claim(t)) \/ ClaimNone \/ Begin \/ LeaseLost \/
      Stop) => Goal
  BY DEF CompleteRun, IterationLimit, ContinueGroup, PlanModel, PlanTool, GroupDone,
     HasApproval, Claim, ClaimNone, Begin, LeaseLost, Stop, OnlyTask, OnlyJournal
<1>5. CASE AskApproval
  BY <1>5 DEF AskApproval
<1>6. (Refuse) => Goal
  BY DEF Refuse, OnlyJournal
<1>7. ASSUME NEW c \in 1 .. MaxProviderCalls, WriteOffCall(c) PROVE Goal
  <2>1. cur \in ModelSteps
    BY <1>7, CurIsStep, StepKinds DEF WriteOffCall, Inv1, CurFits, ModelPoints
  <2>2. c \in 1 .. MaxProviderCalls
    BY <1>7
  <2> QED BY <1>7, <2>1, <2>2, LedgerOps DEF WriteOffCall, L!FinalCall
<1>8. ASSUME NEW c \in 1 .. MaxProviderCalls, StartCall(c) PROVE Goal
  <2>1. cur \in ModelSteps
    BY <1>8, CurIsStep, StepKinds DEF StartCall, Inv1, CurFits, ModelPoints
  <2> QED BY <1>8, <2>1, LedgerOps DEF StartCall
<1>9. CASE Reserve
  <2>1. cur \in ModelSteps
    BY <1>9, CurIsStep, StepKinds DEF Reserve, Inv1, CurFits, ModelPoints
  <2> QED BY <1>9, <2>1, LedgerOps DEF Reserve
<1>10. ASSUME NEW c \in 1 .. MaxProviderCalls, NEW calls \in Replies, NEW tokens \in Usages,
             ProviderReplies(c, calls, tokens)
      PROVE  Goal
  <2>1. cur \in ModelSteps
    BY <1>10, CurIsStep, StepKinds DEF ProviderReplies, Inv1, CurFits, ModelPoints
  <2>2. c \in 1 .. MaxProviderCalls
    BY <1>10
  <2> QED BY <1>10, <2>1, <2>2, LedgerOps DEF ProviderReplies, L!FinalCall
<1>11. CASE SettleReply
  <2>1. cur \in ModelSteps
    BY <1>11, CurIsStep, StepKinds DEF SettleReply, Inv1, CurFits, ModelPoints
  <2>2. reply.tokens \in Usages \cup {0}
    BY DEF Inv1, OwnTypes
  <2> QED BY <1>11, <2>1, <2>2, LedgerOps DEF SettleReply, Settle
<1>12. CASE CommitModel
  BY <1>12 DEF CommitModel
<1>13. (FailModel) => Goal
  BY DEF FailModel, OnlyJournal
<1>14. ASSUME NEW c \in 1 .. MaxProviderCalls, ProviderFails(c) PROVE Goal
  <2>1. cur \in ModelSteps
    BY <1>14, CurIsStep, StepKinds DEF ProviderFails, Inv1, CurFits, ModelPoints
  <2>2. c \in 1 .. MaxProviderCalls
    BY <1>14
  <2> QED BY <1>14, <2>1, <2>2, LedgerOps DEF ProviderFails, L!FinalCall
<1>15. CASE SettleFailed
  <2>1. cur \in ModelSteps
    BY <1>15, CurIsStep, StepKinds DEF SettleFailed, Inv1, CurFits, ModelPoints
  <2> QED BY <1>15, <2>1, LedgerOps DEF SettleFailed, Settle
<1>16. (CommitTool) => Goal
  BY DEF CommitTool, OnlyJournal
<1>17. CASE TakeEffect
  BY <1>17 DEF TakeEffect
<1>18. CASE CommitReconcile
  BY <1>18 DEF CommitReconcile
<1>19. ((\E i \in DOMAIN approvals : RepeatDecision(i)) \/ Resume) => Goal
  BY DEF RepeatDecision, Resume, OnlyTask
<1>20. ASSUME NEW i \in DOMAIN approvals, NEW decision \in A!Decisions, Decide(i, decision)
       PROVE  Goal
  BY <1>20 DEF Decide
<1>21. (Submit \/ Startup \/ StartupSchedule \/ ToolRaises \/ Cancel) => Goal
  BY DEF Submit, Startup, StartupSchedule, ToolRaises, Cancel, OnlyTask, OnlyJournal
<1>22. (TimePasses \/ Beat \/ OtherRunReclaims \/ (\E c \in ToolCalls : WriteEnds(c))) => Goal
  BY DEF TimePasses, Beat, OtherRunReclaims, WriteEnds, OnlyJournal
<1>23. CASE Crash
  BY <1>23 DEF Crash
<1>24. CASE UNCHANGED vars
  BY <1>24 DEF vars
<1> HIDE DEF Goal
<1> QED
  BY <1>1, <1>2, <1>3, <1>4, <1>5, <1>6, <1>7, <1>8, <1>9, <1>10, <1>11, <1>12, <1>13, <1>14,
     <1>15, <1>16, <1>17, <1>18, <1>19, <1>20, <1>21, <1>22, <1>23, <1>24
     DEF Next, Task, Gate, Recovery, Loop, ModelCall, ModelFailure, ToolRun, Operator

LEMMA SameLedger ==
  /\ L!Next => LP!Next
  /\ L!Init => LP!Init
  /\ L!TypeOK <=> LP!TypeOK
  /\ UNCHANGED ledgerVars <=> UNCHANGED LP!vars
<1>1. L!Next => LP!Next
  BY DEF L!Next, LP!Next, L!StartProviderCall, LP!StartProviderCall, L!CompleteProviderCall,
     LP!CompleteProviderCall, L!ReserveBudget, LP!ReserveBudget, L!SettleBudget,
     LP!SettleBudget, L!Fits, LP!Fits, L!Excess, LP!Excess, L!FinalCall, LP!FinalCall,
     L!callVars, LP!callVars, L!budgetVars, LP!budgetVars
<1>2. L!Init => LP!Init
  BY DEF L!Init, LP!Init, L!Zero, LP!Zero
<1>3. L!TypeOK <=> LP!TypeOK
  BY DEF L!TypeOK, LP!TypeOK, L!FinalCall, LP!FinalCall
<1>4. UNCHANGED ledgerVars <=> UNCHANGED LP!vars
  BY DEF ledgerVars, LP!vars, LP!callVars, LP!budgetVars
<1> QED BY <1>1, <1>2, <1>3, <1>4

\* Which steps touch the provider calls, and which the reservations.
LEMMA LedgerMoves ==
  ASSUME [Next]_vars
  PROVE  /\ \/ UNCHANGED <<callStatus, callStep>>
            \/ \E c \in 1 .. MaxProviderCalls : WriteOffCall(c) \/ StartCall(c) \/ ProviderFails(c)
            \/ \E c \in 1 .. MaxProviderCalls, calls \in Replies, tokens \in Usages :
                 ProviderReplies(c, calls, tokens)
         /\ \/ UNCHANGED <<resStatus, resRun, resAmount, resActual, reserved, used, overrun>>
            \/ Reserve \/ SettleReply \/ SettleFailed
<1> DEFINE Goal ==
      /\ \/ UNCHANGED <<callStatus, callStep>>
         \/ \E c \in 1 .. MaxProviderCalls : WriteOffCall(c) \/ StartCall(c) \/ ProviderFails(c)
         \/ \E c \in 1 .. MaxProviderCalls, calls \in Replies, tokens \in Usages :
              ProviderReplies(c, calls, tokens)
      /\ \/ UNCHANGED <<resStatus, resRun, resAmount, resActual, reserved, used, overrun>>
         \/ Reserve \/ SettleReply \/ SettleFailed
<1> SUFFICES Goal
  OBVIOUS
<1>1. (Execute \/ GatePending \/ GateRejected \/ Reject \/ GatePassed) => Goal
  BY DEF Execute, GatePending, GateRejected, Reject, GatePassed, OnlyTask, OnlyJournal,
     ledgerVars
<1>2. (Proceed \/ VerdictApplied \/ VerdictNotApplied \/ Pause \/
      (\E s \in todo : SkipUncertain(s)) \/ (\E s \in todo : StartReconcile(s)) \/
      (\E s \in todo : RetryUncertain(s))) => Goal
  BY DEF Proceed, VerdictApplied, VerdictNotApplied, Pause, SkipUncertain, StartReconcile,
     RetryUncertain, OnlyTask, OnlyJournal, ledgerVars
<1>3. ASSUME NEW s \in todo, AskAboutUncertain(s) PROVE Goal
  BY <1>3 DEF AskAboutUncertain, ledgerVars
<1>4. (CompleteRun \/ IterationLimit \/ ContinueGroup \/ PlanModel \/ PlanTool \/ GroupDone \/
      HasApproval \/ (\E t \in Steps : Claim(t)) \/ ClaimNone \/ Begin \/ LeaseLost \/
      Stop) => Goal
  BY DEF CompleteRun, IterationLimit, ContinueGroup, PlanModel, PlanTool, GroupDone,
     HasApproval, Claim, ClaimNone, Begin, LeaseLost, Stop, OnlyTask, OnlyJournal, ledgerVars
<1>5. CASE AskApproval
  BY <1>5 DEF AskApproval, ledgerVars
<1>6. (Refuse) => Goal
  BY DEF Refuse, OnlyJournal, ledgerVars
<1>7. ASSUME NEW c \in 1 .. MaxProviderCalls, WriteOffCall(c) PROVE Goal
  BY <1>7 DEF WriteOffCall, L!CompleteProviderCall, L!budgetVars
<1>8. ASSUME NEW c \in 1 .. MaxProviderCalls, StartCall(c) PROVE Goal
  BY <1>8 DEF StartCall, L!StartProviderCall, L!budgetVars
<1>9. CASE Reserve
  BY <1>9 DEF Reserve, ledgerVars, L!ReserveBudget, L!callVars
<1>10. ASSUME NEW c \in 1 .. MaxProviderCalls, NEW calls \in Replies, NEW tokens \in Usages,
             ProviderReplies(c, calls, tokens)
      PROVE  Goal
  BY <1>10 DEF ProviderReplies, L!CompleteProviderCall, L!budgetVars
<1>11. CASE SettleReply
  BY <1>11 DEF SettleReply, Settle, ledgerVars, L!SettleBudget, L!callVars
<1>12. CASE CommitModel
  BY <1>12 DEF CommitModel, ledgerVars
<1>13. (FailModel) => Goal
  BY DEF FailModel, OnlyJournal, ledgerVars
<1>14. ASSUME NEW c \in 1 .. MaxProviderCalls, ProviderFails(c) PROVE Goal
  BY <1>14 DEF ProviderFails, L!CompleteProviderCall, L!budgetVars
<1>15. CASE SettleFailed
  BY <1>15 DEF SettleFailed, Settle, ledgerVars, L!SettleBudget, L!callVars
<1>16. (CommitTool) => Goal
  BY DEF CommitTool, OnlyJournal, ledgerVars
<1>17. CASE TakeEffect
  BY <1>17 DEF TakeEffect, ledgerVars
<1>18. CASE CommitReconcile
  BY <1>18 DEF CommitReconcile, ledgerVars
<1>19. ((\E i \in DOMAIN approvals : RepeatDecision(i)) \/ Resume) => Goal
  BY DEF RepeatDecision, Resume, OnlyTask, ledgerVars
<1>20. ASSUME NEW i \in DOMAIN approvals, NEW decision \in A!Decisions, Decide(i, decision)
       PROVE  Goal
  BY <1>20 DEF Decide, ledgerVars
<1>21. (Submit \/ Startup \/ StartupSchedule \/ ToolRaises \/ Cancel) => Goal
  BY DEF Submit, Startup, StartupSchedule, ToolRaises, Cancel, OnlyTask, OnlyJournal, ledgerVars
<1>22. (TimePasses \/ Beat \/ OtherRunReclaims \/ (\E c \in ToolCalls : WriteEnds(c))) => Goal
  BY DEF TimePasses, Beat, OtherRunReclaims, WriteEnds, OnlyJournal, ledgerVars
<1>23. CASE Crash
  BY <1>23 DEF Crash, ledgerVars
<1>24. CASE UNCHANGED vars
  BY <1>24 DEF vars, ledgerVars
<1> HIDE DEF Goal
<1> QED
  BY <1>1, <1>2, <1>3, <1>4, <1>5, <1>6, <1>7, <1>8, <1>9, <1>10, <1>11, <1>12, <1>13, <1>14,
     <1>15, <1>16, <1>17, <1>18, <1>19, <1>20, <1>21, <1>22, <1>23, <1>24
     DEF Next, Task, Gate, Recovery, Loop, ModelCall, ModelFailure, ToolRun, Operator

LEMMA NewCall ==
  ASSUME [Next]_vars, L!TypeOK, NEW c \in 1 .. MaxProviderCalls,
         callStatus'[c] # callStatus[c], callStatus'[c] = "started"
  PROVE  StartCall(c)
<1> USE DEF L!TypeOK
<1>1. ASSUME NEW b \in 1 .. MaxProviderCalls, WriteOffCall(b) \/ ProviderFails(b) PROVE FALSE
  BY <1>1 DEF WriteOffCall, ProviderFails, L!CompleteProviderCall
<1>2. ASSUME NEW b \in 1 .. MaxProviderCalls, NEW calls \in Replies, NEW tokens \in Usages,
             ProviderReplies(b, calls, tokens)
      PROVE  FALSE
  BY <1>2 DEF ProviderReplies, L!CompleteProviderCall
<1>3. ASSUME NEW b \in 1 .. MaxProviderCalls, StartCall(b) PROVE b = c
  BY <1>3 DEF StartCall, L!StartProviderCall
<1> QED BY <1>1, <1>2, <1>3, LedgerMoves

\* The ledger's own invariant holds of the run's ledger.
LEMMA LedgerAccounted == Spec => []LP!LInv
<1>1. Init => LP!LInv
  BY LedgerInstance, LP!LInvInit, SameLedger DEF Init
<1>2. Inv1 /\ LP!LInv /\ [Next]_vars => LP!LInv'
  <2> SUFFICES ASSUME Inv1, LP!LInv, [Next]_vars PROVE LP!LInv'
    OBVIOUS
  <2>1. [LP!Next]_(LP!vars)
    BY LedgerStep, SameLedger
  <2> QED BY <2>1, LedgerInstance, LP!LInvStep
<1> QED BY <1>1, <1>2, Inv1Always, PTL DEF Spec

\* The runtime changes runs, steps, leases and receipts only through the
\* operations of the journal and within their preconditions, in every
\* interleaving with crashes and the operator's handlers.
THEOREM RunUsesJournal == Spec => UsesJournal
<1>1. Init => J!Init
  BY DEF Init
<1>2. Inv1 /\ [Next]_vars => [J!Next]_(J!vars)
  BY JournalStep DEF journalVars, J!vars, J!runVars, J!stepVars
<1> QED BY <1>1, <1>2, Inv1Always, PTL DEF Spec, UsesJournal, J!Spec

\* It changes provider calls and budget counters only through the operations
\* of the ledger, and only for its own run and model steps.
THEOREM RunUsesLedger == Spec => UsesLedger
<1>1. Init => L!Init
  BY DEF Init
<1>2. Inv1 /\ [Next]_vars => [L!Next]_(L!vars)
  BY LedgerStep DEF ledgerVars, L!vars, L!callVars, L!budgetVars
<1> QED BY <1>1, <1>2, Inv1Always, PTL DEF Spec, UsesLedger, L!Spec

\* Every variable holds a value of its type, for every reply, policy and limit.
THEOREM RunTypeCorrect == Spec => []TypeOK
<1>1. Inv1 /\ LP!LInv => TypeOK
  <2> SUFFICES ASSUME Inv1, LP!LInv PROVE TypeOK
    OBVIOUS
  <2>1. L!TypeOK
    BY SameLedger DEF LP!LInv
  <2>2. JTypeOK /\ OwnTypes
    BY DEF Inv1
  <2> QED BY <2>1, <2>2 DEF TypeOK, JTypeOK, OwnTypes
<1> QED BY <1>1, Inv1Always, LedgerAccounted, PTL

----------------------------------------------------------------------------
(***************************************************************************)
(* Inv2: the order of steps, and what replaced steps leave behind.         *)
(***************************************************************************)
Made(s) == stepStatus[s] # "absent"
Open(s) == stepStatus[s] \in {"ready", "leased", "executing"}
\* An operator approved the request of that kind for the step.
Granted(s, kind) ==
  \E i \in DOMAIN approvals :
    approvals[i].step = s /\ approvals[i].kind = kind /\ approvals[i].status = "approved"

\* The points at which the gate has been passed and no request is open.
Gated ==
  Points \ {"down", "starting", "idle", "execute", "gate", "reject", "pause"}

\* There is one request per step and kind, and only opaque uncertain steps are
\* asked about.
Rows ==
  /\ \A i \in DOMAIN approvals :
       /\ approvals[i].step \in ToolSteps
       /\ approvals[i].kind = "uncertain_outcome" =>
            /\ Safety[approvals[i].step] = "opaque_side_effect"
            /\ stepStatus[approvals[i].step] \in {"uncertain", "cancelled"}
  /\ \A i, j \in DOMAIN approvals :
       approvals[i].step = approvals[j].step /\ approvals[i].kind = approvals[j].kind => i = j

\* Past the gate no request is open or rejected.
AllApproved == \A i \in DOMAIN approvals : approvals[i].status = "approved"
GateShut == pc \in Gated \/ runStatus[Run] = "completed" => AllApproved

\* Steps are cancelled only after a request was rejected.
CancelledRejected ==
  (\E s \in Steps : stepStatus[s] = "cancelled") =>
    \E i \in DOMAIN approvals : approvals[i].status = "rejected"

ReconcilesUncertain ==
  \A s \in ToolSteps : Made(ReconcilerOf(s)) =>
    stepStatus[s] \in {"uncertain", "cancelled"} /\ Safety[s] = "reconcilable"

\* A receipt of a tool step is what its reconciliation proved.
ReceiptsProven ==
  \A s \in ToolSteps : HasReceipt(s) =>
     stepStatus[ReconcilerOf(s)] = "committed" /\ ReconcilerOf(s) \in proven

\* A step that was given up is replaced: an opaque one when an operator approved
\* its retry, a reconcilable one when its reconciliation found no effect.
GivenUp(t) ==
  /\ stepStatus[t] \in {"uncertain", "cancelled"}
  /\ Safety[t] \in {"opaque_side_effect", "reconcilable"}
  /\ Safety[t] = "opaque_side_effect" => Granted(t, "uncertain_outcome")
  /\ Safety[t] = "reconcilable" =>
       stepStatus[ReconcilerOf(t)] = "committed" /\ ReconcilerOf(t) \notin proven

\* Whatever comes before the last try of a call was given up.
Chain ==
  \A c \in ToolCalls, d \in Depths :
    Made(Try(c, d)) => \A e \in 0 .. d - 1 : GivenUp(Try(c, e))

CompleteBelow(i) == \A j \in 0 .. i - 1 : Complete(j)

\* A group is run in the order of its calls, and groups one after the other.
InOrder(s) ==
  /\ Answered(s.iter) /\ s.n \in toolCalls[s.iter] /\ CompleteBelow(s.iter)
  /\ \A m \in toolCalls[s.iter] : m < s.n => stepStatus[Try(<<s.iter, m>>, 0)] = "committed"
ToolsInOrder == \A s \in ToolSteps : Made(s) => InOrder(s)

\* The model is asked again only when all its earlier calls have outputs.
ModelsInOrder ==
  /\ \A s \in ModelSteps : Made(s) => CompleteBelow(s.iter)
  /\ \A s \in ModelSteps : Open(s) => ~Answered(s.iter)
  /\ \A s, t \in ModelSteps : Open(s) /\ Open(t) /\ s.iter = t.iter => s = t
  /\ \A i \in Iterations : Answered(i) => CompleteBelow(i)
GroupFits == pc = "group" => Answered(cur.iter) /\ CompleteBelow(cur.iter)

\* The step a task works on is there, claimed, and the last try of its call.
CurMade ==
  pc \in {"approve", "claim", "begin", "work", "worked", "verdict"} \cup ModelPoints => Made(cur)
ToolWork ==
  pc \in {"begin", "work", "worked"} /\ cur \in ToolSteps =>
    /\ attempts[cur] > 0
    /\ stepStatus[cur] \in {"ready", "leased", "executing", "uncertain"}
    /\ \A d \in Depths : d > cur.depth => ~Made(Try(CallOf(cur), d))
    /\ ~Made(ReconcilerOf(cur))
OtherWork ==
  /\ pc \in {"begin", "work"} \cup ModelPoints /\ cur \in ModelSteps => Open(cur)
  /\ pc \in {"begin", "work"} /\ cur \in ReconcileSteps => Open(cur)
  /\ pc = "verdict" => stepStatus[cur] = "committed"

\* A dangerous step runs only with its own approval, or as the approved retry of
\* the opaque step before it.
ApprovedG(s) ==
  \/ Granted(s, "tool_execution")
  \/ /\ s.depth > 0 /\ Safety[s] = "opaque_side_effect"
     /\ Granted([s EXCEPT !.depth = @ - 1], "uncertain_outcome")
RunsApproved ==
  \A s \in ToolSteps : attempts[s] > 0 /\ Safety[s] \in NeedsApproval => ApprovedG(s)
ClaimApproved ==
  pc = "claim" /\ cur \in ToolSteps /\ stepStatus[cur] = "ready" /\ Safety[cur] \in NeedsApproval
    => ApprovedG(cur)

Inv2 ==
  /\ Rows /\ GateShut /\ CancelledRejected
  /\ ReconcilesUncertain /\ ReceiptsProven /\ Chain /\ ToolsInOrder /\ ModelsInOrder
  /\ GroupFits /\ CurMade /\ ToolWork /\ OtherWork
  /\ RunsApproved /\ ClaimApproved

LEMMA LastDecisionRow ==
  ASSUME NEW s, NEW kinds, approvals \in Seq(A!Approval), A!RequestsFor(s, kinds) # {}
  PROVE  \E i \in A!RequestsFor(s, kinds) : A!LastDecision(s, kinds) = approvals[i].status
<1> DEFINE R == A!RequestsFor(s, kinds)
           T == {Len(approvals) - i : i \in R}
<1>1. R \subseteq 1 .. Len(approvals) /\ Len(approvals) \in Nat
  BY DEF A!RequestsFor
<1>2. T \in SUBSET Nat /\ T # {}
  BY <1>1
<1>3. PICK x \in T : \A y \in T : x <= y
  BY <1>2, Least
<1>4. PICK i \in R : x = Len(approvals) - i
  BY <1>3
<1>5. \A j \in R : j <= i
  <2>1. ASSUME NEW j \in R PROVE j <= i
    <3>1. x <= Len(approvals) - j
      BY <1>3
    <3>2. i \in Nat /\ j \in Nat
      BY <1>1
    <3> QED BY <1>1, <1>4, <3>1, <3>2
  <2> QED BY <2>1
<1>6. (CHOOSE k \in R : \A j \in R : j <= k) \in R
  BY <1>5
<1> HIDE DEF R
<1> QED BY <1>6 DEF A!LastDecision, R

LEMMA ApprovedRow ==
  ASSUME NEW s, NEW kinds, approvals \in Seq(A!Approval), A!LastDecision(s, kinds) = "approved"
  PROVE  \E i \in A!RequestsFor(s, kinds) : approvals[i].status = "approved"
<1>1. A!RequestsFor(s, kinds) # {}
  BY DEF A!LastDecision
<1> QED BY <1>1, LastDecisionRow

LEMMA ApprovalChange ==
  ASSUME [Next]_vars, Inv1
  PROVE  \/ UNCHANGED approvals
         \/ /\ pc \in {"uncertain", "approve"} /\ pc' = "pause" /\ UNCHANGED journalVars
            /\ \E s \in ToolSteps, kind \in AllKinds :
                 /\ approvals' = Append(approvals,
                                         [step |-> s, kind |-> kind, status |-> "pending"])
                 /\ A!RequestsFor(s, {kind}) = {}
                 /\ kind = "uncertain_outcome" =>
                      stepStatus[s] = "uncertain" /\ Safety[s] = "opaque_side_effect"
         \/ /\ pc = "idle" /\ pc' \in {"idle", "execute"} /\ UNCHANGED journalVars
            /\ \E i \in DOMAIN approvals, decision \in A!Decisions :
                 /\ approvals[i].status = "pending"
                 /\ approvals' = [approvals EXCEPT ![i].status = decision]
<1>1. ASSUME NEW s \in todo, AskAboutUncertain(s)
      PROVE  /\ pc = "uncertain" /\ pc' = "pause" /\ UNCHANGED journalVars
             /\ s \in ToolSteps
             /\ approvals' = Append(approvals, [step |-> s, kind |-> "uncertain_outcome",
                                                status |-> "pending"])
             /\ A!RequestsFor(s, {"uncertain_outcome"}) = {}
             /\ stepStatus[s] = "uncertain" /\ Safety[s] = "opaque_side_effect"
  <2>1. /\ s \in ToolSteps /\ s \in Steps /\ stepStatus[s] = "uncertain"
        /\ Safety[s] \notin J!Repeatable
    BY <1>1, TodoStep DEF AskAboutUncertain, Handles
  <2>2. Safety[s] \in JP!SafetyClasses
    BY <2>1, JournalInstance DEF JP!JournalAssumption
  <2>3. Safety[s] = "opaque_side_effect"
    BY <1>1, <2>1, <2>2 DEF AskAboutUncertain, JP!SafetyClasses, J!Repeatable
  <2> QED BY <1>1, <2>1, <2>3 DEF AskAboutUncertain, Handles, A!RequestApproval, Goto
<1>2. CASE AskApproval
  <2>1. cur \in ToolSteps
    BY <1>2 DEF AskApproval, Inv1, CurFits
  <2>2. A!RequestsFor(cur, {"tool_execution"}) = {}
    BY <1>2 DEF AskApproval, A!RequestsFor, AllKinds
  <2> QED BY <1>2, <2>1, <2>2 DEF AskApproval, A!RequestApproval, Goto, AllKinds
<1>3. ASSUME NEW i \in DOMAIN approvals, NEW decision \in A!Decisions, Decide(i, decision)
      PROVE  /\ pc = "idle" /\ pc' \in {"idle", "execute"} /\ UNCHANGED journalVars
             /\ approvals[i].status = "pending"
             /\ approvals' = [approvals EXCEPT ![i].status = decision]
  BY <1>3 DEF Decide, A!DecideApproval, Goto
<1>4. "uncertain_outcome" \in AllKinds
  BY DEF AllKinds
<1> QED BY <1>1, <1>2, <1>3, <1>4, Frame

\* What any step keeps of the rows, and which row it may add.
LEMMA RowsKept ==
  ASSUME [Next]_vars, Inv1
  PROVE  /\ \A i \in DOMAIN approvals :
              /\ i \in DOMAIN approvals'
              /\ approvals'[i].step = approvals[i].step /\ approvals'[i].kind = approvals[i].kind
              /\ approvals[i].status # "pending" => approvals'[i].status = approvals[i].status
         /\ \A i \in DOMAIN approvals' \ DOMAIN approvals :
              /\ pc' = "pause" /\ pc \in {"uncertain", "approve"}
              /\ DOMAIN approvals' = DOMAIN approvals \cup {i}
              /\ approvals'[i].step \in ToolSteps /\ approvals'[i].kind \in AllKinds
              /\ A!RequestsFor(approvals'[i].step, {approvals'[i].kind}) = {}
              /\ approvals'[i].kind = "uncertain_outcome" =>
                   /\ stepStatus[approvals'[i].step] = "uncertain"
                   /\ Safety[approvals'[i].step] = "opaque_side_effect"
<1> DEFINE Goal ==
         /\ \A i \in DOMAIN approvals :
              /\ i \in DOMAIN approvals'
              /\ approvals'[i].step = approvals[i].step /\ approvals'[i].kind = approvals[i].kind
              /\ approvals[i].status # "pending" => approvals'[i].status = approvals[i].status
         /\ \A i \in DOMAIN approvals' \ DOMAIN approvals :
              /\ pc' = "pause" /\ pc \in {"uncertain", "approve"}
              /\ DOMAIN approvals' = DOMAIN approvals \cup {i}
              /\ approvals'[i].step \in ToolSteps /\ approvals'[i].kind \in AllKinds
              /\ A!RequestsFor(approvals'[i].step, {approvals'[i].kind}) = {}
              /\ approvals'[i].kind = "uncertain_outcome" =>
                   /\ stepStatus[approvals'[i].step] = "uncertain"
                   /\ Safety[approvals'[i].step] = "opaque_side_effect"
<1>1. approvals \in Seq(A!Approval) /\ \A i \in DOMAIN approvals : approvals[i] \in A!Approval
  BY DEF Inv1, OwnTypes
<1>2. UNCHANGED approvals => Goal
  OBVIOUS
<1>3. ASSUME NEW s \in ToolSteps, NEW kind \in AllKinds,
             pc \in {"uncertain", "approve"}, pc' = "pause",
             approvals' = Append(approvals, [step |-> s, kind |-> kind, status |-> "pending"]),
             A!RequestsFor(s, {kind}) = {},
             kind = "uncertain_outcome" =>
               stepStatus[s] = "uncertain" /\ Safety[s] = "opaque_side_effect"
      PROVE  Goal
  <2>1. /\ DOMAIN approvals' = DOMAIN approvals \cup {Len(approvals) + 1}
        /\ \A i \in DOMAIN approvals : approvals'[i] = approvals[i]
        /\ approvals'[Len(approvals) + 1] = [step |-> s, kind |-> kind, status |-> "pending"]
    BY <1>1, <1>3
  <2>3. \A i \in DOMAIN approvals' \ DOMAIN approvals : i = Len(approvals) + 1
    BY <2>1
  <2>4. approvals'[Len(approvals) + 1].step = s /\ approvals'[Len(approvals) + 1].kind = kind
    BY <2>1
  <2>5. \A i \in DOMAIN approvals :
          /\ i \in DOMAIN approvals'
          /\ approvals'[i].step = approvals[i].step /\ approvals'[i].kind = approvals[i].kind
          /\ approvals[i].status # "pending" => approvals'[i].status = approvals[i].status
    BY <2>1
  <2>6. ASSUME NEW i \in DOMAIN approvals' \ DOMAIN approvals
        PROVE  i = Len(approvals) + 1 /\ approvals'[i].step = s /\ approvals'[i].kind = kind
    BY <2>3, <2>4
  <2> QED BY <1>3, <2>1, <2>5, <2>6
<1>4. ASSUME NEW i \in DOMAIN approvals, NEW decision \in A!Decisions,
             approvals[i].status = "pending",
             approvals' = [approvals EXCEPT ![i].status = decision]
      PROVE  Goal
  <2>1. DOMAIN approvals' = DOMAIN approvals
    BY <1>4
  <2>2. \A j \in DOMAIN approvals : j # i => approvals'[j] = approvals[j]
    BY <1>4
  <2>3. approvals'[i] = [approvals[i] EXCEPT !.status = decision]
    BY <1>4
  <2>4. approvals'[i].step = approvals[i].step /\ approvals'[i].kind = approvals[i].kind
    BY <1>1, <2>3 DEF A!Approval
  <2> QED BY <1>4, <2>1, <2>2, <2>4
<1> HIDE DEF Goal
<1>5. Goal
  BY <1>2, <1>3, <1>4, ApprovalChange
<1> QED BY <1>5 DEF Goal

LEMMA GrantedStays ==
  ASSUME [Next]_vars, Inv1, NEW s, NEW kind, Granted(s, kind)
  PROVE  Granted(s, kind)'
<1>1. PICK i \in DOMAIN approvals :
        approvals[i].step = s /\ approvals[i].kind = kind /\ approvals[i].status = "approved"
  BY DEF Granted
<1>2. /\ i \in DOMAIN approvals' /\ approvals'[i].step = s /\ approvals'[i].kind = kind
      /\ approvals'[i].status = "approved"
  BY <1>1, RowsKept
<1> QED BY <1>2 DEF Granted

LEMMA RowsStep == ASSUME [Next]_vars, Inv1, Inv2 PROVE Rows'
<1>2. ASSUME NEW i \in DOMAIN approvals'
      PROVE  /\ approvals'[i].step \in ToolSteps
             /\ approvals'[i].kind = "uncertain_outcome" =>
                  /\ Safety[approvals'[i].step] = "opaque_side_effect"
                  /\ stepStatus'[approvals'[i].step] \in {"uncertain", "cancelled"}
  <2>1. /\ approvals'[i].step \in ToolSteps
        /\ approvals'[i].kind = "uncertain_outcome" =>
             /\ Safety[approvals'[i].step] = "opaque_side_effect"
             /\ stepStatus[approvals'[i].step] \in {"uncertain", "cancelled"}
    <3>1. CASE i \in DOMAIN approvals
      <4>1. approvals'[i].step = approvals[i].step /\ approvals'[i].kind = approvals[i].kind
        BY <3>1, RowsKept
      <4> QED BY <3>1, <4>1 DEF Inv2, Rows
    <3>2. CASE i \notin DOMAIN approvals
      BY <3>2, RowsKept
    <3> QED BY <3>1, <3>2
  <2>2. approvals'[i].step \in Steps
    BY <2>1, ToolStepFacts
  <2> QED BY <2>1, <2>2, StatusKept
<1>3. ASSUME NEW i \in DOMAIN approvals', NEW j \in DOMAIN approvals', i # j,
             approvals'[i].step = approvals'[j].step, approvals'[i].kind = approvals'[j].kind
      PROVE  FALSE
  <2>1. ASSUME NEW k \in DOMAIN approvals'
        PROVE  k \in DOMAIN approvals =>
                 approvals'[k].step = approvals[k].step /\ approvals'[k].kind = approvals[k].kind
    BY RowsKept
  <2>2. CASE i \in DOMAIN approvals /\ j \in DOMAIN approvals
    BY <1>3, <2>1, <2>2 DEF Inv2, Rows
  <2>3. ASSUME NEW k \in DOMAIN approvals' \ DOMAIN approvals, NEW l \in DOMAIN approvals
        PROVE  ~(approvals'[k].step = approvals'[l].step /\ approvals'[k].kind = approvals'[l].kind)
    <3>1. A!RequestsFor(approvals'[k].step, {approvals'[k].kind}) = {}
      BY RowsKept
    <3>2. approvals'[l].step = approvals[l].step /\ approvals'[l].kind = approvals[l].kind
      BY RowsKept
    <3> QED BY <3>1, <3>2 DEF A!RequestsFor
  <2>4. CASE i \notin DOMAIN approvals /\ j \notin DOMAIN approvals
    <3>1. DOMAIN approvals' = DOMAIN approvals \cup {i}
      BY <2>4, RowsKept
    <3> QED BY <1>3, <2>4, <3>1
  <2> QED BY <1>3, <2>2, <2>3, <2>4
<1> QED BY <1>2, <1>3 DEF Rows

LEMMA CancelledRejectedStep == ASSUME [Next]_vars, Inv1, Inv2 PROVE CancelledRejected'
<1> SUFFICES ASSUME NEW s \in Steps, stepStatus'[s] = "cancelled"
             PROVE  \E i \in DOMAIN approvals' : approvals'[i].status = "rejected"
  BY DEF CancelledRejected
<1>1. \E i \in DOMAIN approvals : approvals[i].status = "rejected"
  <2>1. CASE stepStatus[s] = "cancelled"
    BY <2>1 DEF Inv2, CancelledRejected
  <2>2. CASE GateRejected
    BY <2>2, FirstUnapprovedFacts DEF GateRejected, Inv1, OwnTypes
  <2>3. stepStatus[s] = "cancelled" \/ GateRejected
    BY StatusChange DEF J!RecoveryTarget
  <2> QED BY <2>1, <2>2, <2>3
<1> QED BY <1>1, RowsKept

LEMMA GatedFrom ==
  ASSUME [Next]_vars, Inv1
  PROVE  pc' \in Gated => pc \in Gated \/ GatePassed
<1> DEFINE Goal ==
      pc' \in Gated => pc \in Gated \/ GatePassed
<1> SUFFICES Goal
  OBVIOUS
<1>1. (Execute \/ GatePending \/ GateRejected \/ Reject) => Goal
  BY DEF Execute, GatePending, GateRejected, Reject, Goto, Return, Reset, Gated, Points
<1>2. CASE GatePassed
  BY <1>2
<1>3. (Proceed \/ VerdictApplied \/ VerdictNotApplied \/ Pause \/
      (\E s \in todo : SkipUncertain(s)) \/ (\E s \in todo : StartReconcile(s)) \/
      (\E s \in todo : AskAboutUncertain(s)) \/ (\E s \in todo : RetryUncertain(s))) => Goal
  BY DEF Proceed, VerdictApplied, VerdictNotApplied, Pause, SkipUncertain, StartReconcile,
     AskAboutUncertain, RetryUncertain, Goto, WorkOn, Handled, Return, Reset, Handles, Gated,
     Points
<1>4. (CompleteRun \/ IterationLimit \/ ContinueGroup \/ PlanModel \/ PlanTool \/ GroupDone \/
      AskApproval \/ HasApproval \/ (\E t \in Steps : Claim(t)) \/ ClaimNone \/ Begin \/
      LeaseLost \/ Stop) => Goal
  BY DEF CompleteRun, IterationLimit, ContinueGroup, PlanModel, PlanTool, GroupDone,
     AskApproval, HasApproval, Claim, ClaimNone, Begin, LeaseLost, Stop, Goto, WorkOn, Return,
     Reset, Gated, Points
<1>5. ((\E c \in 1 .. MaxProviderCalls : WriteOffCall(c)) \/
      (\E c \in 1 .. MaxProviderCalls : StartCall(c)) \/ Reserve \/ Refuse \/
      (\E c \in 1 .. MaxProviderCalls, calls \in Replies, tokens \in Usages :
         ProviderReplies(c, calls, tokens)) \/
      SettleReply \/ CommitModel) => Goal
  BY DEF WriteOffCall, StartCall, Reserve, Refuse, ProviderReplies, SettleReply, CommitModel,
     Goto, Reset, Gated, Points, Settle
<1>6. ((\E c \in 1 .. MaxProviderCalls : ProviderFails(c)) \/ SettleFailed \/ FailModel) => Goal
  BY DEF ProviderFails, SettleFailed, FailModel, Goto, Reset, Gated, Points, Settle
<1>7. (TakeEffect \/ CommitReconcile) => Goal
  BY DEF TakeEffect, CommitReconcile, Goto, Gated, Points
<1>8. CASE CommitTool
  BY <1>8 DEF CommitTool, ToolReturned, Gated, Points
<1>9. ((\E i \in DOMAIN approvals, decision \in A!Decisions : Decide(i, decision)) \/
      (\E i \in DOMAIN approvals : RepeatDecision(i)) \/ Resume) => Goal
  BY DEF Decide, RepeatDecision, Resume, Goto, Gated, Points
<1>10. (Submit \/ Startup \/ StartupSchedule \/ ToolRaises \/ Cancel) => Goal
  BY DEF Submit, Startup, StartupSchedule, ToolRaises, Cancel, Goto, Return, Reset, Gated,
     Points
<1>11. (Crash \/ TimePasses \/ Beat \/ OtherRunReclaims \/
      (\E c \in ToolCalls : WriteEnds(c))) => Goal
  BY DEF Crash, TimePasses, Beat, OtherRunReclaims, WriteEnds, Reset, Waiting, Gated, Points
<1>12. CASE UNCHANGED vars
  BY <1>12 DEF vars
<1> HIDE DEF Goal
<1> QED
  BY <1>1, <1>2, <1>3, <1>4, <1>5, <1>6, <1>7, <1>8, <1>9, <1>10, <1>11, <1>12
     DEF Next, Task, Gate, Recovery, Loop, ModelCall, ModelFailure, ToolRun, Operator

LEMMA GateShutStep == ASSUME [Next]_vars, Inv1, Inv2 PROVE GateShut'
<1>1. ASSUME AllApproved, UNCHANGED approvals PROVE AllApproved'
  BY <1>1 DEF AllApproved
<1>2. ASSUME pc' \in Gated PROVE AllApproved'
  <2>1. CASE GatePassed
    <3>1. AllApproved
      BY <2>1, FirstUnapprovedFacts DEF GatePassed, AllApproved, Inv1, OwnTypes
    <3> QED BY <1>1, <2>1, <3>1 DEF GatePassed, OnlyTask
  <2>2. CASE pc \in Gated
    <3>1. AllApproved
      BY <2>2 DEF Inv2, GateShut
    <3>2. pc' # "pause" /\ pc # "idle"
      BY <1>2, <2>2 DEF Gated
    <3> QED BY <1>1, <3>1, <3>2, ApprovalChange
  <2> QED BY <1>2, <2>1, <2>2, GatedFrom
<1>3. ASSUME runStatus'[Run] = "completed" PROVE AllApproved'
  <2>1. CASE runStatus[Run] = "completed"
    <3>1. AllApproved
      BY <2>1 DEF Inv2, GateShut
    <3>2. pc \notin {"uncertain", "approve"}
      BY <2>1 DEF Inv1, EndedIsIdle, Terminal, J!TerminalRun
    <3>3. ASSUME NEW i \in DOMAIN approvals PROVE approvals[i].status # "pending"
      BY <3>1 DEF AllApproved
    <3> QED BY <1>1, <3>1, <3>2, <3>3, ApprovalChange
  <2>2. CASE CompleteRun
    <3>1. AllApproved
      BY <2>2 DEF Inv2, GateShut, CompleteRun, Gated, Points
    <3>2. UNCHANGED approvals
      BY <2>2 DEF CompleteRun, OnlyJournal
    <3> QED BY <1>1, <3>1, <3>2
  <2>3. CASE Submit
    BY <1>3, <2>3 DEF Submit, J!CreateRun, Inv1, JTypeOK, J!TypeOK
  <2> QED BY <1>3, <2>1, <2>2, <2>3, RunMoves
<1> QED BY <1>2, <1>3 DEF GateShut

----------------------------------------------------------------------------
LEMMA NewReconciler ==
  ASSUME [Next]_vars, Inv1, NEW s \in ToolSteps, Creates(ReconcilerOf(s))
  PROVE  s \in todo /\ StartReconcile(s) /\ pc = "uncertain"
<1>1. ReconcilerOf(s) \in ReconcileSteps /\ ReconcilerOf(s).kind = "reconcile"
  BY ToolStepFacts, ReconcileStepFacts
<1>2. ASSUME NEW u \in todo, StartReconcile(u), ReconcilerOf(s) = ReconcilerOf(u)
      PROVE  s \in todo /\ StartReconcile(s) /\ pc = "uncertain"
  <2>1. u \in ToolSteps
    BY <1>2, TodoStep DEF StartReconcile, Handles
  <2>2. s = u
    BY <1>2, <2>1, ToolStepFacts
  <2> QED BY <1>2, <2>2 DEF StartReconcile, Handles
<1>3. ASSUME NEW u \in todo, RetryUncertain(u), ReconcilerOf(s) = Replacement(u) PROVE FALSE
  BY <1>1, <1>3, TodoStep, ToolStepFacts DEF RetryUncertain, Handles
<1>4. ASSUME VerdictNotApplied, ReconcilerOf(s) = Replacement(ReconciledBy(cur)) PROVE FALSE
  <2>1. Replacement(ReconciledBy(cur)) \in ToolSteps
    BY <1>4, VerdictStep DEF VerdictNotApplied
  <2> QED BY <1>1, <1>4, <2>1, ToolStepFacts
<1> QED BY <1>1, <1>2, <1>3, <1>4, ModelStepFacts, ToolStepFacts DEF Creates

LEMMA ReconcilesUncertainStep == ASSUME [Next]_vars, Inv1, Inv2 PROVE ReconcilesUncertain'
<1> SUFFICES ASSUME NEW s \in ToolSteps, stepStatus'[ReconcilerOf(s)] # "absent"
             PROVE  stepStatus'[s] \in {"uncertain", "cancelled"} /\ Safety[s] = "reconcilable"
  BY DEF ReconcilesUncertain, Made
<1>1. s \in Steps /\ ReconcilerOf(s) \in Steps
  BY ToolStepFacts
<1>2. stepStatus[s] \in {"uncertain", "cancelled"} /\ Safety[s] = "reconcilable"
  <2>1. CASE stepStatus[ReconcilerOf(s)] # "absent"
    BY <2>1 DEF Inv2, ReconcilesUncertain, Made
  <2>2. CASE Creates(ReconcilerOf(s))
    <3>1. s \in todo /\ StartReconcile(s) /\ pc = "uncertain"
      BY <2>2, NewReconciler
    <3> QED BY <3>1, TodoStep DEF StartReconcile
  <2> QED BY <1>1, <2>1, <2>2, StatusKept
<1> QED BY <1>1, <1>2, StatusKept

LEMMA ReceiptMoves ==
  ASSUME [Next]_vars, Inv1
  PROVE  UNCHANGED receipts \/ VerdictApplied \/ CommitTool \/ CommitReconcile
<1> DEFINE Goal ==
      UNCHANGED receipts \/ VerdictApplied \/ CommitTool \/ CommitReconcile
<1> SUFFICES Goal
  OBVIOUS
<1>1. (Execute \/ GatePending \/ GateRejected \/ Reject \/ GatePassed) => Goal
  BY DEF Execute, GatePending, GateRejected, Reject, GatePassed, OnlyTask, journalVars,
     J!stepVars, J!CancelStep, J!ReclaimExpiredLeases, Reclaim, J!MarkRunStatus, MarkUnless,
     PauseRun
<1>2. (Proceed \/ VerdictNotApplied \/ Pause \/ (\E s \in todo : SkipUncertain(s)) \/
      (\E s \in todo : StartReconcile(s)) \/ (\E s \in todo : AskAboutUncertain(s)) \/
      (\E s \in todo : RetryUncertain(s))) => Goal
  BY DEF Proceed, VerdictNotApplied, Pause, SkipUncertain, StartReconcile, AskAboutUncertain,
     RetryUncertain, OnlyTask, journalVars, J!stepVars, J!CreateStep, Ensure, J!MarkRunStatus,
     MarkUnless, PauseRun
<1>3. CASE VerdictApplied
  BY <1>3
<1>4. (CompleteRun \/ IterationLimit \/ ContinueGroup \/ GroupDone \/ AskApproval \/
      HasApproval \/ (\E t \in Steps : Claim(t)) \/ ClaimNone \/ Begin \/ LeaseLost \/
      Stop) => Goal
  BY DEF CompleteRun, IterationLimit, ContinueGroup, GroupDone, AskApproval, HasApproval, Claim,
     ClaimNone, Begin, LeaseLost, Stop, OnlyTask, journalVars, J!stepVars, J!ClaimReadyStep,
     J!MarkExecuting, J!MarkRunStatus, MarkUnless, PauseRun
<1>5. CASE PlanModel
  BY <1>5, PlanModelStep DEF Ensure, J!CreateStep, journalVars
<1>6. CASE PlanTool
  BY <1>6, PlanToolStep DEF Inv1, Ensure, J!CreateStep, journalVars
<1>7. ((\E c \in 1 .. MaxProviderCalls : WriteOffCall(c)) \/
      (\E c \in 1 .. MaxProviderCalls : StartCall(c)) \/ Reserve \/ Refuse \/
      (\E c \in 1 .. MaxProviderCalls, calls \in Replies, tokens \in Usages :
         ProviderReplies(c, calls, tokens)) \/
      SettleReply \/ CommitModel) => Goal
  BY DEF WriteOffCall, StartCall, Reserve, Refuse, ProviderReplies, SettleReply, CommitModel,
     OnlyLedger, journalVars, J!CommitStep, J!FailStep, J!FinishOwnedStep, J!Heartbeat
<1>8. ((\E c \in 1 .. MaxProviderCalls : ProviderFails(c)) \/ SettleFailed \/ FailModel) => Goal
  BY DEF ProviderFails, SettleFailed, FailModel, OnlyLedger, journalVars, J!FailStep,
     J!FinishOwnedStep
<1>9. (TakeEffect) => Goal
  BY DEF TakeEffect, journalVars
<1>10. CASE CommitTool
  BY <1>10
<1>11. CASE CommitReconcile
  BY <1>11
<1>12. ((\E i \in DOMAIN approvals, decision \in A!Decisions : Decide(i, decision)) \/
      (\E i \in DOMAIN approvals : RepeatDecision(i)) \/ Resume) => Goal
  BY DEF Decide, RepeatDecision, Resume, OnlyTask, journalVars
<1>13. (Submit \/ Startup \/ StartupSchedule \/ ToolRaises \/ Cancel) => Goal
  BY DEF Submit, Startup, StartupSchedule, ToolRaises, Cancel, OnlyTask, journalVars,
     J!stepVars, J!FailStep, J!FinishOwnedStep, J!ReclaimExpiredLeases, Reclaim,
     J!MarkRunStatus, J!CreateRun
<1>14. (Crash \/ TimePasses \/ Beat \/ OtherRunReclaims \/
      (\E c \in ToolCalls : WriteEnds(c))) => Goal
  BY DEF Crash, TimePasses, Beat, OtherRunReclaims, WriteEnds, journalVars, J!stepVars, J!Heartbeat,
     J!Tick, J!ReclaimExpiredLeases
<1>15. CASE UNCHANGED vars
  BY <1>15 DEF vars, journalVars
<1> HIDE DEF Goal
<1> QED
  BY <1>1, <1>2, <1>3, <1>4, <1>5, <1>6, <1>7, <1>8, <1>9, <1>10, <1>11, <1>12, <1>13, <1>14,
     <1>15
     DEF Next, Task, Gate, Recovery, Loop, ModelCall, ModelFailure, ToolRun, Operator

LEMMA ReceiptsProvenStep == ASSUME [Next]_vars, Inv1, Inv2 PROVE ReceiptsProven'
<1> SUFFICES ASSUME NEW s \in ToolSteps, receipts'[ReconciledKey(s)] # J!NoReceipt
             PROVE  stepStatus'[ReconcilerOf(s)] = "committed" /\ ReconcilerOf(s) \in proven'
  BY DEF ReceiptsProven, HasReceipt, ReconciledKey, J!NoReceipt
<1>1. ReconcilerOf(s) \in Steps /\ ReconciledKey(s) \in ReceiptKeys
  BY ToolStepFacts DEF ReceiptKeys, ReconciledKey
<1>2. stepStatus[ReconcilerOf(s)] = "committed" /\ ReconcilerOf(s) \in proven
  <2>1. CASE receipts[ReconciledKey(s)] # J!NoReceipt
    BY <2>1 DEF Inv2, ReceiptsProven, HasReceipt
  <2>2. CASE receipts'[ReconciledKey(s)] # receipts[ReconciledKey(s)]
    <3>1. receipts \in [ReceiptKeys -> J!Receipt \cup {J!NoReceipt}]
      BY DEF Inv1, JTypeOK, J!TypeOK
    <3>2. CASE VerdictApplied
      <4>1. cur \in ReconcileSteps /\ cur \in proven /\ stepStatus[cur] = "committed"
        BY <3>2, VerdictStep DEF VerdictApplied, Inv2, OtherWork
      <4>2. ReconciledKey(s) = ReconciledKey(ReconciledBy(cur))
        BY <1>1, <2>2, <3>1, <3>2 DEF VerdictApplied, J!RecordReceipt, J!WriteReceipt
      <4>3. s = ReconciledBy(cur)
        BY <4>2 DEF ReconciledKey
      <4> QED BY <4>1, <4>3, ReconcileStepFacts
    <3>3. CASE CommitTool
      <4>1. <<"tool", cur>> # ReconciledKey(s)
        BY DEF ReconciledKey
      <4> QED BY <1>1, <2>2, <3>1, <3>3, <4>1 DEF CommitTool, J!CommitStep, J!WriteReceipt
    <3>4. CASE CommitReconcile
      <4>1. <<"reconcile", cur>> # ReconciledKey(s)
        BY DEF ReconciledKey
      <4> QED BY <1>1, <2>2, <3>1, <3>4, <4>1 DEF CommitReconcile, J!CommitStep, J!WriteReceipt
    <3> QED BY <2>2, <3>2, <3>3, <3>4, ReceiptMoves
  <2> QED BY <2>1, <2>2
<1>3. ReconcilerOf(s) \in proven'
  BY <1>2, Frame DEF CommitReconcile
<1> QED BY <1>1, <1>2, <1>3, StatusKept

\* A call that was given up stays given up.
LEMMA GivenUpStays ==
  ASSUME [Next]_vars, Inv1, NEW t \in ToolSteps, GivenUp(t)
  PROVE  GivenUp(t)'
<1>1. t \in Steps /\ ReconcilerOf(t) \in Steps
  BY ToolStepFacts
<1>2. stepStatus'[t] \in {"uncertain", "cancelled"}
  BY <1>1, StatusKept DEF GivenUp
<1>3. Safety[t] = "opaque_side_effect" => Granted(t, "uncertain_outcome")'
  BY GrantedStays DEF GivenUp
<1>4. ASSUME Safety[t] = "reconcilable"
      PROVE  stepStatus'[ReconcilerOf(t)] = "committed" /\ ReconcilerOf(t) \notin proven'
  <2>1. stepStatus[ReconcilerOf(t)] = "committed" /\ ReconcilerOf(t) \notin proven
    BY <1>4 DEF GivenUp
  <2>2. CommitReconcile => stepStatus[cur] = "executing"
    BY DEF CommitReconcile, J!CommitStep
  <2>3. CommitReconcile => ReconcilerOf(t) \notin proven'
    BY <2>1, <2>2 DEF CommitReconcile
  <2> QED BY <1>1, <2>1, <2>3, Frame, StatusKept
<1> QED BY <1>2, <1>3, <1>4 DEF GivenUp

\* Where a tool step comes from.
LEMMA NewToolStep ==
  ASSUME [Next]_vars, Inv1, Inv2, NEW s \in ToolSteps, Creates(s)
  PROVE  \/ /\ PlanTool /\ s.depth = 0 /\ s = Try(<<s.iter, s.n>>, 0)
            /\ s.iter = cur.iter /\ s.n \in OpenCalls /\ \A m \in OpenCalls : s.n <= m
         \/ \E u \in ToolSteps :
              /\ s = Replacement(u) /\ u.depth + 1 \in Depths
              /\ s = Try(CallOf(u), u.depth + 1) /\ GivenUp(u)
              /\ stepStatus[u] = "uncertain"
              /\ pc \in {"uncertain", "verdict"}
<1>1. s \in Steps /\ s.kind = "tool" /\ s.depth \in Depths
  BY ToolStepFacts
<1>2. CASE \E u \in todo : StartReconcile(u) /\ s = ReconcilerOf(u)
  BY <1>1, <1>2, TodoStep, ReconcileStepFacts DEF StartReconcile, Handles
<1>3. ASSUME NEW u \in todo, RetryUncertain(u), s = Replacement(u)
      PROVE  /\ u \in ToolSteps /\ u.depth + 1 \in Depths /\ s = Try(CallOf(u), u.depth + 1)
             /\ GivenUp(u) /\ pc = "uncertain" /\ stepStatus[u] = "uncertain"
  <2>1. /\ u \in ToolSteps /\ u \in Steps /\ stepStatus[u] = "uncertain"
        /\ Safety[u] \notin J!Repeatable
    BY <1>3, TodoStep DEF RetryUncertain, Handles
  <2>2. Safety[u] \in JP!SafetyClasses
    BY <2>1, JournalInstance DEF JP!JournalAssumption
  <2>3. Safety[u] = "opaque_side_effect"
    BY <1>3, <2>1, <2>2 DEF RetryUncertain, JP!SafetyClasses, J!Repeatable
  <2>4. s = Try(CallOf(u), u.depth + 1)
    BY <1>3, <2>1, ToolStepFacts
  <2>5. u.depth + 1 \in Depths
    BY <1>1, <2>4 DEF Try, Step
  <2>6. Granted(u, "uncertain_outcome")
    <3>1. PICK i \in A!RequestsFor(u, {"uncertain_outcome"}) : approvals[i].status = "approved"
      BY <1>3, ApprovedRow DEF RetryUncertain, Inv1, OwnTypes
    <3> QED BY <3>1 DEF A!RequestsFor, Granted
  <2> QED BY <1>3, <2>1, <2>3, <2>4, <2>5, <2>6 DEF RetryUncertain, Handles, GivenUp
<1>4. ASSUME VerdictNotApplied, NEW u, u = ReconciledBy(cur), s = Replacement(u)
      PROVE  /\ u \in ToolSteps /\ u.depth + 1 \in Depths /\ s = Try(CallOf(u), u.depth + 1)
             /\ GivenUp(u) /\ pc = "verdict" /\ stepStatus[u] = "uncertain"
  <2>1. pc = "verdict" /\ cur \notin proven
    BY <1>4 DEF VerdictNotApplied
  <2>2. /\ cur \in ReconcileSteps /\ u \in ToolSteps
        /\ stepStatus[u] = "uncertain" /\ Safety[u] = "reconcilable"
    BY <1>4, <2>1, VerdictStep
  <2>3. ReconcilerOf(u) = cur /\ stepStatus[cur] = "committed"
    BY <1>4, <2>1, <2>2, ReconcileStepFacts DEF Inv2, OtherWork
  <2>4. s = Try(CallOf(u), u.depth + 1)
    BY <1>4, <2>2, ToolStepFacts
  <2>5. u.depth + 1 \in Depths
    BY <1>1, <2>4 DEF Try, Step
  <2> QED BY <2>1, <2>2, <2>3, <2>4, <2>5 DEF GivenUp
<1>5. CASE PlanModel /\ s \in ModelSteps
  BY <1>1, <1>5, ModelStepFacts
<1>6. CASE PlanTool
  <2>1. cur' = s
    BY DEF Creates
  <2>2. PICK t \in ToolSteps : /\ WorkOn("approve", t)
                               /\ t = Original(<<cur.iter, t.n>>) /\ t.iter = cur.iter
                               /\ t.n \in OpenCalls /\ \A m \in OpenCalls : t.n <= m
    BY <1>6, PlanToolStep DEF Inv1
  <2>3. t = s
    BY <2>1, <2>2 DEF WorkOn
  <2>4. Original(<<cur.iter, s.n>>) = Try(<<s.iter, s.n>>, 0)
    BY <2>2, <2>3 DEF Original, Try
  <2>5. s.depth = 0
    BY <2>2, <2>3 DEF Original, Step
  <2> QED BY <1>6, <2>2, <2>3, <2>4, <2>5
<1> QED BY <1>2, <1>3, <1>4, <1>5, <1>6 DEF Creates

LEMMA ChainStep == ASSUME [Next]_vars, Inv1, Inv2 PROVE Chain'
<1> SUFFICES ASSUME NEW c \in ToolCalls, NEW d \in Depths, stepStatus'[Try(c, d)] # "absent",
                    NEW e \in 0 .. d - 1
             PROVE  GivenUp(Try(c, e))'
  BY DEF Chain, Made, Try, Step
<1>1. Try(c, d) \in ToolSteps /\ Try(c, d) \in Steps
  BY TryFacts, ToolStepFacts
<1>2. e \in Depths /\ e < d
  BY AgentRuntimeAssumption DEF Depths
<1>3. Try(c, e) \in ToolSteps
  BY <1>2, TryFacts
<1>4. GivenUp(Try(c, e))
  <2>1. CASE stepStatus[Try(c, d)] # "absent"
    BY <2>1 DEF Inv2, Chain, Made
  <2>2. CASE Creates(Try(c, d))
    <3>1. d # 0 /\ Try(c, d).depth = d
      BY <1>2, TryFacts DEF Depths
    <3>2. PICK u \in ToolSteps : /\ Try(c, d) = Try(CallOf(u), u.depth + 1) /\ GivenUp(u)
                                 /\ stepStatus[u] = "uncertain"
      BY <1>1, <2>2, <3>1, NewToolStep
    <3>3. u = Try(CallOf(u), u.depth) /\ CallOf(u) \in ToolCalls /\ u.depth \in Depths
      BY ToolStepFacts
    <3>4. CallOf(u) = c /\ u.depth + 1 = d
      BY <3>2, <3>3, TryFacts DEF Try, Step, ToolCalls
    <3>5. CASE e = u.depth
      BY <3>2, <3>3, <3>4, <3>5
    <3>6. CASE e # u.depth
      <4>1. e \in 0 .. u.depth - 1
        BY <3>3, <3>4, <3>6 DEF Depths
      <4>2. Made(Try(c, u.depth))
        BY <3>2, <3>3, <3>4 DEF Made
      <4> QED BY <3>3, <4>1, <4>2 DEF Inv2, Chain
    <3> QED BY <3>5, <3>6
  <2> QED BY <1>1, <2>1, <2>2, StatusKept
<1> QED BY <1>3, <1>4, GivenUpStays

LEMMA FoundTry ==
  ASSUME NEW c \in ToolCalls
  PROVE  Found(c) <=>
           \E d \in Depths : /\ stepStatus[Try(c, d)] = "committed" \/ HasReceipt(Try(c, d))
                             /\ \A e \in 0 .. d : Made(Try(c, e))
<1> DEFINE F(t, d) == /\ stepStatus[t] = "committed" \/ HasReceipt(t)
                      /\ \A e \in 0 .. d : stepStatus[[t EXCEPT !.depth = e]] # "absent"
<1>1. Found(c) <=> \E d \in Depths : F([Original(c) EXCEPT !.depth = d], d)
  BY DEF Found
<1>2. \A d \in Depths : [Original(c) EXCEPT !.depth = d] = Try(c, d)
  BY DEF Original, Try, Step
<1>3. ASSUME NEW d \in Depths
      PROVE  F(Try(c, d), d) <=> /\ stepStatus[Try(c, d)] = "committed" \/ HasReceipt(Try(c, d))
                                 /\ \A e \in 0 .. d : Made(Try(c, e))
  <2>1. \A e \in 0 .. d : [Try(c, d) EXCEPT !.depth = e] = Try(c, e)
    BY DEF Try, Step
  <2> QED BY <2>1 DEF Made
<1> HIDE DEF F
<1>4. Found(c) <=> \E d \in Depths : F(Try(c, d), d)
  BY <1>1, <1>2
<1> QED BY <1>3, <1>4

LEMMA CallsOf ==
  ASSUME OwnTypes, NEW i \in Iterations, Answered(i)
  PROVE  /\ toolCalls[i] \subseteq CallIndex
         /\ \A n \in toolCalls[i] : <<i, n>> \in ToolCalls
<1>1. toolCalls[i] \in Replies
  BY DEF OwnTypes, Answered
<1> QED BY <1>1, AgentRuntimeAssumption DEF CallIndex, ToolCalls

LEMMA FoundStays ==
  ASSUME [Next]_vars, Inv1, Inv2, NEW c \in ToolCalls, Found(c)
  PROVE  Found(c)'
<1>1. PICK d \in Depths : /\ stepStatus[Try(c, d)] = "committed" \/ HasReceipt(Try(c, d))
                          /\ \A e \in 0 .. d : Made(Try(c, e))
  BY FoundTry
<1>2. \A e \in 0 .. d : e \in Depths
  BY AgentRuntimeAssumption DEF Depths
<1>3. ASSUME NEW e \in 0 .. d PROVE stepStatus'[Try(c, e)] # "absent"
  BY <1>1, <1>2, TryFacts, ToolStepFacts, StatusKept DEF Made
<1>4. stepStatus'[Try(c, d)] = "committed" \/ HasReceipt(Try(c, d))'
  <2>1. Try(c, d) \in ToolSteps /\ Try(c, d) \in Steps
    BY TryFacts, ToolStepFacts
  <2>2. ReconciledKey(Try(c, d)) \in ReceiptKeys
    BY <2>1 DEF ReceiptKeys, ReconciledKey
  <2>3. HasReceipt(Try(c, d)) => HasReceipt(Try(c, d))'
    BY <2>2, Settled DEF HasReceipt, J!NoReceipt, ReconciledKey, Try, Step
  <2> QED BY <1>1, <2>1, <2>3, StatusKept
<1> DEFINE F(t, x) ==
      /\ stepStatus'[t] = "committed" \/ receipts'[<<"reconciled", t>>] # J!NoReceipt
      /\ \A e \in 0 .. x : stepStatus'[[t EXCEPT !.depth = e]] # "absent"
<1>5. Found(c)' <=> \E x \in Depths : F([Original(c) EXCEPT !.depth = x], x)
  BY DEF Found, HasReceipt, ReconciledKey, J!NoReceipt, Original, Step
<1>6. [Original(c) EXCEPT !.depth = d] = Try(c, d)
  BY DEF Original, Try, Step
<1>7. \A e \in 0 .. d : [Try(c, d) EXCEPT !.depth = e] = Try(c, e)
  BY DEF Try, Step
<1>8. HasReceipt(Try(c, d))' <=> receipts'[<<"reconciled", Try(c, d)>>] # J!NoReceipt
  BY DEF HasReceipt, ReconciledKey, J!NoReceipt, Try, Step
<1>9. F(Try(c, d), d)
  BY <1>3, <1>4, <1>7, <1>8
<1> HIDE DEF F
<1> QED BY <1>5, <1>6, <1>9

LEMMA CallsStay ==
  ASSUME [Next]_vars, Inv1, Inv2, NEW i \in Iterations, Answered(i)
  PROVE  Answered(i)' /\ toolCalls'[i] = toolCalls[i]
<1>1. CASE CommitModel
  <2>1. cur \in ModelSteps /\ ~Answered(cur.iter)
    BY <1>1 DEF CommitModel, Inv1, CurFits, ModelPoints, Inv2, OtherWork, ModelsInOrder
  <2>2. cur.iter # i
    BY <2>1
  <2> QED BY <1>1, <2>2 DEF CommitModel, Answered, Inv1, OwnTypes
<1> QED BY <1>1, Frame DEF Answered

LEMMA CompleteStays ==
  ASSUME [Next]_vars, Inv1, Inv2, NEW i \in Iterations, Complete(i)
  PROVE  Complete(i)'
<1>1. Answered(i) /\ toolCalls[i] # {} /\ \A n \in toolCalls[i] : Found(<<i, n>>)
  BY DEF Complete, Outputs
<1>2. Answered(i)' /\ toolCalls'[i] = toolCalls[i]
  BY <1>1, CallsStay
<1>3. ASSUME NEW n \in toolCalls[i] PROVE Found(<<i, n>>)'
  BY <1>1, CallsOf, FoundStays DEF Inv1
<1> QED BY <1>1, <1>2, <1>3 DEF Complete, Outputs

LEMMA BelowStays ==
  ASSUME [Next]_vars, Inv1, Inv2, NEW i \in Iterations, CompleteBelow(i)
  PROVE  CompleteBelow(i)'
<1>1. \A j \in 0 .. i - 1 : j \in Iterations
  BY AgentRuntimeAssumption DEF Iterations
<1> QED BY <1>1, CompleteStays DEF CompleteBelow

LEMMA InOrderStays ==
  ASSUME [Next]_vars, Inv1, Inv2, NEW s \in ToolSteps, InOrder(s)
  PROVE  InOrder(s)'
<1>1. s.iter \in Iterations
  BY ToolStepFacts
<1>2. /\ Answered(s.iter)' /\ toolCalls'[s.iter] = toolCalls[s.iter] /\ CompleteBelow(s.iter)'
  BY <1>1, CallsStay, BelowStays DEF InOrder
<1>3. ASSUME NEW m \in toolCalls[s.iter], m < s.n
      PROVE  stepStatus'[Try(<<s.iter, m>>, 0)] = "committed"
  <2>1. stepStatus[Try(<<s.iter, m>>, 0)] = "committed"
    BY <1>3 DEF InOrder
  <2>2. <<s.iter, m>> \in ToolCalls /\ 0 \in Depths
    BY <1>1, CallsOf, AgentRuntimeAssumption DEF InOrder, Inv1, Depths
  <2>3. Try(<<s.iter, m>>, 0) \in Steps
    BY <2>2, TryFacts, ToolStepFacts
  <2> QED BY <2>1, <2>3, StatusKept
<1> QED BY <1>2, <1>3 DEF InOrder, Try, Step

LEMMA ToolsInOrderStep == ASSUME [Next]_vars, Inv1, Inv2 PROVE ToolsInOrder'
<1> SUFFICES ASSUME NEW s \in ToolSteps, stepStatus'[s] # "absent" PROVE InOrder(s)'
  BY DEF ToolsInOrder, Made
<1>1. InOrder(s)
  <2>1. CASE stepStatus[s] # "absent"
    BY <2>1 DEF Inv2, ToolsInOrder, Made
  <2>2. CASE Creates(s)
    <3>1. CASE PlanTool /\ s.iter = cur.iter /\ s.n \in OpenCalls /\ \A m \in OpenCalls : s.n <= m
      <4>1. Answered(s.iter) /\ CompleteBelow(s.iter) /\ s.iter \in Iterations
        BY <3>1, ToolStepFacts DEF PlanTool, Inv2, GroupFits
      <4>2. toolCalls[s.iter] \subseteq CallIndex /\ s.n \in toolCalls[s.iter]
        BY <3>1, <4>1, CallsOf DEF Inv1, OpenCalls
      <4>3. ASSUME NEW m \in toolCalls[s.iter], m < s.n
            PROVE  stepStatus[Try(<<s.iter, m>>, 0)] = "committed"
        <5>1. m \in Int /\ s.n \in Int
          BY <4>2, AgentRuntimeAssumption DEF CallIndex
        <5>2. m \notin OpenCalls
          BY <3>1, <4>3, <5>1
        <5>3. stepStatus[Original(<<cur.iter, m>>)] = "committed"
          BY <3>1, <4>3, <5>2 DEF OpenCalls
        <5> QED BY <3>1, <5>3 DEF Original, Try
      <4> QED BY <4>1, <4>2, <4>3 DEF InOrder
    <3>2. ASSUME NEW u \in ToolSteps, s = Try(CallOf(u), u.depth + 1), u.depth + 1 \in Depths,
                 stepStatus[u] = "uncertain"
          PROVE  InOrder(s)
      <4>1. InOrder(u)
        BY <3>2 DEF Inv2, ToolsInOrder, Made
      <4>2. s.iter = u.iter /\ s.n = u.n
        BY <3>2 DEF Try, Step, CallOf
      <4> QED BY <4>1, <4>2 DEF InOrder
    <3> QED BY <2>2, <3>1, <3>2, NewToolStep
  <2> QED BY <2>1, <2>2, StatusKept, ToolStepFacts
<1> QED BY <1>1, InOrderStays

LEMMA NewModelStep ==
  ASSUME [Next]_vars, Inv1, NEW s \in ModelSteps, Creates(s),
         stepStatus[s] = "absent", stepStatus'[s] = "ready"
  PROVE  /\ PlanModel /\ s.iter = NextIteration /\ NextIteration \in Iterations
         /\ CompleteBelow(s.iter) /\ ~Answered(s.iter)
         /\ \A m \in ModelSteps : m.iter = s.iter => ~Open(m)
<1>1. s.kind = "model"
  BY ModelStepFacts
<1>2. ASSUME NEW u \in todo, StartReconcile(u) PROVE s # ReconcilerOf(u)
  BY <1>1, <1>2, TodoStep, ReconcileStepFacts DEF StartReconcile, Handles
<1>3. ASSUME NEW u \in todo, RetryUncertain(u) PROVE s # Replacement(u)
  BY <1>1, <1>3, TodoStep, ToolStepFacts DEF RetryUncertain, Handles
<1>4. VerdictNotApplied => s # Replacement(ReconciledBy(cur))
  BY <1>1, VerdictStep, ToolStepFacts DEF VerdictNotApplied
<1>5. PlanModel /\ cur' = s
  BY <1>1, <1>2, <1>3, <1>4, ToolStepFacts DEF Creates
<1>6. /\ NextIteration \in Iterations /\ ~Answered(NextIteration)
      /\ \A j \in 0 .. NextIteration - 1 : Complete(j)
  BY <1>5, NextIterationFacts DEF PlanModel
<1>7. s.iter = NextIteration /\ \A m \in ModelSteps : m.iter = s.iter => ~Open(m)
  <2>1. ~UNCHANGED journalVars
    BY DEF journalVars
  <2>2. PICK m \in ModelSteps :
          /\ WorkOn("claim", m) /\ m.iter = NextIteration
          /\ \A k \in ModelSteps :
               k.iter = NextIteration => stepStatus[k] \notin {"ready", "leased", "executing"}
    BY <1>5, <2>1, PlanModelStep
  <2>3. m = s
    BY <1>5, <2>2 DEF WorkOn
  <2> QED BY <2>2, <2>3 DEF Open
<1> QED BY <1>5, <1>6, <1>7 DEF CompleteBelow

LEMMA ModelsInOrderStep == ASSUME [Next]_vars, Inv1, Inv2 PROVE ModelsInOrder'
<1>1. ASSUME NEW s \in ModelSteps, stepStatus'[s] # "absent"
      PROVE  CompleteBelow(s.iter)'
  <2>1. s \in Steps /\ s.iter \in Iterations
    BY ModelStepFacts
  <2>2. CompleteBelow(s.iter)
    BY <1>1, <2>1, StatusKept, NewModelStep DEF Inv2, ModelsInOrder, Made
  <2> QED BY <2>1, <2>2, BelowStays
<1>2. ASSUME NEW s \in ModelSteps, Open(s)'
      PROVE  \/ Open(s)
             \/ /\ PlanModel /\ ~Answered(s.iter)
                /\ \A m \in ModelSteps : m.iter = s.iter => ~Open(m)
                /\ \A m \in ModelSteps : m # s => stepStatus'[m] = stepStatus[m]
  <2>1. s \in Steps
    BY ModelStepFacts
  <2>2. stepStatus'[s] \in {"ready", "leased", "executing"}
    BY <1>2 DEF Open
  <2>3. Open(s) \/ (Creates(s) /\ stepStatus[s] = "absent" /\ stepStatus'[s] = "ready")
    BY <2>1, <2>2, StatusChange DEF Open, J!Held
  <2>4. CASE Creates(s) /\ stepStatus[s] = "absent" /\ stepStatus'[s] = "ready"
    <3>1. /\ PlanModel /\ ~Answered(s.iter)
          /\ \A m \in ModelSteps : m.iter = s.iter => ~Open(m)
      BY <2>4, NewModelStep
    <3>2. ASSUME NEW m \in ModelSteps, m # s PROVE stepStatus'[m] = stepStatus[m]
      <4>1. m \in Steps /\ ~Creates(m)
        BY <2>4, <3>2, ModelStepFacts DEF Creates
      <4>2. pc = "loop"
        BY <3>1 DEF PlanModel
      <4> QED BY <4>1, <4>2, StatusChange
          DEF Execute, Startup, OtherRunReclaims, Waiting, GateRejected, Claim, Begin, Refuse,
          FailModel, ToolRaises, CommitModel, CommitTool, ToolReturned, CommitReconcile
    <3> QED BY <3>1, <3>2
  <2> QED BY <2>3, <2>4
<1>3. ASSUME NEW s \in ModelSteps, Open(s)' PROVE ~Answered(s.iter)'
  <2>1. s \in Steps /\ s.iter \in Iterations
    BY ModelStepFacts
  <2>2. ~Answered(s.iter)
    BY <1>2, <1>3 DEF Inv2, ModelsInOrder
  <2>3. CASE CommitModel
    <3>1. cur \in ModelSteps /\ Open(cur) /\ cur \in Steps
      BY <2>3, ModelStepFacts DEF CommitModel, Inv1, CurFits, ModelPoints, Inv2, OtherWork
    <3>2. stepStatus'[cur] = "committed"
      BY <2>3, <3>1 DEF CommitModel, J!CommitStep, J!Release, Inv1, JTypeOK, J!TypeOK
    <3>3. s # cur
      BY <1>3, <3>2 DEF Open
    <3>4. Open(s)
      BY <1>2, <1>3, <2>3 DEF CommitModel, PlanModel
    <3>5. s.iter # cur.iter
      BY <3>1, <3>3, <3>4 DEF Inv2, ModelsInOrder
    <3> QED BY <2>1, <2>2, <2>3, <3>5 DEF CommitModel, Answered, Inv1, OwnTypes
  <2> QED BY <2>2, <2>3, Frame DEF Answered
<1>4. ASSUME NEW s \in ModelSteps, NEW t \in ModelSteps, Open(s)', Open(t)', s.iter = t.iter, s # t
      PROVE  FALSE
  <2>1. Open(s) /\ Open(t) => FALSE
    BY <1>4 DEF Inv2, ModelsInOrder
  <2>2. ASSUME NEW a \in ModelSteps, NEW b \in ModelSteps, Open(a)', Open(b)', a.iter = b.iter,
               a # b, ~Open(a)
        PROVE  FALSE
    <3>1. ~Open(b) /\ stepStatus'[b] = stepStatus[b]
      BY <1>2, <2>2
    <3> QED BY <2>2, <3>1 DEF Open
  <2> QED BY <1>4, <2>1, <2>2
<1>5. ASSUME NEW i \in Iterations, Answered(i)' PROVE CompleteBelow(i)'
  <2>1. CompleteBelow(i)
    <3>1. CASE Answered(i)
      BY <3>1 DEF Inv2, ModelsInOrder
    <3>2. CASE ~Answered(i)
      <4>1. CommitModel
        BY <1>5, <3>2, Frame DEF Answered
      <4>2. cur \in ModelSteps /\ Made(cur)
        BY <4>1 DEF CommitModel, Inv1, CurFits, ModelPoints, Inv2, CurMade
      <4>3. cur.iter = i
        BY <1>5, <3>2, <4>1 DEF CommitModel, Answered, Inv1, OwnTypes
      <4> QED BY <4>2, <4>3 DEF Inv2, ModelsInOrder
    <3> QED BY <3>1, <3>2
  <2> QED BY <2>1, BelowStays
<1> QED BY <1>1, <1>3, <1>4, <1>5 DEF ModelsInOrder, Made, Open

LEMMA GroupFrom ==
  ASSUME [Next]_vars, Inv1
  PROVE  pc' = "group" =>
           \/ pc = "group" /\ cur' = cur
           \/ CommitTool /\ cur' = cur /\ cur \in ToolSteps
           \/ ContinueGroup /\ cur'.iter = NextIteration
<1> DEFINE Goal ==
      pc' = "group" =>
        \/ pc = "group" /\ cur' = cur
        \/ CommitTool /\ cur' = cur /\ cur \in ToolSteps
        \/ ContinueGroup /\ cur'.iter = NextIteration
<1> SUFFICES Goal
  OBVIOUS
<1>1. (Execute \/ GatePending \/ GateRejected \/ Reject \/ GatePassed) => Goal
  BY DEF Execute, GatePending, GateRejected, Reject, GatePassed, Goto, Return, Reset, localVars
<1>2. (Proceed \/ VerdictApplied \/ VerdictNotApplied \/ Pause \/
      (\E s \in todo : SkipUncertain(s)) \/ (\E s \in todo : StartReconcile(s)) \/
      (\E s \in todo : AskAboutUncertain(s)) \/ (\E s \in todo : RetryUncertain(s))) => Goal
  BY DEF Proceed, VerdictApplied, VerdictNotApplied, Pause, SkipUncertain, StartReconcile,
     AskAboutUncertain, RetryUncertain, Goto, WorkOn, Handled, Return, Reset, localVars
<1>3. (CompleteRun \/ IterationLimit \/ GroupDone \/ AskApproval \/ HasApproval \/
      (\E t \in Steps : Claim(t)) \/ ClaimNone \/ Begin \/ LeaseLost \/ Stop) => Goal
  BY DEF CompleteRun, IterationLimit, GroupDone, AskApproval, HasApproval, Claim, ClaimNone,
     Begin, LeaseLost, Stop, Goto, WorkOn, Return, Reset, localVars
<1>4. CASE ContinueGroup
  BY <1>4, ContinueGroupStep DEF Inv1, WorkOn
<1>5. CASE PlanModel
  BY <1>5, PlanModelStep DEF Goto, WorkOn, localVars
<1>6. CASE PlanTool
  BY <1>6, PlanToolStep DEF Inv1, WorkOn
<1>7. ((\E c \in 1 .. MaxProviderCalls : WriteOffCall(c)) \/
      (\E c \in 1 .. MaxProviderCalls : StartCall(c)) \/ Reserve \/ Refuse \/
      (\E c \in 1 .. MaxProviderCalls, calls \in Replies, tokens \in Usages :
         ProviderReplies(c, calls, tokens)) \/
      SettleReply \/ CommitModel) => Goal
  BY DEF WriteOffCall, StartCall, Reserve, Refuse, ProviderReplies, SettleReply, CommitModel,
     Goto, Reset, localVars, Settle
<1>8. ((\E c \in 1 .. MaxProviderCalls : ProviderFails(c)) \/ SettleFailed \/ FailModel) => Goal
  BY DEF ProviderFails, SettleFailed, FailModel, Goto, Reset, localVars, Settle
<1>9. (TakeEffect \/ CommitReconcile) => Goal
  BY DEF TakeEffect, CommitReconcile, Goto, localVars
<1>10. CASE CommitTool
  BY <1>10, CurIsStep, StepKinds DEF CommitTool, ToolReturned, Inv1, Goto, Handled, localVars
<1>11. ((\E i \in DOMAIN approvals, decision \in A!Decisions : Decide(i, decision)) \/
      (\E i \in DOMAIN approvals : RepeatDecision(i)) \/ Resume) => Goal
  BY DEF Decide, RepeatDecision, Resume, Goto, localVars
<1>12. (Submit \/ Startup \/ StartupSchedule \/ ToolRaises \/ Cancel) => Goal
  BY DEF Submit, Startup, StartupSchedule, ToolRaises, Cancel, Goto, Return, Reset, localVars
<1>13. (Crash \/ TimePasses \/ Beat \/ OtherRunReclaims \/
      (\E c \in ToolCalls : WriteEnds(c))) => Goal
  BY DEF Crash, TimePasses, Beat, OtherRunReclaims, WriteEnds, Reset, localVars
<1>14. UNCHANGED vars => Goal
  BY DEF vars, localVars
<1> HIDE DEF Goal
<1> QED
  BY <1>1, <1>2, <1>3, <1>4, <1>5, <1>6, <1>7, <1>8, <1>9, <1>10, <1>11, <1>12, <1>13, <1>14
     DEF Next, Task, Gate, Recovery, Loop, ModelCall, ModelFailure, ToolRun, Operator

LEMMA GroupFitsStep == ASSUME [Next]_vars, Inv1, Inv2 PROVE GroupFits'
<1> SUFFICES ASSUME pc' = "group" PROVE Answered(cur.iter)' /\ CompleteBelow(cur.iter)'
  BY DEF GroupFits
<1>1. cur' \in ToolSteps
  BY Control DEF CurFits
<1>2. cur'.iter \in Iterations
  BY <1>1, ToolStepFacts
<1>3. Answered(cur'.iter) /\ CompleteBelow(cur'.iter)
  <2>1. CASE pc = "group" /\ cur' = cur
    BY <2>1 DEF Inv2, GroupFits
  <2>2. CASE CommitTool /\ cur' = cur /\ cur \in ToolSteps
    <3>1. Made(cur)
      BY <2>2 DEF CommitTool, ToolReturned, Inv2, CurMade
    <3> QED BY <2>2, <3>1 DEF Inv2, ToolsInOrder, InOrder
  <2>3. CASE ContinueGroup /\ cur'.iter = NextIteration
    BY <2>3, NextIterationFacts DEF ContinueGroup, CompleteBelow
  <2> QED BY <2>1, <2>2, <2>3, GroupFrom
<1>4. ASSUME NEW i \in Iterations, Answered(i) /\ CompleteBelow(i)
      PROVE  Answered(i)' /\ CompleteBelow(i)'
  BY <1>4, CallsStay, BelowStays
<1>5. \A i \in Iterations : Answered(i) /\ CompleteBelow(i) => Answered(i)' /\ CompleteBelow(i)'
  BY <1>4
<1> QED BY <1>2, <1>3, <1>5 DEF Answered, CompleteBelow, Complete, Outputs, Found

CurPoints == {"approve", "claim", "begin", "work", "worked", "verdict"} \cup ModelPoints

\* The step of a run that Ensure names is there afterwards.
LEMMA EnsureMakes ==
  ASSUME Inv1, NEW s \in Steps, Ensure(s)
  PROVE  stepStatus'[s] # "absent"
BY DEF Ensure, J!CreateStep, J!StepExists, journalVars, Inv1, JTypeOK, J!TypeOK

LEMMA CurPointFrom ==
  ASSUME [Next]_vars, Inv1
  PROVE  pc' \in CurPoints =>
           \/ pc \in CurPoints /\ cur' = cur
           \/ stepStatus'[cur'] # "absent"
<1> DEFINE Goal ==
      pc' \in CurPoints =>
        \/ pc \in CurPoints /\ cur' = cur
        \/ stepStatus'[cur'] # "absent"
<1> SUFFICES Goal
  OBVIOUS
<1> USE DEF CurPoints, ModelPoints
<1>1. (Execute \/ GatePending \/ GateRejected \/ Reject \/ GatePassed) => Goal
  BY DEF Execute, GatePending, GateRejected, Reject, GatePassed, Goto, Return, Reset, localVars
<1>2. (Proceed \/ VerdictApplied \/ Pause \/ (\E s \in todo : SkipUncertain(s)) \/
      (\E s \in todo : AskAboutUncertain(s))) => Goal
  BY DEF Proceed, VerdictApplied, Pause, SkipUncertain, AskAboutUncertain, Goto, Handled,
     Return, Reset, localVars
<1>3. CASE VerdictNotApplied
  <2>1. Replacement(ReconciledBy(cur)) \in Steps
    BY <1>3, VerdictStep DEF VerdictNotApplied
  <2> QED BY <1>3, <2>1, EnsureMakes DEF VerdictNotApplied, WorkOn
<1>4. ASSUME NEW s \in todo, StartReconcile(s) PROVE Goal
  <2>1. ReconcilerOf(s) \in Steps
    BY <1>4, TodoStep DEF StartReconcile, Handles
  <2> QED BY <1>4, <2>1, EnsureMakes DEF StartReconcile, WorkOn
<1>5. ASSUME NEW s \in todo, RetryUncertain(s) PROVE Goal
  <2>1. Replacement(s) \in Steps
    BY <1>5, TodoStep DEF RetryUncertain, Handles
  <2> QED BY <1>5, <2>1, EnsureMakes DEF RetryUncertain, WorkOn
<1>6. (CompleteRun \/ IterationLimit \/ ContinueGroup \/ GroupDone \/ AskApproval \/
      HasApproval \/ (\E t \in Steps : Claim(t)) \/ ClaimNone \/ Begin \/ LeaseLost \/
      Stop) => Goal
  BY DEF CompleteRun, IterationLimit, ContinueGroup, GroupDone, AskApproval, HasApproval, Claim,
     ClaimNone, Begin, LeaseLost, Stop, Goto, WorkOn, Return, Reset, localVars
<1>7. CASE PlanModel
  <2>1. CASE Goto("stop")
    BY <2>1 DEF Goto, localVars
  <2>2. ASSUME NEW s \in ModelSteps, WorkOn("claim", s), UNCHANGED journalVars, Open(s)
        PROVE  Goal
    BY <2>2 DEF Open, journalVars, Goto, WorkOn, localVars
  <2>3. ASSUME NEW s \in ModelSteps, WorkOn("claim", s), Ensure(s) PROVE Goal
    BY <2>3, EnsureMakes, ModelStepFacts DEF Goto, WorkOn, localVars
  <2> QED BY <1>7, <2>1, <2>2, <2>3, PlanModelStep DEF Open
<1>8. CASE PlanTool
  <2>1. PICK s \in ToolSteps : WorkOn("approve", s) /\ Ensure(s)
    BY <1>8, PlanToolStep DEF Inv1
  <2> QED BY <2>1, EnsureMakes, ToolStepFacts DEF Goto, WorkOn, localVars
<1>9. ((\E c \in 1 .. MaxProviderCalls : WriteOffCall(c)) \/
      (\E c \in 1 .. MaxProviderCalls : StartCall(c)) \/ Reserve \/ Refuse \/
      (\E c \in 1 .. MaxProviderCalls, calls \in Replies, tokens \in Usages :
         ProviderReplies(c, calls, tokens)) \/
      SettleReply \/ CommitModel) => Goal
  BY DEF WriteOffCall, StartCall, Reserve, Refuse, ProviderReplies, SettleReply, CommitModel,
     Goto, WorkOn, Reset, localVars, Settle
<1>10. ((\E c \in 1 .. MaxProviderCalls : ProviderFails(c)) \/ SettleFailed \/ FailModel) => Goal
  BY DEF ProviderFails, SettleFailed, FailModel, Goto, WorkOn, Reset, localVars, Settle
<1>11. (TakeEffect \/ CommitTool \/ CommitReconcile) => Goal
  BY DEF TakeEffect, CommitTool, CommitReconcile, Goto, WorkOn, Handled, localVars
<1>12. ((\E i \in DOMAIN approvals, decision \in A!Decisions : Decide(i, decision)) \/
      (\E i \in DOMAIN approvals : RepeatDecision(i)) \/ Resume) => Goal
  BY DEF Decide, RepeatDecision, Resume, Goto, WorkOn, localVars
<1>13. (Submit \/ Startup \/ StartupSchedule \/ ToolRaises \/ Cancel) => Goal
  BY DEF Submit, Startup, StartupSchedule, ToolRaises, Cancel, Goto, WorkOn, Return, Reset,
     localVars
<1>14. (Crash \/ TimePasses \/ Beat \/ OtherRunReclaims \/
      (\E c \in ToolCalls : WriteEnds(c))) => Goal
  BY DEF Crash, TimePasses, Beat, OtherRunReclaims, WriteEnds, Goto, WorkOn, Reset, localVars
<1>15. UNCHANGED vars => Goal
  BY DEF vars, localVars
<1> HIDE DEF Goal
<1> QED
  BY <1>1, <1>2, <1>3, <1>4, <1>5, <1>6, <1>7, <1>8, <1>9, <1>10, <1>11, <1>12, <1>13, <1>14,
     <1>15
     DEF Next, Task, Gate, Recovery, Loop, ModelCall, ModelFailure, ToolRun, Operator

LEMMA CurMadeStep == ASSUME [Next]_vars, Inv1, Inv2 PROVE CurMade'
<1> SUFFICES ASSUME pc' \in CurPoints PROVE stepStatus'[cur'] # "absent"
  BY DEF CurMade, Made, CurPoints, ModelPoints
<1>1. CASE pc \in CurPoints /\ cur' = cur
  <2>1. cur \in Steps
    BY <1>1, CurIsStep DEF CurPoints, Inv1
  <2>2. stepStatus[cur] # "absent"
    BY <1>1 DEF CurPoints, Inv2, CurMade, Made
  <2> QED BY <1>1, <2>1, <2>2, StatusKept
<1> QED BY <1>1, CurPointFrom

LEMMA WorkFrom ==
  ASSUME [Next]_vars, Inv1
  PROVE  pc' \in {"begin", "work", "worked"} \cup ModelPoints =>
           /\ cur' = cur
           /\ pc \in {"begin", "work", "worked"} \cup ModelPoints \/ Claim(cur)
           /\ pc' \in {"begin", "work", "worked"} /\ cur \in ToolSteps =>
                pc \in {"begin", "work", "worked"} \/ Claim(cur)
           /\ pc' \in {"begin", "work"} /\ cur \in ReconcileSteps =>
                pc \in {"begin", "work"} \/ Claim(cur)
           /\ pc' \in {"work", "worked"} /\ cur \in ToolSteps =>
                pc \in {"work", "worked"} \/ Begin
<1> DEFINE Goal ==
      pc' \in {"begin", "work", "worked"} \cup ModelPoints =>
        /\ cur' = cur
        /\ pc \in {"begin", "work", "worked"} \cup ModelPoints \/ Claim(cur)
        /\ pc' \in {"begin", "work", "worked"} /\ cur \in ToolSteps =>
             pc \in {"begin", "work", "worked"} \/ Claim(cur)
        /\ pc' \in {"begin", "work"} /\ cur \in ReconcileSteps =>
             pc \in {"begin", "work"} \/ Claim(cur)
        /\ pc' \in {"work", "worked"} /\ cur \in ToolSteps => pc \in {"work", "worked"} \/ Begin
<1> SUFFICES Goal
  OBVIOUS
<1> USE DEF ModelPoints
<1>1. (Execute \/ GatePending \/ GateRejected \/ Reject \/ GatePassed) => Goal
  BY DEF Execute, GatePending, GateRejected, Reject, GatePassed, Goto, Return, Reset, localVars
<1>2. (Proceed \/ VerdictApplied \/ VerdictNotApplied \/ Pause \/
      (\E s \in todo : SkipUncertain(s)) \/ (\E s \in todo : StartReconcile(s)) \/
      (\E s \in todo : AskAboutUncertain(s)) \/ (\E s \in todo : RetryUncertain(s))) => Goal
  BY DEF Proceed, VerdictApplied, VerdictNotApplied, Pause, SkipUncertain, StartReconcile,
     AskAboutUncertain, RetryUncertain, Goto, WorkOn, Handled, Return, Reset, localVars
<1>3. (CompleteRun \/ IterationLimit \/ ContinueGroup \/ GroupDone \/ AskApproval \/
      HasApproval \/ (\E t \in Steps : Claim(t)) \/ ClaimNone \/ LeaseLost \/ Stop) => Goal
  BY DEF CompleteRun, IterationLimit, ContinueGroup, GroupDone, AskApproval, HasApproval, Claim,
     ClaimNone, LeaseLost, Stop, Goto, WorkOn, Return, Reset, localVars
<1>4. CASE PlanModel
  BY <1>4, PlanModelStep DEF Goto, WorkOn, localVars
<1>5. CASE PlanTool
  BY <1>5, PlanToolStep DEF Inv1, WorkOn
<1>6. CASE Begin
  <2>1. cur \in Steps
    BY <1>6 DEF Begin, Inv1, CurFits
  <2> QED BY <1>6, <2>1, StepKinds, ToolStepFacts, ReconcileStepFacts DEF Begin, Goto, localVars
<1>7. ((\E c \in 1 .. MaxProviderCalls : WriteOffCall(c)) \/ Reserve \/ Refuse \/
      (\E c \in 1 .. MaxProviderCalls, calls \in Replies, tokens \in Usages :
         ProviderReplies(c, calls, tokens)) \/
      SettleReply \/ CommitModel) => Goal
  BY DEF WriteOffCall, Reserve, Refuse, ProviderReplies, SettleReply, CommitModel, Goto, Reset,
     localVars, Settle
<1>8. ASSUME NEW c \in 1 .. MaxProviderCalls, StartCall(c) PROVE Goal
  BY <1>8, ModelStepFacts, ToolStepFacts, ReconcileStepFacts
     DEF StartCall, Goto, localVars, Inv1, CurFits
<1>9. ((\E c \in 1 .. MaxProviderCalls : ProviderFails(c)) \/ SettleFailed \/ FailModel) => Goal
  BY DEF ProviderFails, SettleFailed, FailModel, Goto, Reset, localVars, Settle
<1>10. (CommitTool \/ CommitReconcile) => Goal
  BY DEF CommitTool, CommitReconcile, Goto, Handled, localVars
<1>11. CASE TakeEffect
  BY <1>11, ReconcileStepFacts DEF TakeEffect, Goto, localVars
<1>12. ((\E i \in DOMAIN approvals, decision \in A!Decisions : Decide(i, decision)) \/
      (\E i \in DOMAIN approvals : RepeatDecision(i)) \/ Resume) => Goal
  BY DEF Decide, RepeatDecision, Resume, Goto, localVars
<1>13. (Submit \/ Startup \/ StartupSchedule \/ ToolRaises \/ Cancel) => Goal
  BY DEF Submit, Startup, StartupSchedule, ToolRaises, Cancel, Goto, Return, Reset, localVars
<1>14. (Crash \/ TimePasses \/ Beat \/ OtherRunReclaims \/
      (\E c \in ToolCalls : WriteEnds(c))) => Goal
  BY DEF Crash, TimePasses, Beat, OtherRunReclaims, WriteEnds, Reset, localVars
<1>15. UNCHANGED vars => Goal
  BY DEF vars, localVars
<1> HIDE DEF Goal
<1> QED
  BY <1>1, <1>2, <1>3, <1>4, <1>5, <1>6, <1>7, <1>8, <1>9, <1>10, <1>11, <1>12, <1>13, <1>14,
     <1>15
     DEF Next, Task, Gate, Recovery, Loop, ModelCall, ModelFailure, ToolRun, Operator

\* While a step is worked on, or no task runs, no step is created.
LEMMA NothingCreated ==
  ASSUME [Next]_vars, Inv1, NEW s \in Steps,
         pc \in {"claim", "begin", "work", "worked", "down", "starting", "idle"}
  PROVE  ~Creates(s)
BY DEF Creates, StartReconcile, RetryUncertain, Handles, VerdictNotApplied, PlanModel, PlanTool

\* Who leaves a step settled, and where the task goes.
LEMMA SettledBy ==
  ASSUME [Next]_vars, Inv1, NEW s \in Steps,
         stepStatus[s] \in {"ready", "leased", "executing", "uncertain"},
         stepStatus'[s] \in {"committed", "failed", "cancelled"}
  PROVE  /\ pc' \notin {"begin", "work", "worked"} \cup ModelPoints
         /\ pc' = "verdict" => CommitReconcile /\ s = cur
<1>1. GateRejected => pc' = "reject"
  BY DEF GateRejected, Goto
<1>2. Refuse \/ FailModel \/ ToolRaises => pc' \in {"stop", "loop"}
  BY DEF Refuse, FailModel, ToolRaises, Goto
<1>3. CommitModel \/ CommitTool => pc' \in {"loop", "group", "uncertain"}
  BY DEF CommitModel, CommitTool, Goto, Handled
<1>4. CommitReconcile => pc' = "verdict"
  BY DEF CommitReconcile, Goto
<1>5. \/ GateRejected \/ Refuse \/ FailModel \/ ToolRaises \/ CommitModel \/ CommitTool
      \/ CommitReconcile /\ s = cur
  BY StatusChange DEF J!Held, J!RecoveryTarget
<1> QED BY <1>1, <1>2, <1>3, <1>4, <1>5 DEF ModelPoints

LEMMA ClaimTakes ==
  ASSUME Inv1, NEW s \in Steps, Claim(s)
  PROVE  /\ pc = "claim" /\ stepStatus[cur] = "ready" /\ stepStatus[s] = "ready"
         /\ stepStatus'[s] = "leased" /\ attempts'[s] = attempts[s] + 1 /\ attempts[s] \in Nat
BY DEF Claim, J!ClaimReadyStep, J!FirstReady, J!ReadySteps, Inv1, JTypeOK, J!TypeOK

LEMMA ToolWorkStep == ASSUME [Next]_vars, Inv1, Inv2 PROVE ToolWork'
<1> SUFFICES ASSUME pc' \in {"begin", "work", "worked"}, cur' \in ToolSteps
             PROVE  /\ attempts'[cur'] > 0
                    /\ stepStatus'[cur'] \in {"ready", "leased", "executing", "uncertain"}
                    /\ \A d \in Depths :
                            d > cur'.depth => stepStatus'[Try(CallOf(cur'), d)] = "absent"
                    /\ stepStatus'[ReconcilerOf(cur')] = "absent"
  BY DEF ToolWork, Made, Try, Step, CallOf, ReconcilerOf
<1>1. cur' = cur /\ (pc \in {"begin", "work", "worked"} \/ Claim(cur))
  BY WorkFrom
<1>2. /\ cur \in ToolSteps /\ cur \in Steps /\ ReconcilerOf(cur) \in Steps
      /\ CallOf(cur) \in ToolCalls /\ cur = Try(CallOf(cur), cur.depth) /\ cur.depth \in Depths
  BY <1>1, ToolStepFacts
<1>3. pc \in {"claim", "begin", "work", "worked"}
  BY <1>1 DEF Claim
<1>4. ASSUME NEW s \in Steps, stepStatus[s] = "absent" PROVE stepStatus'[s] = "absent"
  BY <1>3, <1>4, NothingCreated, StatusKept
<1>5. \A d \in Depths : Try(CallOf(cur), d) \in Steps
  BY <1>2, TryFacts, ToolStepFacts
<1>6. ASSUME stepStatus[cur] \in {"ready", "leased", "executing", "uncertain"}
      PROVE  stepStatus'[cur] \in {"ready", "leased", "executing", "uncertain"}
  <2>1. stepStatus'[cur] \notin {"committed", "failed", "cancelled"}
    BY <1>2, <1>6, SettledBy
  <2>2. stepStatus'[cur] # "absent"
    BY <1>2, <1>6, StatusKept
  <2>3. stepStatus'[cur] \in J!StepStatuses \cup {"absent"}
    BY <1>2, JournalTyped DEF JTypeOK, J!TypeOK
  <2> QED BY <2>1, <2>2, <2>3 DEF J!StepStatuses
<1>7. CASE pc \in {"begin", "work", "worked"}
  <2>1. /\ attempts[cur] > 0
        /\ stepStatus[cur] \in {"ready", "leased", "executing", "uncertain"}
        /\ \A d \in Depths : d > cur.depth => stepStatus[Try(CallOf(cur), d)] = "absent"
        /\ stepStatus[ReconcilerOf(cur)] = "absent"
    BY <1>2, <1>7 DEF Inv2, ToolWork, Made
  <2>2. attempts'[cur] > 0
    <3>1. attempts[cur] \in Nat
      BY <1>2 DEF Inv1, JTypeOK, J!TypeOK
    <3> QED BY <1>2, <2>1, <3>1, StatusChange
  <2> QED BY <1>1, <1>2, <1>4, <1>5, <1>6, <2>1, <2>2
<1>8. CASE Claim(cur)
  <2>1. stepStatus[cur] = "ready" /\ attempts'[cur] > 0
    BY <1>2, <1>8, ClaimTakes
  <2>2. ASSUME NEW d \in Depths, d > cur.depth PROVE stepStatus[Try(CallOf(cur), d)] = "absent"
    <3>1. cur.depth \in 0 .. d - 1
      BY <1>2, <2>2 DEF Depths
    <3> QED BY <1>2, <2>1, <3>1 DEF Inv2, Chain, Made, GivenUp
  <2>3. stepStatus[ReconcilerOf(cur)] = "absent"
    BY <1>2, <2>1 DEF Inv2, ReconcilesUncertain, Made
  <2> QED BY <1>1, <1>2, <1>4, <1>5, <1>6, <2>1, <2>2, <2>3
<1> QED BY <1>1, <1>7, <1>8

LEMMA OpenStays ==
  ASSUME [Next]_vars, Inv1, NEW s \in Steps, s \notin ToolSteps, Open(s),
         pc' \in {"begin", "work"} \cup ModelPoints
  PROVE  Open(s)'
<1>1. stepStatus'[s] \notin {"committed", "failed", "cancelled"}
  BY SettledBy DEF Open
<1>2. Safety[s] \in J!Repeatable
  BY StepKinds DEF J!Repeatable
<1>3. stepStatus'[s] \in {"ready", "leased", "executing"}
  BY <1>1, <1>2, StatusChange DEF Open, J!RecoveryTarget
<1> QED BY <1>3 DEF Open

LEMMA VerdictFrom ==
  ASSUME [Next]_vars, Inv1
  PROVE  pc' = "verdict" =>
           \/ pc = "verdict" /\ cur' = cur
           \/ CommitReconcile
           \/ \E u \in todo : StartReconcile(u)
<1> DEFINE Goal ==
      pc' = "verdict" =>
        \/ pc = "verdict" /\ cur' = cur
        \/ CommitReconcile
        \/ \E u \in todo : StartReconcile(u)
<1> SUFFICES Goal
  OBVIOUS
<1>1. (Execute \/ GatePending \/ GateRejected \/ Reject \/ GatePassed) => Goal
  BY DEF Execute, GatePending, GateRejected, Reject, GatePassed, Goto, Return, Reset, localVars
<1>2. (Proceed \/ VerdictApplied \/ VerdictNotApplied \/ Pause \/
      (\E s \in todo : SkipUncertain(s)) \/ (\E s \in todo : AskAboutUncertain(s)) \/
      (\E s \in todo : RetryUncertain(s))) => Goal
  BY DEF Proceed, VerdictApplied, VerdictNotApplied, Pause, SkipUncertain, AskAboutUncertain,
     RetryUncertain, Goto, WorkOn, Handled, Return, Reset, localVars
<1>3. ASSUME NEW s \in todo, StartReconcile(s) PROVE Goal
  BY <1>3
<1>4. (CompleteRun \/ IterationLimit \/ ContinueGroup \/ GroupDone \/ AskApproval \/
      HasApproval \/ (\E t \in Steps : Claim(t)) \/ ClaimNone \/ Begin \/ LeaseLost \/
      Stop) => Goal
  BY DEF CompleteRun, IterationLimit, ContinueGroup, GroupDone, AskApproval, HasApproval, Claim,
     ClaimNone, Begin, LeaseLost, Stop, Goto, WorkOn, Return, Reset, localVars
<1>5. CASE PlanModel
  BY <1>5, PlanModelStep DEF Goto, WorkOn, localVars
<1>6. CASE PlanTool
  BY <1>6, PlanToolStep DEF Inv1, WorkOn
<1>7. ((\E c \in 1 .. MaxProviderCalls : WriteOffCall(c)) \/
      (\E c \in 1 .. MaxProviderCalls : StartCall(c)) \/ Reserve \/ Refuse \/
      (\E c \in 1 .. MaxProviderCalls, calls \in Replies, tokens \in Usages :
         ProviderReplies(c, calls, tokens)) \/
      SettleReply \/ CommitModel) => Goal
  BY DEF WriteOffCall, StartCall, Reserve, Refuse, ProviderReplies, SettleReply, CommitModel,
     Goto, Reset, localVars, Settle
<1>8. ((\E c \in 1 .. MaxProviderCalls : ProviderFails(c)) \/ SettleFailed \/ FailModel) => Goal
  BY DEF ProviderFails, SettleFailed, FailModel, Goto, Reset, localVars, Settle
<1>9. (TakeEffect \/ CommitTool) => Goal
  BY DEF TakeEffect, CommitTool, Goto, Handled, localVars
<1>10. CASE CommitReconcile
  BY <1>10
<1>11. ((\E i \in DOMAIN approvals, decision \in A!Decisions : Decide(i, decision)) \/
      (\E i \in DOMAIN approvals : RepeatDecision(i)) \/ Resume) => Goal
  BY DEF Decide, RepeatDecision, Resume, Goto, localVars
<1>12. (Submit \/ Startup \/ StartupSchedule \/ ToolRaises \/ Cancel) => Goal
  BY DEF Submit, Startup, StartupSchedule, ToolRaises, Cancel, Goto, Return, Reset, localVars
<1>13. (Crash \/ TimePasses \/ Beat \/ OtherRunReclaims \/
      (\E c \in ToolCalls : WriteEnds(c))) => Goal
  BY DEF Crash, TimePasses, Beat, OtherRunReclaims, WriteEnds, Reset, localVars
<1>14. UNCHANGED vars => Goal
  BY DEF vars, localVars
<1> HIDE DEF Goal
<1> QED
  BY <1>1, <1>2, <1>3, <1>4, <1>5, <1>6, <1>7, <1>8, <1>9, <1>10, <1>11, <1>12, <1>13, <1>14
     DEF Next, Task, Gate, Recovery, Loop, ModelCall, ModelFailure, ToolRun, Operator

LEMMA OtherWorkStep == ASSUME [Next]_vars, Inv1, Inv2 PROVE OtherWork'
<1>1. ASSUME pc' \in {"begin", "work"} \cup ModelPoints,
             cur' \in ModelSteps \/ (cur' \in ReconcileSteps /\ pc' \in {"begin", "work"})
      PROVE  stepStatus'[cur'] \in {"ready", "leased", "executing"}
  <2>1. cur' = cur
    BY <1>1, WorkFrom
  <2>2. cur \in Steps /\ cur \notin ToolSteps
    BY <1>1, <2>1, ModelStepFacts, ReconcileStepFacts, ToolStepFacts
  <2>3. CASE Claim(cur)
    BY <2>1, <2>2, <2>3, ClaimTakes
  <2>4. CASE ~Claim(cur)
    <3>1. pc # "worked"
      BY <2>2 DEF Inv1, CurFits
    <3>2. Open(cur)
      BY <1>1, <2>1, <2>4, <3>1, WorkFrom DEF Inv2, OtherWork
    <3> QED BY <1>1, <2>1, <2>2, <3>2, OpenStays DEF Open
  <2> QED BY <2>3, <2>4
<1>2. ASSUME pc' = "verdict" PROVE stepStatus'[cur'] = "committed"
  <2>1. CASE CommitReconcile
    <3>1. cur \in Steps /\ cur' = cur
      BY <2>1, CurIsStep DEF CommitReconcile, Goto, localVars, Inv1
    <3> QED BY <2>1, <3>1 DEF CommitReconcile, J!CommitStep, J!Release, Inv1, JTypeOK, J!TypeOK
  <2>2. ASSUME NEW u \in todo, StartReconcile(u) PROVE stepStatus'[cur'] = "committed"
    <3>1. ReconcilerOf(u) \in Steps
      BY <2>2, TodoStep DEF StartReconcile, Handles
    <3>2. cur' = ReconcilerOf(u) /\ stepStatus[ReconcilerOf(u)] = "committed"
      BY <1>2, <2>2 DEF StartReconcile, WorkOn
    <3> QED BY <3>1, <3>2, StatusKept
  <2>3. CASE pc = "verdict" /\ cur' = cur
    <3>1. cur \in Steps /\ stepStatus[cur] = "committed"
      BY <2>3, CurIsStep DEF Inv1, Inv2, OtherWork
    <3> QED BY <2>3, <3>1, StatusKept
  <2> QED BY <1>2, <2>1, <2>2, <2>3, VerdictFrom
<1> QED BY <1>1, <1>2 DEF OtherWork, Open, ModelPoints

\* At most one step is open at any time.
Busy(u) == Open(u) \/ Open(ReconcilerOf(u))

LEMMA BusyFacts ==
  ASSUME Inv1, Inv2, NEW u \in ToolSteps, Busy(u)
  PROVE  /\ Made(u) /\ stepStatus[u] # "committed" /\ ~GivenUp(u) /\ ~HasReceipt(u)
         /\ ~(Open(u) /\ Open(ReconcilerOf(u)))
<1>1. Made(ReconcilerOf(u)) =>
        stepStatus[u] \in {"uncertain", "cancelled"} /\ Safety[u] = "reconcilable"
  BY DEF Inv2, ReconcilesUncertain
<1>2. HasReceipt(u) => stepStatus[ReconcilerOf(u)] = "committed"
  BY DEF Inv2, ReceiptsProven
<1> QED BY <1>1, <1>2 DEF Busy, Open, Made, GivenUp

LEMMA GivenUpNotFound ==
  ASSUME Inv1, Inv2, NEW t \in ToolSteps, GivenUp(t)
  PROVE  stepStatus[t] # "committed" /\ ~HasReceipt(t)
<1>1. ASSUME HasReceipt(t) PROVE FALSE
  <2>1. stepStatus[ReconcilerOf(t)] = "committed" /\ ReconcilerOf(t) \in proven
    BY <1>1 DEF Inv2, ReceiptsProven
  <2>2. Safety[t] = "reconcilable"
    BY <2>1 DEF Inv2, ReconcilesUncertain, Made
  <2> QED BY <2>1, <2>2 DEF GivenUp
<1> QED BY <1>1 DEF GivenUp

\* A call has no outcome while its last step has none and is not reconciled.

LEMMA LastNotFound ==
  ASSUME Inv1, Inv2, NEW u \in ToolSteps,
         Made(u), stepStatus[u] # "committed", ~HasReceipt(u),
         \A d \in Depths : d > u.depth => ~Made(Try(CallOf(u), d))
  PROVE  ~Found(CallOf(u))
<1>1. CallOf(u) \in ToolCalls /\ u = Try(CallOf(u), u.depth) /\ u.depth \in Depths
  BY ToolStepFacts
<1>2. ASSUME NEW d \in Depths,
             stepStatus[Try(CallOf(u), d)] = "committed" \/ HasReceipt(Try(CallOf(u), d)),
             \A e \in 0 .. d : Made(Try(CallOf(u), e))
      PROVE  FALSE
  <2>1. CASE d = u.depth
    BY <1>1, <1>2, <2>1
  <2>2. CASE d < u.depth
    <3>1. GivenUp(Try(CallOf(u), d))
      <4>1. d \in 0 .. u.depth - 1
        BY <1>1, <2>2 DEF Depths
      <4>2. Made(Try(CallOf(u), u.depth))
        BY <1>1
      <4> QED BY <1>1, <4>1, <4>2 DEF Inv2, Chain
    <3>2. Try(CallOf(u), d) \in ToolSteps
      BY <1>1, TryFacts
    <3> QED BY <1>2, <3>1, <3>2, GivenUpNotFound
  <2>3. CASE d > u.depth
    <3>1. d \in 0 .. d
      BY DEF Depths
    <3> QED BY <1>2, <2>3, <3>1
  <2> QED BY <1>1, <2>1, <2>2, <2>3 DEF Depths
<1> QED BY <1>1, <1>2, FoundTry

\* No attempt follows one that is open or being reconciled.

LEMMA BusyNotFound ==
  ASSUME Inv1, Inv2, NEW u \in ToolSteps, Busy(u)
  PROVE  ~Found(CallOf(u))
<1>1. ASSUME NEW d \in Depths, d > u.depth PROVE ~Made(Try(CallOf(u), d))
  <2>1. CallOf(u) \in ToolCalls /\ u = Try(CallOf(u), u.depth) /\ u.depth \in 0 .. d - 1
    BY <1>1, ToolStepFacts DEF Depths
  <2>2. Made(Try(CallOf(u), d)) => GivenUp(u)
    BY <2>1 DEF Inv2, Chain
  <2> QED BY <2>2, BusyFacts
<1> QED BY <1>1, BusyFacts, LastNotFound

LEMMA OneBusy ==
  ASSUME Inv1, Inv2, NEW u \in ToolSteps, NEW v \in ToolSteps, Busy(u), Busy(v)
  PROVE  u = v
<1>1. ASSUME NEW s \in ToolSteps, NEW t \in ToolSteps, Busy(s), Busy(t) PROVE ~(s.iter < t.iter)
  <2>1. InOrder(s) /\ InOrder(t)
    BY <1>1, BusyFacts DEF Inv2, ToolsInOrder
  <2>2. ASSUME s.iter < t.iter PROVE FALSE
    <3>1. s.iter \in 0 .. t.iter - 1
      BY <2>2, ToolStepFacts DEF Iterations
    <3>2. Found(<<s.iter, s.n>>)
      BY <2>1, <3>1 DEF InOrder, CompleteBelow, Complete, Outputs
    <3> QED BY <1>1, <3>2, BusyNotFound DEF CallOf
  <2> QED BY <2>2
<1>2. ASSUME NEW s \in ToolSteps, NEW t \in ToolSteps, Busy(s), Busy(t), s.iter = t.iter
      PROVE  ~(s.n < t.n)
  <2>1. InOrder(s) /\ InOrder(t)
    BY <1>2, BusyFacts DEF Inv2, ToolsInOrder
  <2>2. ASSUME s.n < t.n PROVE FALSE
    <3>1. stepStatus[Try(CallOf(s), 0)] = "committed"
      BY <1>2, <2>1, <2>2 DEF InOrder, CallOf
    <3>2. CallOf(s) \in ToolCalls /\ 0 \in Depths /\ 0 .. 0 = {0}
      BY ToolStepFacts, AgentRuntimeAssumption DEF Depths
    <3>3. Found(CallOf(s))
      BY <3>1, <3>2, FoundTry DEF Made
    <3> QED BY <1>2, <3>3, BusyNotFound
  <2> QED BY <2>2
<1>3. ASSUME NEW s \in ToolSteps, NEW t \in ToolSteps, Busy(s), Busy(t), CallOf(s) = CallOf(t)
      PROVE  ~(s.depth < t.depth)
  <2>1. ASSUME s.depth < t.depth PROVE FALSE
    <3>1. s.depth \in 0 .. t.depth - 1
      BY <2>1, ToolStepFacts DEF Depths
    <3>2. Made(Try(CallOf(t), t.depth)) /\ CallOf(t) \in ToolCalls /\ t.depth \in Depths
      BY <1>3, BusyFacts, ToolStepFacts
    <3>3. GivenUp(Try(CallOf(t), s.depth))
      BY <3>1, <3>2 DEF Inv2, Chain
    <3>4. Try(CallOf(t), s.depth) = s
      BY <1>3, ToolStepFacts
    <3> QED BY <1>3, <3>3, <3>4, BusyFacts
  <2> QED BY <2>1
<1>4. u.iter = v.iter
  <2>1. ~(u.iter < v.iter) /\ ~(v.iter < u.iter)
    BY <1>1
  <2> QED BY <2>1, ToolStepFacts DEF Iterations
<1>5. u.n = v.n
  <2>1. ~(u.n < v.n) /\ ~(v.n < u.n)
    BY <1>2, <1>4
  <2>2. u.n \in Nat /\ v.n \in Nat
    BY ToolStepFacts, AgentRuntimeAssumption DEF CallIndex
  <2> QED BY <2>1, <2>2
<1>6. CallOf(u) = CallOf(v)
  BY <1>4, <1>5 DEF CallOf
<1>7. u.depth = v.depth
  <2>1. ~(u.depth < v.depth) /\ ~(v.depth < u.depth)
    BY <1>3, <1>6
  <2> QED BY <2>1, ToolStepFacts DEF Depths
<1>8. u = Try(CallOf(u), u.depth) /\ v = Try(CallOf(v), v.depth)
  BY ToolStepFacts
<1> QED BY <1>6, <1>7, <1>8

LEMMA BusyOrModel ==
  ASSUME Inv1, Inv2, NEW u \in ToolSteps, NEW m \in ModelSteps, Busy(u), Open(m)
  PROVE  FALSE
<1>1. InOrder(u) /\ Answered(u.iter)
  BY BusyFacts DEF Inv2, ToolsInOrder, InOrder
<1>2. ~Answered(m.iter) /\ CompleteBelow(m.iter)
  BY DEF Inv2, ModelsInOrder, Open, Made
<1>3. u.iter \in Nat /\ m.iter \in Nat
  BY ToolStepFacts, ModelStepFacts DEF Iterations
<1>4. CASE u.iter = m.iter
  BY <1>1, <1>2, <1>4
<1>5. CASE u.iter < m.iter
  <2>1. u.iter \in 0 .. m.iter - 1
    BY <1>3, <1>5
  <2>2. Found(<<u.iter, u.n>>)
    BY <1>1, <1>2, <2>1 DEF InOrder, CompleteBelow, Complete, Outputs
  <2> QED BY <2>2, BusyNotFound DEF CallOf
<1>6. CASE m.iter < u.iter
  <2>1. m.iter \in 0 .. u.iter - 1
    BY <1>3, <1>6
  <2> QED BY <1>1, <1>2, <2>1 DEF InOrder, CompleteBelow, Complete
<1> QED BY <1>3, <1>4, <1>5, <1>6

LEMMA OneModel ==
  ASSUME Inv1, Inv2, NEW m \in ModelSteps, NEW t \in ModelSteps, Open(m), Open(t)
  PROVE  m = t
<1>1. /\ ~Answered(m.iter) /\ CompleteBelow(m.iter)
      /\ ~Answered(t.iter) /\ CompleteBelow(t.iter)
  BY DEF Inv2, ModelsInOrder, Open, Made
<1>2. m.iter \in Nat /\ t.iter \in Nat
  BY ModelStepFacts DEF Iterations
<1>3. m.iter \notin 0 .. t.iter - 1 /\ t.iter \notin 0 .. m.iter - 1
  BY <1>1 DEF CompleteBelow, Complete
<1>4. m.iter = t.iter
  BY <1>2, <1>3
<1> QED BY <1>4 DEF Inv2, ModelsInOrder

LEMMA OneOpen ==
  ASSUME Inv1, Inv2, NEW s \in Steps, NEW t \in Steps, Open(s), Open(t)
  PROVE  s = t
<1>1. ASSUME NEW r \in Steps, Open(r), r \notin ModelSteps
      PROVE  \E u \in ToolSteps : Busy(u) /\ (r = u \/ r = ReconcilerOf(u))
  <2>1. CASE r \in ToolSteps
    BY <1>1, <2>1 DEF Busy
  <2>2. CASE r \in ReconcileSteps
    BY <1>1, <2>2, ReconcileStepFacts DEF Busy
  <2> QED BY <1>1, <2>1, <2>2, StepKinds
<1>2. CASE s \in ModelSteps /\ t \in ModelSteps
  BY <1>2, OneModel
<1>3. CASE s \notin ModelSteps /\ t \notin ModelSteps
  <2>1. PICK u \in ToolSteps : Busy(u) /\ (s = u \/ s = ReconcilerOf(u))
    BY <1>1, <1>3
  <2>2. PICK v \in ToolSteps : Busy(v) /\ (t = v \/ t = ReconcilerOf(v))
    BY <1>1, <1>3
  <2>3. u = v
    BY <2>1, <2>2, OneBusy
  <2>4. ~(Open(u) /\ Open(ReconcilerOf(u)))
    BY <2>1, BusyFacts
  <2> QED BY <2>1, <2>2, <2>3, <2>4
<1>4. ASSUME NEW m \in ModelSteps, NEW r \in Steps, Open(m), Open(r), r \notin ModelSteps
      PROVE  FALSE
  BY <1>1, <1>4, BusyOrModel
<1> QED BY <1>2, <1>3, <1>4

----------------------------------------------------------------------------

LEMMA ApprovedGStays ==
  ASSUME [Next]_vars, Inv1, NEW s \in ToolSteps, ApprovedG(s)
  PROVE  ApprovedG(s)'
BY GrantedStays DEF ApprovedG

LEMMA RunsApprovedStep == ASSUME [Next]_vars, Inv1, Inv2 PROVE RunsApproved'
<1> SUFFICES ASSUME NEW s \in ToolSteps, attempts'[s] > 0, Safety[s] \in NeedsApproval
             PROVE  ApprovedG(s)'
  BY DEF RunsApproved
<1>1. s \in Steps /\ attempts[s] \in Nat
  BY ToolStepFacts DEF Inv1, JTypeOK, J!TypeOK
<1>2. CASE attempts[s] > 0
  BY <1>2, ApprovedGStays DEF Inv2, RunsApproved
<1>3. CASE Claim(s)
  <2>1. pc = "claim" /\ stepStatus[cur] = "ready" /\ stepStatus[s] = "ready"
    BY <1>1, <1>3, ClaimTakes
  <2>2. cur \in Steps
    BY <2>1 DEF Inv1, CurFits
  <2>3. s = cur
    BY <1>1, <2>1, <2>2, OneOpen DEF Open
  <2>4. ApprovedG(s)
    BY <2>1, <2>3 DEF Inv2, ClaimApproved
  <2> QED BY <2>4, ApprovedGStays
<1>4. attempts[s] > 0 \/ Claim(s)
  BY <1>1, StatusChange
<1> QED BY <1>2, <1>3, <1>4

LEMMA ClaimFrom ==
  ASSUME [Next]_vars, Inv1
  PROVE  pc' = "claim" /\ cur' \in ToolSteps =>
           \/ Still
           \/ HasApproval
           \/ \E u \in todo : RetryUncertain(u)
<1> DEFINE Goal ==
      pc' = "claim" /\ cur' \in ToolSteps =>
        \/ Still
        \/ HasApproval
        \/ \E u \in todo : RetryUncertain(u)
<1> SUFFICES Goal
  OBVIOUS
<1>1. (Execute \/ GatePending \/ GateRejected \/ Reject \/ GatePassed) => Goal
  BY DEF Execute, GatePending, GateRejected, Reject, GatePassed, Goto, Return, Reset, localVars
<1>2. (Proceed \/ VerdictApplied \/ VerdictNotApplied \/ Pause \/
      (\E s \in todo : SkipUncertain(s)) \/ (\E s \in todo : AskAboutUncertain(s))) => Goal
  BY DEF Proceed, VerdictApplied, VerdictNotApplied, Pause, SkipUncertain, AskAboutUncertain,
     Goto, WorkOn, Handled, Return, Reset, localVars, Handles
<1>3. ASSUME NEW s \in todo, StartReconcile(s) PROVE Goal
  <2>1. ReconcilerOf(s) \notin ToolSteps
    BY <1>3, TodoStep, ToolStepFacts, ReconcileStepFacts DEF StartReconcile, Handles
  <2> QED BY <1>3, <2>1 DEF StartReconcile, WorkOn
<1>4. ASSUME NEW s \in todo, RetryUncertain(s) PROVE Goal
  BY <1>4
<1>5. (CompleteRun \/ IterationLimit \/ ContinueGroup \/ GroupDone \/ AskApproval \/
      (\E t \in Steps : Claim(t)) \/ ClaimNone \/ Begin \/ LeaseLost \/ Stop) => Goal
  BY DEF CompleteRun, IterationLimit, ContinueGroup, GroupDone, AskApproval, Claim, ClaimNone,
     Begin, LeaseLost, Stop, Goto, WorkOn, Return, Reset, localVars
<1>6. CASE PlanModel
  BY <1>6, PlanModelStep, ModelStepFacts, ToolStepFacts DEF Goto, WorkOn, localVars
<1>7. CASE PlanTool
  BY <1>7, PlanToolStep DEF Inv1, WorkOn
<1>8. CASE HasApproval
  BY <1>8
<1>9. ((\E c \in 1 .. MaxProviderCalls : WriteOffCall(c)) \/
      (\E c \in 1 .. MaxProviderCalls : StartCall(c)) \/ Reserve \/ Refuse \/
      (\E c \in 1 .. MaxProviderCalls, calls \in Replies, tokens \in Usages :
         ProviderReplies(c, calls, tokens)) \/
      SettleReply \/ CommitModel) => Goal
  BY DEF WriteOffCall, StartCall, Reserve, Refuse, ProviderReplies, SettleReply, CommitModel,
     Goto, Reset, localVars, Settle
<1>10. ((\E c \in 1 .. MaxProviderCalls : ProviderFails(c)) \/ SettleFailed \/ FailModel) => Goal
  BY DEF ProviderFails, SettleFailed, FailModel, Goto, Reset, localVars, Settle
<1>11. (TakeEffect \/ CommitTool \/ CommitReconcile) => Goal
  BY DEF TakeEffect, CommitTool, CommitReconcile, Goto, Handled, localVars
<1>12. ((\E i \in DOMAIN approvals, decision \in A!Decisions : Decide(i, decision)) \/
      (\E i \in DOMAIN approvals : RepeatDecision(i)) \/ Resume) => Goal
  BY DEF Decide, RepeatDecision, Resume, Goto, localVars
<1>13. (Submit \/ Startup \/ StartupSchedule \/ ToolRaises \/ Cancel) => Goal
  BY DEF Submit, Startup, StartupSchedule, ToolRaises, Cancel, Goto, Return, Reset, localVars
<1>14. (Crash \/ TimePasses \/ Beat \/ OtherRunReclaims \/
      (\E c \in ToolCalls : WriteEnds(c))) => Goal
  BY DEF Crash, TimePasses, Beat, OtherRunReclaims, WriteEnds, Reset, localVars, Waiting, Still
<1>15. CASE UNCHANGED vars
  BY <1>15 DEF vars, Still
<1> HIDE DEF Goal
<1> QED
  BY <1>1, <1>2, <1>3, <1>4, <1>5, <1>6, <1>7, <1>8, <1>9, <1>10, <1>11, <1>12, <1>13, <1>14,
     <1>15
     DEF Next, Task, Gate, Recovery, Loop, ModelCall, ModelFailure, ToolRun, Operator

LEMMA ClaimApprovedStep == ASSUME [Next]_vars, Inv1, Inv2 PROVE ClaimApproved'
<1> SUFFICES ASSUME pc' = "claim", cur' \in ToolSteps, stepStatus'[cur'] = "ready",
                    Safety[cur'] \in NeedsApproval
             PROVE  ApprovedG(cur)'
  BY DEF ClaimApproved
<1>1. CASE Still
  BY <1>1 DEF Still, journalVars, localVars, Inv2, ClaimApproved, ApprovedG, Granted
<1>2. CASE HasApproval
  <2>1. cur' = cur /\ UNCHANGED <<stepStatus, approvals>> /\ Approved(cur) /\ cur \in ToolSteps
    BY <1>2 DEF HasApproval, Goto, OnlyTask, journalVars, localVars
  <2>2. A!LastDecision(cur, AllKinds) = "approved"
    BY <2>1 DEF Approved
  <2>3. approvals \in Seq(A!Approval)
    BY DEF Inv1, OwnTypes
  <2>4. PICK i \in A!RequestsFor(cur, AllKinds) : approvals[i].status = "approved"
    BY <2>2, <2>3, ApprovedRow
  <2>5. i \in DOMAIN approvals /\ approvals[i].step = cur /\ approvals[i].kind \in AllKinds
    BY <2>4 DEF A!RequestsFor
  <2>6. approvals[i].kind # "uncertain_outcome"
    BY <2>1, <2>5 DEF Inv2, Rows
  <2>7. Granted(cur, "tool_execution")
    BY <2>4, <2>5, <2>6 DEF Granted, AllKinds
  <2> QED BY <2>1, <2>7 DEF ApprovedG, Granted
<1>3. ASSUME NEW u \in todo, RetryUncertain(u) PROVE ApprovedG(cur)'
  <2>1. u \in ToolSteps /\ u.depth \in Nat
    BY <1>3, TodoStep, ToolStepFacts DEF RetryUncertain, Handles, Depths
  <2>2. cur' = Replacement(u) /\ UNCHANGED approvals
    BY <1>3 DEF RetryUncertain, WorkOn, OnlyJournal
  <2>3. A!LastDecision(u, {"uncertain_outcome"}) = "approved" /\ approvals \in Seq(A!Approval)
    BY <1>3 DEF RetryUncertain, Inv1, OwnTypes
  <2>4. PICK i \in A!RequestsFor(u, {"uncertain_outcome"}) : approvals[i].status = "approved"
    BY <2>3, ApprovedRow
  <2>5. Granted(u, "uncertain_outcome")
    BY <2>4 DEF A!RequestsFor, Granted
  <2>6. Safety[u] = "opaque_side_effect"
    BY <2>4 DEF A!RequestsFor, Inv2, Rows
  <2>7. /\ Replacement(u) \in ToolSteps
        /\ Replacement(u).depth > 0 /\ Safety[Replacement(u)] = Safety[u]
        /\ [Replacement(u) EXCEPT !.depth = @ - 1] = u
    <3>1. Replacement(u) \in ToolSteps /\ Replacement(u) \in Steps /\ u \in Steps
      BY <1>3, TodoStep DEF RetryUncertain, Handles
    <3>2. u = Step("tool", u.iter, u.n, u.depth)
      BY <2>1, ToolStepFacts DEF Try, CallOf, Step
    <3>3. Replacement(u) = Step("tool", u.iter, u.n, u.depth + 1)
      BY <3>2 DEF Replacement, Step
    <3>5. Replacement(u).depth = u.depth + 1
      BY <3>3 DEF Step
    <3>7. [Replacement(u) EXCEPT !.depth = u.depth] = Step("tool", u.iter, u.n, u.depth)
      BY <3>3 DEF Step
    <3>4. [Replacement(u) EXCEPT !.depth = @ - 1] = u
      BY <2>1, <3>2, <3>5, <3>7
    <3>6. Safety[Replacement(u)] = Safety[u]
      BY <3>1, <3>2, <3>3 DEF Safety, Step
    <3> QED BY <2>1, <3>1, <3>4, <3>5, <3>6
  <2>8. Granted(u, "uncertain_outcome")'
    BY <2>2, <2>5 DEF Granted
  <2>9. /\ cur'.depth > 0 /\ Safety[cur'] = "opaque_side_effect"
        /\ [cur' EXCEPT !.depth = @ - 1] = u
    BY <2>2, <2>6, <2>7
  <2>10. Granted([cur EXCEPT !.depth = @ - 1], "uncertain_outcome")'
    BY <2>8, <2>9 DEF Granted
  <2> QED BY <2>9, <2>10 DEF ApprovedG
<1> QED BY <1>1, <1>2, <1>3, ClaimFrom

LEMMA Inv2Step == ASSUME [Next]_vars, Inv1, Inv2 PROVE Inv2'
BY RowsStep, GateShutStep, CancelledRejectedStep, ReconcilesUncertainStep, ReceiptsProvenStep,
   ChainStep, ToolsInOrderStep, ModelsInOrderStep, GroupFitsStep, CurMadeStep, ToolWorkStep,
   OtherWorkStep, RunsApprovedStep, ClaimApprovedStep
   DEF Inv2

LEMMA Inv2Init == ASSUME Init PROVE Inv2
<1>1. /\ \A s \in Steps : stepStatus[s] = "absent" /\ attempts[s] = 0
      /\ \A k \in ReceiptKeys : receipts[k] = J!NoReceipt
      /\ approvals = <<>> /\ pc = "idle" /\ runStatus[Run] = "absent"
      /\ \A i \in Iterations : toolCalls[i] = None
  BY DEF Init, J!Init, A!Init
<1>2. Rows /\ GateShut /\ CancelledRejected
  BY <1>1 DEF Rows, GateShut, CancelledRejected, Gated, AllApproved
<1>3. ReconcilesUncertain /\ ToolsInOrder
  BY <1>1, ToolStepFacts DEF ReconcilesUncertain, ToolsInOrder, Made
<1>4. ReceiptsProven
  <2>1. \A s \in ToolSteps : ReconciledKey(s) \in ReceiptKeys
    BY DEF ReconciledKey, ReceiptKeys
  <2> QED BY <1>1, <2>1 DEF ReceiptsProven, HasReceipt
<1>5. Chain
  BY <1>1, ToolStepFacts, TryFacts DEF Chain, Made
<1>6. ModelsInOrder
  BY <1>1, ModelStepFacts DEF ModelsInOrder, Made, Open, Answered
<1>7. GroupFits /\ CurMade /\ ToolWork /\ OtherWork
  BY <1>1 DEF GroupFits, CurMade, ToolWork, OtherWork, ModelPoints
<1>8. RunsApproved /\ ClaimApproved
  BY <1>1, ToolStepFacts DEF RunsApproved, ClaimApproved
<1> QED BY <1>2, <1>3, <1>4, <1>5, <1>6, <1>7, <1>8 DEF Inv2

LEMMA Inv2Always == Spec => [](Inv1 /\ Inv2)
<1>1. Init => Inv2
  BY Inv2Init
<1>2. Inv1 /\ Inv2 /\ [Next]_vars => Inv2'
  BY Inv2Step
<1> QED BY <1>1, <1>2, Inv1Always, PTL DEF Spec

----------------------------------------------------------------------------
\* No tool that needs approval was ever handed out before an operator approved
\* it, or approved retrying the uncertain step that it replaces.
THEOREM ToolsRunApproved == Spec => []ToolRunsApproved
<1>1. ASSUME Inv1, Inv2, NEW s, NEW kind, Granted(s, kind)
      PROVE  A!LastDecision(s, {kind}) = "approved"
  <2>1. PICK i \in DOMAIN approvals :
          approvals[i].step = s /\ approvals[i].kind = kind /\ approvals[i].status = "approved"
    BY <1>1 DEF Granted
  <2>2. i \in A!RequestsFor(s, {kind}) /\ approvals \in Seq(A!Approval)
    BY <1>1, <2>1 DEF A!RequestsFor, Inv1, OwnTypes
  <2>3. PICK j \in A!RequestsFor(s, {kind}) : A!LastDecision(s, {kind}) = approvals[j].status
    BY <2>2, LastDecisionRow
  <2>4. j \in DOMAIN approvals /\ approvals[j].step = s /\ approvals[j].kind = kind
    BY <2>3 DEF A!RequestsFor
  <2>5. i = j
    BY <1>1, <2>1, <2>4 DEF Inv2, Rows
  <2> QED BY <2>1, <2>3, <2>5
<1>2. ASSUME Inv1, Inv2 PROVE ToolRunsApproved
  <2>1. ASSUME NEW s \in ToolSteps, ApprovedG(s) PROVE ApprovedBefore(s)
    BY <1>1, <1>2, <2>1 DEF ApprovedG, ApprovedBefore
  <2> QED BY <1>2, <2>1 DEF ToolRunsApproved, Inv2, RunsApproved
<1> QED BY <1>2, Inv2Always, PTL

----------------------------------------------------------------------------
(***************************************************************************)
(* Late: what a thread that outlived its task may still write.             *)
(***************************************************************************)
\* A tool that runs was handed out and is not settled.
Begun ==
  pc \in {"work", "worked"} /\ cur \in ToolSteps /\ Safety[cur] = "reconcilable" =>
    stepStatus[cur] \in {"executing", "uncertain"}

\* A file is written late only in a cancelled run, for the last try of its call,
\* which was handed out and neither settled nor reconciled.
LastTry(c, d) ==
  /\ attempts[Try(c, d)] > 0 /\ stepStatus[Try(c, d)] \in {"executing", "uncertain"}
  /\ ~Made(ReconcilerOf(Try(c, d)))
  /\ \A e \in Depths : e > d => ~Made(Try(c, e))
WritesLate ==
  \A c \in writing :
    /\ runStatus[Run] = "cancelled" /\ CallSafety[c[2]] = "reconcilable"
    /\ \E d \in Depths : LastTry(c, d)

Late == Begun /\ WritesLate

LEMMA BegunStep == ASSUME [Next]_vars, Inv1, Inv2, Late PROVE Begun'
<1> SUFFICES ASSUME pc' \in {"work", "worked"}, cur' \in ToolSteps, Safety[cur'] = "reconcilable"
             PROVE  stepStatus'[cur'] \in {"executing", "uncertain"}
  BY DEF Begun
<1>1. cur' = cur /\ (pc \in {"work", "worked"} \/ Begin)
  BY WorkFrom DEF ModelPoints
<1>2. cur \in Steps /\ stepStatus \in [Steps -> J!StepStatuses \cup {"absent"}]
  BY <1>1, ToolStepFacts DEF Inv1, JTypeOK, J!TypeOK
<1>3. CASE Begin
  BY <1>1, <1>2, <1>3 DEF Begin, J!MarkExecuting
<1>4. CASE pc \in {"work", "worked"}
  <2>1. stepStatus[cur] \in {"executing", "uncertain"}
    BY <1>1, <1>4 DEF Late, Begun
  <2>2. stepStatus'[cur] \in {"ready", "leased", "executing", "uncertain"}
    BY <1>1, ToolWorkStep DEF ToolWork
  <2>3. stepStatus'[cur] \notin {"ready", "leased"}
    BY <1>1, <1>2, <2>1, StatusChange DEF J!RecoveryTarget, J!Repeatable
  <2> QED BY <1>1, <2>2, <2>3
<1> QED BY <1>1, <1>3, <1>4

\* A cancelled task leaves at most the file of the step it worked on.
LEMMA LeftBehind ==
  ASSUME Inv1, Inv2, Late, Cancel, NEW c \in writing', c \notin writing
  PROVE  /\ pc = "work" /\ cur \in ToolSteps /\ c = CallOf(cur) /\ c \in ToolCalls
         /\ Safety[cur] = "reconcilable" /\ CallSafety[c[2]] = "reconcilable"
         /\ cur.depth \in Depths /\ LastTry(c, cur.depth)
<1>1. pc = "work" /\ cur.kind = "tool" /\ Safety[cur] = "reconcilable" /\ c = CallOf(cur)
  BY DEF Cancel
<1>2. cur \in ToolSteps
  BY <1>1, CurKind DEF Inv1
<1>3. /\ c \in ToolCalls /\ cur = Try(c, cur.depth) /\ cur.depth \in Depths
      /\ CallSafety[c[2]] = "reconcilable"
  BY <1>1, <1>2, ToolStepFacts, CallSafetyOf
<1>4. /\ attempts[cur] > 0 /\ ~Made(ReconcilerOf(cur))
      /\ \A e \in Depths : e > cur.depth => ~Made(Try(c, e))
  BY <1>1, <1>2 DEF Inv2, ToolWork
<1>5. stepStatus[cur] \in {"executing", "uncertain"}
  BY <1>1, <1>2 DEF Late, Begun
<1> QED BY <1>1, <1>2, <1>3, <1>4, <1>5 DEF LastTry

\* While nothing runs on the run, the last try of a call stays the last.
LEMMA LastTryStays ==
  ASSUME [Next]_vars, Inv1, Inv2, NEW c \in ToolCalls, NEW d \in Depths, LastTry(c, d),
         CallSafety[c[2]] = "reconcilable", pc \in {"down", "starting", "idle"} \/ Cancel
  PROVE  LastTry(c, d)'
<1> DEFINE t == Try(c, d)
<1>1. /\ t \in ToolSteps /\ t \in Steps /\ ReconcilerOf(t) \in Steps
      /\ Safety[t] = "reconcilable"
  BY TryFacts, ToolStepFacts, CallSafetyOf
<1>2. \A e \in Depths : Try(c, e) \in Steps
  BY TryFacts, ToolStepFacts
<1>3. pc \in {"down", "starting", "idle"} \/ UNCHANGED <<stepStatus, attempts>>
  BY DEF Cancel, J!MarkRunStatus, J!stepVars
<1>4. attempts'[t] > 0 /\ stepStatus'[t] \in {"executing", "uncertain"}
  <2>1. attempts[t] \in Nat /\ attempts[t] > 0 /\ stepStatus[t] \in {"executing", "uncertain"}
    BY <1>1 DEF LastTry, Inv1, JTypeOK, J!TypeOK
  <2>2. CASE UNCHANGED <<stepStatus, attempts>>
    BY <2>1, <2>2
  <2>3. CASE pc \in {"down", "starting", "idle"}
    <3>1. attempts'[t] > 0
      BY <1>1, <2>1, StatusChange
    <3>2. ~GateRejected /\ ~CommitModel /\ ~CommitTool /\ ~CommitReconcile
      BY <2>3 DEF GateRejected, CommitModel, CommitTool, ToolReturned, CommitReconcile
    <3>3. ~Refuse /\ ~FailModel /\ ~ToolRaises
      BY <2>3 DEF Refuse, FailModel, ToolRaises
    <3>4. stepStatus'[t] \in {"executing", "uncertain"}
      BY <1>1, <2>1, <3>2, <3>3, StatusChange DEF J!RecoveryTarget, J!Repeatable
    <3> QED BY <3>1, <3>4
  <2> QED BY <1>3, <2>2, <2>3
<1>5. ASSUME NEW r \in Steps, ~Made(r) PROVE ~Made(r)'
  BY <1>3, <1>5, NothingCreated, StatusKept DEF Made
<1>6. ~Made(ReconcilerOf(t))' /\ \A e \in Depths : e > d => ~Made(Try(c, e))'
  BY <1>1, <1>2, <1>5 DEF LastTry
<1> QED BY <1>4, <1>6 DEF LastTry, Made, Try, Step, ReconcilerOf

LEMMA WritesLateStep == ASSUME [Next]_vars, Inv1, Inv2, Late PROVE WritesLate'
<1> SUFFICES ASSUME NEW c \in writing'
             PROVE  /\ runStatus'[Run] = "cancelled" /\ CallSafety[c[2]] = "reconcilable"
                    /\ \E d \in Depths : LastTry(c, d)'
  BY DEF WritesLate, LastTry, Made, Try, Step, ReconcilerOf
<1>1. CASE c \in writing
  <2>1. c \in ToolCalls
    BY <1>1 DEF Inv1, OwnTypes
  <2>2. PICK d \in Depths :
          runStatus[Run] = "cancelled" /\ CallSafety[c[2]] = "reconcilable" /\ LastTry(c, d)
    BY <1>1 DEF Late, WritesLate
  <2>3. Terminal
    BY <2>2 DEF Terminal, J!TerminalRun
  <2>4. runStatus'[Run] = "cancelled" /\ pc \in {"down", "starting", "idle"}
    BY <2>2, <2>3, Settled DEF Inv1, EndedIsIdle
  <2> QED BY <2>1, <2>2, <2>4, LastTryStays
<1>2. CASE c \notin writing
  <2>1. Cancel
    BY <1>2, Frame DEF Crash, WriteEnds
  <2>2. runStatus'[Run] = "cancelled"
    BY <2>1 DEF Cancel, J!MarkRunStatus, Inv1, JTypeOK, J!TypeOK
  <2> QED BY <1>2, <2>1, <2>2, LeftBehind, LastTryStays
<1> QED BY <1>1, <1>2

LEMMA LateAlways == Spec => [](Inv1 /\ Inv2 /\ Late)
<1>1. Init => Late
  BY DEF Init, Late, Begun, WritesLate
<1>2. Inv1 /\ Inv2 /\ Late /\ [Next]_vars => Late'
  BY BegunStep, WritesLateStep DEF Late
<1> QED BY <1>1, <1>2, Inv2Always, PTL DEF Spec

\* The output of such a call cannot be looked up.
LEMMA LateNotFound ==
  ASSUME Inv1, Inv2, Late, NEW c \in writing
  PROVE  ~Found(c)
<1>1. PICK d \in Depths : LastTry(c, d)
  BY DEF Late, WritesLate
<1> DEFINE t == Try(c, d)
<1>2. t \in ToolSteps /\ CallOf(t) = c /\ t.depth = d
  BY TryFacts DEF Inv1, OwnTypes
<1>3. Made(t) /\ stepStatus[t] # "committed" /\ ~HasReceipt(t)
  BY <1>1, <1>2 DEF LastTry, Made, Inv2, ReceiptsProven
<1>4. \A e \in Depths : e > t.depth => ~Made(Try(CallOf(t), e))
  BY <1>1, <1>2 DEF LastTry
<1> HIDE DEF t
<1> QED BY <1>2, <1>3, <1>4, LastNotFound

LEMMA WriteEndsStep ==
  ASSUME Inv1, NEW c \in ToolCalls, WriteEnds(c)
  PROVE  /\ c \in writing /\ writing' = writing \ {c}
         /\ UNCHANGED <<runStatus, stepStatus, attempts, proven, pc, cur>>
         /\ effects'[c] \in {effects[c], effects[c] + 1}
         /\ \A b \in ToolCalls : b # c => effects'[b] = effects[b]
BY DEF WriteEnds, journalVars, outputVars, localVars, Inv1, OwnTypes

\* An outcome that is recorded is reused: while a call can be looked up its tool
\* takes no effect, and a committed reply is not asked for again.
THEOREM RecordedIsReused == Spec => OutcomesReused
<1> DEFINE Reuse ==
      /\ \A c \in ToolCalls : Found(c) => effects'[c] = effects[c]
      /\ \A c \in 1 .. MaxProviderCalls :
           callStatus[c] = "absent" /\ callStatus'[c] = "started" => ~Answered(callStep'[c].iter)
<1>1. ASSUME Inv1, Inv2, Late, L!TypeOK, [Next]_vars PROVE Reuse
  <2>1. ASSUME NEW c \in ToolCalls, Found(c) PROVE effects'[c] = effects[c]
    <3>1. CASE TakeEffect
      <4>1. cur \in ToolSteps
        <5>1. cur \in Steps /\ cur.kind = "tool"
          BY <1>1, <3>1 DEF TakeEffect, Inv1, CurFits
        <5> QED BY <5>1, StepKinds
      <4>2. /\ stepStatus[cur] \in {"ready", "leased", "executing", "uncertain"}
            /\ ~Made(ReconcilerOf(cur))
            /\ \A d \in Depths : d > cur.depth => ~Made(Try(CallOf(cur), d))
        BY <1>1, <3>1, <4>1 DEF TakeEffect, Inv2, ToolWork
      <4>3. Made(cur) /\ stepStatus[cur] # "committed" /\ ~HasReceipt(cur)
        BY <1>1, <4>1, <4>2 DEF Made, Inv2, ReceiptsProven
      <4>4. ~Found(CallOf(cur))
        BY <1>1, <4>1, <4>2, <4>3, LastNotFound
      <4> QED BY <1>1, <2>1, <3>1, <4>4 DEF TakeEffect, Inv1, OwnTypes
    <3>2. CASE UNCHANGED effects
      BY <3>2
    <3>3. ASSUME NEW b \in ToolCalls, WriteEnds(b) PROVE effects'[c] = effects[c]
      <4>1. b # c
        BY <1>1, <2>1, <3>3, WriteEndsStep, LateNotFound
      <4> QED BY <1>1, <3>3, <4>1, WriteEndsStep
    <3> QED BY <1>1, <3>1, <3>2, <3>3, Frame
  <2>2. ASSUME NEW c \in 1 .. MaxProviderCalls,
               callStatus[c] = "absent", callStatus'[c] = "started"
        PROVE  ~Answered(callStep'[c].iter)
    <3>1. StartCall(c)
      BY <1>1, <2>2, NewCall
    <3>2. callStep'[c] = cur
      BY <1>1, <3>1 DEF StartCall, L!StartProviderCall, L!TypeOK
    <3>3. Open(cur) /\ cur \in ModelSteps
      BY <1>1, <3>1 DEF StartCall, Inv2, OtherWork, ModelPoints, Inv1, CurFits
    <3> QED BY <1>1, <3>2, <3>3 DEF Inv2, ModelsInOrder
  <2> QED BY <2>1, <2>2
<1>2. LP!LInv => L!TypeOK
  BY SameLedger DEF LP!LInv
<1> QED BY <1>1, <1>2, LateAlways, LedgerAccounted, PTL DEF Spec, OutcomesReused, Reuse

----------------------------------------------------------------------------
(***************************************************************************)
(* Inv3: the effects of a tool call, each one spent by a try.              *)
(***************************************************************************)
\* The step was handed out, and is not any more.
Spent(s) == attempts[s] > 0 /\ ~(cur = s /\ pc \in {"begin", "work"})

\* An opaque call that took effect n times spent one of its tries from n - 1 on.
OpaqueSpent ==
  \A c \in ToolCalls : CallSafety[c[2]] = "opaque_side_effect" /\ effects[c] > 0 =>
    \E d \in Depths : d >= effects[c] - 1 /\ Made(Try(c, d)) /\ Spent(Try(c, d))

\* A reconcilable call takes effect once, in its last try.
ReconcilableSpent ==
  \A c \in ToolCalls : CallSafety[c[2]] = "reconcilable" /\ effects[c] > 0 =>
    /\ effects[c] = 1
    /\ \E d \in Depths : /\ Made(Try(c, d)) /\ Spent(Try(c, d))
                         /\ \A e \in Depths : e > d => ~Made(Try(c, e))

\* A reconciliation that found no effect was right.
NotProvenNoEffect ==
  \A s \in ToolSteps :
    /\ stepStatus[ReconcilerOf(s)] = "committed" /\ ReconcilerOf(s) \notin proven
    /\ \A e \in Depths : e = s.depth + 1 => ~Made(Try(CallOf(s), e))
    => effects[CallOf(s)] = 0

\* A file that is still written is written for the first time.
WritesUnspent == \A c \in writing : effects[c] = 0

Inv3 ==
  JP!UnsafeInv /\ OpaqueSpent /\ ReconcilableSpent /\ NotProvenNoEffect /\ WritesUnspent

Unsafe == {"reconcilable", "opaque_side_effect"}

LEMMA TakeEffectStep ==
  ASSUME TakeEffect, Inv1, Inv2
  PROVE  /\ cur \in ToolSteps /\ CallOf(cur) \in ToolCalls /\ cur = Try(CallOf(cur), cur.depth)
         /\ cur.depth \in Depths
         /\ pc = "work" /\ pc' = "worked" /\ cur' = cur
         /\ attempts[cur] > 0 /\ Made(cur) /\ ~Made(ReconcilerOf(cur))
         /\ \A d \in Depths : d > cur.depth => ~Made(Try(CallOf(cur), d))
         /\ UNCHANGED <<stepStatus, attempts, proven>>
         /\ effects'[CallOf(cur)] = effects[CallOf(cur)] + 1
         /\ \A c \in ToolCalls : c # CallOf(cur) => effects'[c] = effects[c]
         /\ ~Spent(cur) /\ Spent(cur)'
<1>1. cur \in Steps /\ cur.kind = "tool"
  BY DEF TakeEffect, Inv1, CurFits
<1>2. cur \in ToolSteps
  BY <1>1, StepKinds
<1>3. /\ pc = "work" /\ pc' = "worked" /\ cur' = cur /\ UNCHANGED <<stepStatus, attempts, proven>>
      /\ effects' = [effects EXCEPT ![CallOf(cur)] = @ + 1]
  BY DEF TakeEffect, Goto, localVars, journalVars, outputVars
<1>4. /\ attempts[cur] > 0 /\ Made(cur) /\ ~Made(ReconcilerOf(cur))
      /\ \A d \in Depths : d > cur.depth => ~Made(Try(CallOf(cur), d))
  BY <1>2, <1>3 DEF Inv2, ToolWork, Made
<1>5. effects \in [ToolCalls -> Nat]
  BY DEF Inv1, OwnTypes
<1>6. ~Spent(cur) /\ Spent(cur)'
  BY <1>3, <1>4 DEF Spent
<1> QED BY <1>2, <1>3, <1>4, <1>5, <1>6, ToolStepFacts

LEMMA WorkedFrom ==
  ASSUME [Next]_vars, Inv1
  PROVE  pc = "worked" => pc' \notin {"begin", "work"}
<1> DEFINE Goal ==
      pc = "worked" => pc' \notin {"begin", "work"}
<1> SUFFICES Goal
  OBVIOUS
<1>1. (Execute \/ GatePending \/ GateRejected \/ Reject \/ GatePassed) => Goal
  BY DEF Execute, GatePending, GateRejected, Reject, GatePassed, Goto, Return, Reset
<1>2. (Proceed \/ VerdictApplied \/ VerdictNotApplied \/ Pause \/
      (\E s \in todo : SkipUncertain(s)) \/ (\E s \in todo : StartReconcile(s)) \/
      (\E s \in todo : AskAboutUncertain(s)) \/ (\E s \in todo : RetryUncertain(s))) => Goal
  BY DEF Proceed, VerdictApplied, VerdictNotApplied, Pause, SkipUncertain, StartReconcile,
     AskAboutUncertain, RetryUncertain, Goto, WorkOn, Handled, Return, Reset, Handles
<1>3. (CompleteRun \/ IterationLimit \/ ContinueGroup \/ GroupDone \/ AskApproval \/
      HasApproval \/ (\E t \in Steps : Claim(t)) \/ ClaimNone \/ Begin \/ LeaseLost \/
      Stop) => Goal
  BY DEF CompleteRun, IterationLimit, ContinueGroup, GroupDone, AskApproval, HasApproval, Claim,
     ClaimNone, Begin, LeaseLost, Stop, Goto, WorkOn, Return, Reset
<1>4. CASE PlanModel
  BY <1>4 DEF PlanModel
<1>5. CASE PlanTool
  BY <1>5 DEF PlanTool
<1>6. ((\E c \in 1 .. MaxProviderCalls : WriteOffCall(c)) \/
      (\E c \in 1 .. MaxProviderCalls : StartCall(c)) \/ Reserve \/ Refuse \/
      (\E c \in 1 .. MaxProviderCalls, calls \in Replies, tokens \in Usages :
         ProviderReplies(c, calls, tokens)) \/
      SettleReply \/ CommitModel) => Goal
  BY DEF WriteOffCall, StartCall, Reserve, Refuse, ProviderReplies, SettleReply, CommitModel,
     Goto, Reset, Settle
<1>7. ((\E c \in 1 .. MaxProviderCalls : ProviderFails(c)) \/ SettleFailed \/ FailModel) => Goal
  BY DEF ProviderFails, SettleFailed, FailModel, Goto, Reset, Settle
<1>8. (TakeEffect \/ CommitTool \/ CommitReconcile) => Goal
  BY DEF TakeEffect, CommitTool, CommitReconcile, Goto, Handled
<1>9. ((\E i \in DOMAIN approvals, decision \in A!Decisions : Decide(i, decision)) \/
      (\E i \in DOMAIN approvals : RepeatDecision(i)) \/ Resume) => Goal
  BY DEF Decide, RepeatDecision, Resume, Goto
<1>10. (Submit \/ Startup \/ StartupSchedule \/ ToolRaises \/ Cancel) => Goal
  BY DEF Submit, Startup, StartupSchedule, ToolRaises, Cancel, Goto, Return, Reset
<1>11. (Crash \/ TimePasses \/ Beat \/ OtherRunReclaims \/
      (\E c \in ToolCalls : WriteEnds(c))) => Goal
  BY DEF Crash, TimePasses, Beat, OtherRunReclaims, WriteEnds, Reset
<1>12. UNCHANGED vars => Goal
  BY DEF vars, localVars
<1> HIDE DEF Goal
<1> QED
  BY <1>1, <1>2, <1>3, <1>4, <1>5, <1>6, <1>7, <1>8, <1>9, <1>10, <1>11, <1>12
     DEF Next, Task, Gate, Recovery, Loop, ModelCall, ModelFailure, ToolRun, Operator

\* A dispatch that is over stays over: an unsafe step is claimed only once.
LEMMA SpentStays ==
  ASSUME [Next]_vars, Inv1, JP!UnsafeInv, NEW s \in ToolSteps, Spent(s), Safety[s] \in Unsafe
  PROVE  Spent(s)'
<1>1. s \in Steps /\ attempts[s] \in Nat
  BY ToolStepFacts DEF Inv1, JTypeOK, J!TypeOK
<1>2. attempts'[s] > 0
  BY <1>1, StatusChange DEF Spent
<1>3. ~Claim(s)
  <2>1. ASSUME Claim(s) PROVE FALSE
    <3>1. stepStatus[s] = "ready"
      BY <1>1, <2>1, ClaimTakes
    <3>2. attempts[s] = 0
      BY <1>1, <3>1 DEF JP!UnsafeInv, JP!ReadyUnclaimed, JP!Repeatable, Unsafe
    <3> QED BY <3>2 DEF Spent
  <2> QED BY <2>1
<1>4. ASSUME cur' = s, pc' \in {"begin", "work"} PROVE FALSE
  <2>1. cur = s /\ pc \in {"begin", "work", "worked"}
    BY <1>3, <1>4, WorkFrom
  <2>2. pc # "worked"
    BY <1>4, WorkedFrom
  <2> QED BY <2>1, <2>2 DEF Spent
<1> QED BY <1>2, <1>4 DEF Spent

LEMMA OpaqueSpentStep ==
  ASSUME [Next]_vars, Inv1, Inv2, Late, Inv3 PROVE OpaqueSpent'
<1> SUFFICES ASSUME NEW c \in ToolCalls, CallSafety[c[2]] = "opaque_side_effect", effects'[c] > 0
             PROVE  \E d \in Depths :
                      d >= effects'[c] - 1 /\ Made(Try(c, d))' /\ Spent(Try(c, d))'
  BY DEF OpaqueSpent, Try, Step
<1>1. effects[c] \in Nat
  BY DEF Inv1, OwnTypes
<1>2. \A d \in Depths : /\ Try(c, d) \in ToolSteps /\ Try(c, d) \in Steps
                        /\ Safety[Try(c, d)] \in Unsafe
  BY TryFacts, ToolStepFacts, CallSafetyOf DEF Unsafe
<1>3. CASE effects'[c] = effects[c]
  <2>1. PICK d \in Depths : d >= effects[c] - 1 /\ Made(Try(c, d)) /\ Spent(Try(c, d))
    BY <1>3 DEF Inv3, OpaqueSpent
  <2>2. Spent(Try(c, d))' /\ Made(Try(c, d))'
    BY <1>2, <2>1, SpentStays, StatusKept DEF Inv3, Made
  <2> QED BY <1>3, <2>1, <2>2
<1>4. CASE TakeEffect /\ c = CallOf(cur)
  <2>1. cur.depth >= effects[c]
    <3>1. CASE effects[c] = 0
      BY <1>4, <3>1, TakeEffectStep DEF Depths
    <3>2. CASE effects[c] > 0
      <4>1. PICK d \in Depths : d >= effects[c] - 1 /\ Made(Try(c, d)) /\ Spent(Try(c, d))
        BY <3>2 DEF Inv3, OpaqueSpent
      <4>2. ~(d > cur.depth) /\ d # cur.depth
        BY <1>4, <4>1, TakeEffectStep
      <4>3. cur.depth \in Nat /\ d \in Nat
        BY <1>4, TakeEffectStep DEF Depths
      <4> QED BY <1>1, <4>1, <4>2, <4>3
    <3> QED BY <1>1, <3>1, <3>2
  <2>2. cur.depth \in Depths /\ cur = Try(c, cur.depth) /\ effects'[c] = effects[c] + 1
    BY <1>4, TakeEffectStep
  <2>3. Made(cur)' /\ Spent(cur)' /\ cur' = cur
    BY <1>4, TakeEffectStep DEF Made
  <2>4. Made(Try(c, cur.depth))' /\ Spent(Try(c, cur.depth))'
    BY <2>2, <2>3 DEF Made, Spent
  <2>5. cur.depth >= effects'[c] - 1
    BY <1>1, <2>1, <2>2 DEF Depths
  <2> QED BY <2>2, <2>3, <2>4, <2>5
<1>5. ASSUME NEW b \in ToolCalls, WriteEnds(b) PROVE effects'[c] = effects[c]
  BY <1>5, WriteEndsStep DEF Late, WritesLate
<1> QED BY <1>3, <1>4, <1>5, Frame, TakeEffectStep

\* The call a task is about to make has had no effect.
LEMMA WorkUnspent ==
  ASSUME Inv1, Inv2, Inv3, pc = "work", cur \in ToolSteps, Safety[cur] = "reconcilable"
  PROVE  effects[CallOf(cur)] = 0
<1> DEFINE c == CallOf(cur)
<1>1. /\ c \in ToolCalls /\ cur.depth \in Depths /\ cur = Try(c, cur.depth)
      /\ CallSafety[c[2]] = "reconcilable" /\ effects[c] \in Nat
  BY ToolStepFacts, CallSafetyOf DEF Inv1, OwnTypes
<1>2. Made(cur) /\ \A e \in Depths : e > cur.depth => ~Made(Try(c, e))
  BY DEF Inv2, ToolWork, Made
<1>3. ASSUME effects[c] > 0 PROVE FALSE
  <2>1. PICK d \in Depths : /\ Made(Try(c, d)) /\ Spent(Try(c, d))
                            /\ \A e \in Depths : e > d => ~Made(Try(c, e))
    BY <1>1, <1>3 DEF Inv3, ReconcilableSpent
  <2>2. ~(d > cur.depth) /\ ~(cur.depth > d) /\ d # cur.depth
    BY <1>1, <1>2, <2>1 DEF Spent
  <2> QED BY <1>1, <2>2 DEF Depths
<1> QED BY <1>1, <1>3

LEMMA ReconcilableSpentStep ==
  ASSUME [Next]_vars, Inv1, Inv2, Late, Inv3 PROVE ReconcilableSpent'
<1> SUFFICES ASSUME NEW c \in ToolCalls, CallSafety[c[2]] = "reconcilable", effects'[c] > 0
             PROVE  /\ effects'[c] = 1
                    /\ \E d \in Depths : /\ Made(Try(c, d))' /\ Spent(Try(c, d))'
                                         /\ \A e \in Depths : e > d => ~Made(Try(c, e))'
  BY DEF ReconcilableSpent, Try, Step
<1>1. effects[c] \in Nat
  BY DEF Inv1, OwnTypes
<1>2. \A d \in Depths : /\ Try(c, d) \in ToolSteps /\ Try(c, d) \in Steps
                        /\ Safety[Try(c, d)] = "reconcilable"
  BY TryFacts, ToolStepFacts, CallSafetyOf
<1>3. CASE effects'[c] = effects[c]
  <2>1. effects[c] = 1
    BY <1>3 DEF Inv3, ReconcilableSpent
  <2>2. PICK d \in Depths : /\ Made(Try(c, d)) /\ Spent(Try(c, d))
                            /\ \A e \in Depths : e > d => ~Made(Try(c, e))
    BY <1>3 DEF Inv3, ReconcilableSpent
  <2>3. Spent(Try(c, d))' /\ Made(Try(c, d))'
    BY <1>2, <2>2, SpentStays, StatusKept DEF Inv3, Made, Unsafe
  <2>4. ASSUME NEW e \in Depths, e > d, Made(Try(c, e))' PROVE FALSE
    <3>1. Creates(Try(c, e))
      BY <1>2, <2>2, <2>4, StatusKept DEF Made
    <3>2. Try(c, e).depth = e /\ e # 0
      BY <2>4, TryFacts DEF Depths
    <3>3. PICK u \in ToolSteps :
            /\ Try(c, e) = Replacement(u) /\ u.depth + 1 \in Depths
            /\ Try(c, e) = Try(CallOf(u), u.depth + 1) /\ GivenUp(u)
      BY <1>2, <3>1, <3>2, NewToolStep
    <3>4. c = CallOf(u) /\ e = u.depth + 1 /\ u = Try(c, u.depth) /\ u.depth \in Depths
      BY <3>3, TryFacts, ToolStepFacts
    <3>6. stepStatus[ReconcilerOf(u)] = "committed" /\ ReconcilerOf(u) \notin proven
      BY <1>2, <3>3, <3>4 DEF GivenUp
    <3>7. ~Made(Try(CallOf(u), e))
      BY <2>2, <2>4, <3>4
    <3>8. effects[CallOf(u)] = 0
      BY <3>4, <3>6, <3>7 DEF Inv3, NotProvenNoEffect
    <3> QED BY <2>1, <3>4, <3>8
  <2> QED BY <1>3, <2>1, <2>2, <2>3, <2>4
<1>4. CASE TakeEffect /\ c = CallOf(cur)
  <2>1. effects[c] = 0
    BY <1>2, <1>4, TakeEffectStep, CallSafetyOf, WorkUnspent
  <2>2. cur.depth \in Depths /\ cur = Try(c, cur.depth) /\ effects'[c] = effects[c] + 1
    BY <1>4, TakeEffectStep
  <2>3. Made(cur)' /\ Spent(cur)' /\ cur' = cur
    BY <1>4, TakeEffectStep DEF Made
  <2>4. Made(Try(c, cur.depth))' /\ Spent(Try(c, cur.depth))'
    BY <2>2, <2>3 DEF Made, Spent
  <2>5. \A e \in Depths : e > cur.depth => ~Made(Try(c, e))'
    BY <1>4, TakeEffectStep DEF Made
  <2> QED BY <2>1, <2>2, <2>3, <2>4, <2>5
<1>5. CASE WriteEnds(c) /\ effects'[c] # effects[c]
  <2>1. effects'[c] = 1
    BY <1>5, WriteEndsStep DEF Inv3, WritesUnspent
  <2>2. PICK d \in Depths : runStatus[Run] = "cancelled" /\ LastTry(c, d)
    BY <1>5, WriteEndsStep DEF Late, WritesLate
  <2>3. pc' \notin {"begin", "work"} /\ UNCHANGED <<stepStatus, attempts>>
    BY <1>5, <2>2, WriteEndsStep DEF Inv1, EndedIsIdle, Terminal, J!TerminalRun
  <2>4. Made(Try(c, d))' /\ \A e \in Depths : e > d => ~Made(Try(c, e))'
    BY <2>2, <2>3 DEF LastTry, Made
  <2>5. Spent(Try(c, d))'
    BY <2>2, <2>3 DEF LastTry, Spent
  <2> QED BY <2>1, <2>4, <2>5
<1>6. ASSUME NEW b \in ToolCalls, WriteEnds(b), b # c PROVE effects'[c] = effects[c]
  BY <1>6, WriteEndsStep
<1> QED BY <1>3, <1>4, <1>5, <1>6, Frame, TakeEffectStep

LEMMA CommittedBy ==
  ASSUME [Next]_vars, Inv1, NEW r \in ReconcileSteps,
         stepStatus[r] # "committed", stepStatus'[r] = "committed"
  PROVE  CommitReconcile /\ cur = r
<1>1. r \in Steps /\ r.kind = "reconcile"
  BY ReconcileStepFacts
<1>2. CommitModel \/ CommitTool \/ CommitReconcile
  BY <1>1, StatusChange DEF J!RecoveryTarget
<1>3. cur = r
  BY <1>1, StatusChange DEF J!RecoveryTarget
<1>4. ~CommitTool
  BY <1>1, <1>3 DEF CommitTool, ToolReturned
<1>5. ~CommitModel
  BY <1>1, <1>3, ModelStepFacts DEF CommitModel, Inv1, CurFits, ModelPoints
<1> QED BY <1>2, <1>3, <1>4, <1>5

\* A step that was reconciled comes before the last try of its call, so that it
\* has a replacement.
LEMMA ReconciledBelow ==
  ASSUME Inv1, Inv2, NEW s \in ToolSteps, stepStatus[ReconcilerOf(s)] = "committed",
         NEW d \in Depths, s # Try(CallOf(s), d), Made(Try(CallOf(s), d)),
         \A e \in Depths : e > d => ~Made(Try(CallOf(s), e))
  PROVE  /\ s.depth < d
         /\ ~\A e \in Depths : e = s.depth + 1 => ~Made(Try(CallOf(s), e))
<1>1. CallOf(s) \in ToolCalls /\ s.depth \in Depths /\ s = Try(CallOf(s), s.depth)
  BY ToolStepFacts
<1>2. Made(s)
  BY DEF Inv2, ReconcilesUncertain, Made
<1>3. s.depth < d /\ s.depth \in Nat /\ d \in Nat
  BY <1>1, <1>2 DEF Depths
<1>4. s.depth + 1 \in Depths
  BY <1>3, AgentRuntimeAssumption DEF Depths
<1>5. Made(Try(CallOf(s), s.depth + 1))
  <2>1. CASE s.depth + 1 = d
    BY <2>1
  <2>2. CASE s.depth + 1 # d
    <3>1. s.depth + 1 \in 0 .. d - 1
      BY <1>3, <2>2
    <3>2. GivenUp(Try(CallOf(s), s.depth + 1))
      BY <1>1, <3>1 DEF Inv2, Chain
    <3> QED BY <3>2 DEF GivenUp, Made
  <2> QED BY <2>1, <2>2
<1> QED BY <1>3, <1>4, <1>5

LEMMA NotProvenNoEffectStep ==
  ASSUME [Next]_vars, Inv1, Inv2, Late, Inv3 PROVE NotProvenNoEffect'
<1> SUFFICES ASSUME NEW s \in ToolSteps,
                    stepStatus'[ReconcilerOf(s)] = "committed", ReconcilerOf(s) \notin proven',
                    \A e \in Depths : e = s.depth + 1 => ~Made(Try(CallOf(s), e))'
             PROVE  effects'[CallOf(s)] = 0
  BY DEF NotProvenNoEffect
<1>1. /\ s \in Steps /\ ReconcilerOf(s) \in ReconcileSteps /\ ReconcilerOf(s) \in Steps
      /\ CallOf(s) \in ToolCalls /\ s.depth \in Depths /\ s = Try(CallOf(s), s.depth)
  BY ToolStepFacts
<1>2. CASE stepStatus[ReconcilerOf(s)] = "committed"
  <2>1. ReconcilerOf(s) \notin proven
    BY Frame DEF CommitReconcile
  <2>2. \A e \in Depths : Try(CallOf(s), e) \in Steps
    BY <1>1, TryFacts, ToolStepFacts
  <2>3. \A e \in Depths : e = s.depth + 1 => ~Made(Try(CallOf(s), e))
    BY <2>2, StatusKept DEF Made
  <2>4. effects[CallOf(s)] = 0
    BY <1>2, <2>1, <2>3 DEF Inv3, NotProvenNoEffect
  <2>5. ~(TakeEffect /\ CallOf(cur) = CallOf(s))
    <3> SUFFICES ASSUME TakeEffect, CallOf(cur) = CallOf(s) PROVE FALSE
      OBVIOUS
    <3>1. s # cur
      BY <1>2, TakeEffectStep DEF Made
    <3>2. /\ cur.depth \in Depths /\ cur = Try(CallOf(s), cur.depth) /\ Made(cur)
          /\ \A e \in Depths : e > cur.depth => ~Made(Try(CallOf(s), e))
      BY TakeEffectStep
    <3>3. s.depth < cur.depth
      BY <1>2, <3>1, <3>2, ReconciledBelow
    <3> QED BY <1>2, <2>3, <3>2, <3>3, ReconciledBelow
  <2>6. ~WriteEnds(CallOf(s))
    <3> SUFFICES ASSUME WriteEnds(CallOf(s)) PROVE FALSE
      OBVIOUS
    <3>1. PICK d \in Depths : LastTry(CallOf(s), d)
      BY <1>1, WriteEndsStep DEF Late, WritesLate
    <3>2. s # Try(CallOf(s), d)
      BY <1>2, <3>1 DEF LastTry, Made
    <3>3. /\ Made(Try(CallOf(s), d))
          /\ \A e \in Depths : e > d => ~Made(Try(CallOf(s), e))
      BY <3>1 DEF LastTry, Made
    <3> QED BY <1>2, <2>3, <3>2, <3>3, ReconciledBelow
  <2>7. ASSUME NEW b \in ToolCalls, WriteEnds(b), b # CallOf(s)
        PROVE  effects'[CallOf(s)] = effects[CallOf(s)]
    BY <1>1, <2>7, WriteEndsStep
  <2> QED BY <1>1, <2>4, <2>5, <2>6, <2>7, Frame, TakeEffectStep
<1>3. CASE stepStatus[ReconcilerOf(s)] # "committed"
  <2>1. CommitReconcile /\ cur = ReconcilerOf(s)
    BY <1>1, <1>3, CommittedBy
  <2>2. CallOf(cur) = CallOf(s)
    BY <2>1, ToolStepFacts, ReconcileStepFacts
  <2>3. effects[CallOf(s)] \in Nat
    BY <1>1 DEF Inv1, OwnTypes
  <2>4. ~(effects[CallOf(s)] > 0) /\ UNCHANGED effects
    BY <2>1, <2>2 DEF CommitReconcile
  <2> QED BY <2>3, <2>4
<1> QED BY <1>2, <1>3

LEMMA WritesUnspentStep ==
  ASSUME [Next]_vars, Inv1, Inv2, Late, Inv3 PROVE WritesUnspent'
<1> SUFFICES ASSUME NEW c \in writing' PROVE effects'[c] = 0
  BY DEF WritesUnspent
<1>1. CASE c \in writing
  <2>1. c \in ToolCalls /\ effects[c] = 0
    BY <1>1 DEF Inv1, OwnTypes, Inv3, WritesUnspent
  <2>2. pc # "work"
    BY <1>1 DEF Late, WritesLate, Inv1, EndedIsIdle, Terminal, J!TerminalRun
  <2>3. ASSUME NEW b \in ToolCalls, WriteEnds(b) PROVE effects'[c] = effects[c]
    BY <2>1, <2>3, WriteEndsStep
  <2> QED BY <2>1, <2>2, <2>3, Frame DEF TakeEffect
<1>2. CASE c \notin writing
  <2>1. Cancel /\ UNCHANGED effects
    BY <1>2, Frame DEF Cancel, Crash, WriteEnds
  <2> QED BY <1>2, <2>1, LeftBehind, WorkUnspent
<1> QED BY <1>1, <1>2

LEMMA Inv3Step == ASSUME [Next]_vars, Inv1, Inv2, Late, Inv3 PROVE Inv3'
<1>1. JP!UnsafeInv'
  <2>1. [JP!Next]_(JP!vars) /\ JP!TypeOK
    BY JournalStep, SameJournal DEF Inv1
  <2> QED BY <2>1, JournalInstance, JP!UnsafeStep DEF Inv3
<1> QED
  BY <1>1, OpaqueSpentStep, ReconcilableSpentStep, NotProvenNoEffectStep, WritesUnspentStep
     DEF Inv3

LEMMA Inv3Init == ASSUME Init PROVE Inv3
<1>1. JP!UnsafeInv
  BY DEF Init, J!Init, JP!UnsafeInv, JP!UnsafeStepClaimedOnce, JP!ReadyUnclaimed
<1>2. OpaqueSpent /\ ReconcilableSpent
  BY DEF Init, OpaqueSpent, ReconcilableSpent
<1>3. NotProvenNoEffect /\ WritesUnspent
  BY ToolStepFacts DEF Init, NotProvenNoEffect, WritesUnspent
<1> QED BY <1>1, <1>2, <1>3 DEF Inv3

LEMMA Inv3Always == Spec => []Inv3
<1>1. Init => Inv3
  BY Inv3Init
<1>2. Inv1 /\ Inv2 /\ Late /\ Inv3 /\ [Next]_vars => Inv3'
  BY Inv3Step
<1> QED BY <1>1, <1>2, LateAlways, PTL DEF Spec

\* After a run ended no step of it is handed out and no provider call changes,
\* whatever is resumed, decided, reclaimed or restarted; and a tool takes effect
\* only as the file that a cancelled task left to its thread: for the first time,
\* and while the journal shows its call as handed out and without an outcome.
THEOREM EndedRunStaysQuiet == Spec => EndedRunIsQuiet
<1> DEFINE Quiet ==
      Terminal =>
        /\ UNCHANGED <<attempts, callStatus>>
        /\ \A c \in ToolCalls : effects'[c] # effects[c] =>
             /\ runStatus[Run] = "cancelled" /\ CallSafety[c[2]] = "reconcilable"
             /\ effects[c] = 0 /\ Unsettled(c) /\ ~Found(c)
<1>1. ASSUME Inv1, Inv2, Late, Inv3, [Next]_vars PROVE Quiet
  <2> SUFFICES ASSUME Terminal
               PROVE  /\ UNCHANGED <<attempts, callStatus>>
                      /\ \A c \in ToolCalls : effects'[c] # effects[c] =>
                           /\ runStatus[Run] = "cancelled" /\ CallSafety[c[2]] = "reconcilable"
                           /\ effects[c] = 0 /\ Unsettled(c) /\ ~Found(c)
    OBVIOUS
  <2>1. pc \in {"down", "starting", "idle"}
    BY <1>1 DEF Inv1, EndedIsIdle
  <2>2. UNCHANGED attempts
    BY <1>1, <2>1, StepMoves DEF Claim, J!ReclaimExpiredLeases
  <2>3. UNCHANGED callStatus
    BY <1>1, <2>1, LedgerMoves DEF WriteOffCall, StartCall, ProviderFails, ProviderReplies
  <2>4. ASSUME NEW c \in ToolCalls, effects'[c] # effects[c]
        PROVE  /\ runStatus[Run] = "cancelled" /\ CallSafety[c[2]] = "reconcilable"
               /\ effects[c] = 0 /\ Unsettled(c) /\ ~Found(c)
    <3>1. PICK b \in ToolCalls : WriteEnds(b)
      BY <1>1, <2>1, <2>4, Frame DEF TakeEffect
    <3>2. c \in writing
      BY <1>1, <2>4, <3>1, WriteEndsStep
    <3>3. PICK d \in Depths : LastTry(c, d)
      BY <1>1, <3>2 DEF Late, WritesLate
    <3>4. Unsettled(c)
      <4>1. [Original(c) EXCEPT !.depth = d] = Try(c, d)
        BY DEF Original, Try, Step
      <4> QED BY <3>3, <4>1 DEF Unsettled, LastTry
    <3>5. runStatus[Run] = "cancelled" /\ CallSafety[c[2]] = "reconcilable" /\ effects[c] = 0
      BY <1>1, <3>2 DEF Late, WritesLate, Inv3, WritesUnspent
    <3> QED BY <1>1, <3>2, <3>4, <3>5, LateNotFound
  <2> QED BY <2>2, <2>3, <2>4
<1> QED BY <1>1, LateAlways, Inv3Always, PTL DEF Spec, EndedRunIsQuiet, Quiet

\* Every attempt below an opaque one was given up with an approval of its own.
LEMMA RetriesCount ==
  ASSUME Inv1, Inv2, NEW c \in ToolCalls
  PROVE  /\ RetriesGranted(c) \in Nat
         /\ \A d \in Depths : CallSafety[c[2]] = "opaque_side_effect" /\ Made(Try(c, d)) =>
              d <= RetriesGranted(c)
<1> DEFINE Retries == {i \in DOMAIN approvals :
                         /\ CallOf(approvals[i].step) = c
                         /\ approvals[i].kind = "uncertain_outcome"
                         /\ approvals[i].status = "approved"}
<1>1. IsFiniteSet(Retries)
  <2>1. approvals \in Seq(A!Approval)
    BY DEF Inv1, OwnTypes
  <2>2. IsFiniteSet(DOMAIN approvals)
    BY <2>1, FS_Interval
  <2>3. Retries \in SUBSET DOMAIN approvals
    OBVIOUS
  <2> HIDE DEF Retries
  <2> QED BY <2>2, <2>3, FS_Subset
<1>2. RetriesGranted(c) = Cardinality(Retries)
  BY DEF RetriesGranted
<1>3. ASSUME NEW d \in Depths, CallSafety[c[2]] = "opaque_side_effect", Made(Try(c, d))
      PROVE  d <= Cardinality(Retries)
  <2> DEFINE row == [e \in 0 .. d - 1 |->
                       CHOOSE i \in Retries : approvals[i].step = Try(c, e)]
  <2>1. d \in Nat /\ \A e \in 0 .. d - 1 : e \in Depths
    BY AgentRuntimeAssumption DEF Depths
  <2>2. ASSUME NEW e \in 0 .. d - 1
        PROVE  \E i \in Retries : approvals[i].step = Try(c, e)
    <3>1. GivenUp(Try(c, e))
      BY <1>3 DEF Inv2, Chain
    <3>2. Safety[Try(c, e)] = "opaque_side_effect" /\ CallOf(Try(c, e)) = c
      BY <1>3, <2>1, TryFacts, CallSafetyOf
    <3> QED BY <3>1, <3>2 DEF GivenUp, Granted
  <2>3. \A e \in 0 .. d - 1 : row[e] \in Retries /\ approvals[row[e]].step = Try(c, e)
    <3> HIDE DEF Retries
    <3> QED BY <2>2
  <2>4. row \in [0 .. d - 1 -> Retries]
    <3> HIDE DEF Retries
    <3> QED BY <2>3
  <2>5. ASSUME NEW e \in 0 .. d - 1, NEW f \in 0 .. d - 1, row[e] = row[f] PROVE e = f
    <3>1. Try(c, e) = Try(c, f)
      BY <2>3, <2>5
    <3>2. Try(c, e).depth = e /\ Try(c, f).depth = f
      BY <2>1, TryFacts
    <3> QED BY <3>1, <3>2
  <2>6. row \in Injection(0 .. d - 1, Retries)
    <3> HIDE DEF row, Retries
    <3> QED BY <2>4, <2>5 DEF Injection, IsInjective
  <2>7. Cardinality(0 .. d - 1) = d
    BY <2>1, FS_Interval
  <2> HIDE DEF row, Retries
  <2> QED BY <1>1, <2>6, <2>7, FS_Injection
<1> HIDE DEF Retries
<1> QED BY <1>1, <1>2, <1>3, FS_CardinalityType

\* However often the daemon dies around a tool call, a reconcilable call takes
\* effect at most once, and an opaque one at most once more for each retry that
\* an operator approved.
THEOREM EffectsAreBounded == Spec => []EffectsBounded
<1>1. ASSUME Inv1, Inv2, Inv3 PROVE EffectsBounded
  <2>1. ASSUME NEW c \in ToolCalls
        PROVE  effects[c] \in Nat /\ (CallSafety[c[2]] = "reconcilable" => effects[c] <= 1)
    BY <1>1 DEF Inv1, OwnTypes, Inv3, ReconcilableSpent
  <2>2. ASSUME NEW c \in ToolCalls, CallSafety[c[2]] = "opaque_side_effect"
        PROVE  effects[c] <= 1 + RetriesGranted(c)
    <3>1. CASE effects[c] = 0
      <4>1. RetriesGranted(c) \in Nat
        BY <1>1, <2>2, RetriesCount
      <4> QED BY <3>1, <4>1
    <3>2. CASE effects[c] > 0
      <4>1. PICK d \in Depths : d >= effects[c] - 1 /\ Made(Try(c, d))
        BY <1>1, <2>2, <3>2 DEF Inv3, OpaqueSpent
      <4>2. RetriesGranted(c) \in Nat /\ d <= RetriesGranted(c)
        BY <1>1, <2>2, <4>1, RetriesCount
      <4> QED BY <2>1, <4>1, <4>2 DEF Depths
    <3> QED BY <2>1, <3>1, <3>2
  <2> QED BY <2>1, <2>2 DEF EffectsBounded
<1> QED BY <1>1, Inv2Always, Inv3Always, PTL

----------------------------------------------------------------------------
(***************************************************************************)
(* Inv4: a run that completed has no loose ends.                           *)
(***************************************************************************)
\* A provider call is under way only for a model step that is held.
CallsOpen ==
  \A c \in 1 .. MaxProviderCalls : callStatus[c] = "started" =>
    callStep[c] \in ModelSteps /\ Open(callStep[c])

\* At the other points of a model step none is under way; while it waits, one.
NoneStarted ==
  pc \in {"call", "refuse", "settle", "commit", "settlefailed", "failstep"} => StartedCalls = {}
OneStarted == pc = "work" /\ cur \in ModelSteps => \A c, d \in StartedCalls : c = d

\* Budget is reserved only for a model step that is open; it is settled before
\* the step is.
ReservedOpen == \A m \in ModelSteps : resStatus[m] = "reserved" => Open(m)
SettledAt ==
  /\ pc \in {"commit", "failstep"} => resStatus[cur] = "settled"
  /\ pc = "refuse" => resStatus[cur] = "absent"

\* In a completed run every call has an output and no step is open.
Closed ==
  runStatus[Run] = "completed" =>
    /\ \A i \in Iterations : Answered(i) => Outputs(i)
    /\ \A s \in Steps : ~Open(s)

Inv4 == CallsOpen /\ NoneStarted /\ OneStarted /\ ReservedOpen /\ SettledAt /\ Closed

LEMMA ModelPointFrom ==
  ASSUME [Next]_vars, Inv1
  PROVE  /\ pc' \in {"call", "refuse"} => Reserve \/ Still
         /\ pc' = "settle" =>
              \/ Still
              \/ \E c \in 1 .. MaxProviderCalls, calls \in Replies, tokens \in Usages :
                   ProviderReplies(c, calls, tokens)
         /\ pc' = "commit" => SettleReply \/ Still
         /\ pc' = "settlefailed" =>
              (\E c \in 1 .. MaxProviderCalls : ProviderFails(c)) \/ Still
         /\ pc' = "failstep" => SettleFailed \/ Still
         /\ pc' = "work" /\ cur' \in ModelSteps =>
              \/ \E c \in 1 .. MaxProviderCalls : StartCall(c)
              \/ pc = "work" /\ cur' = cur /\ UNCHANGED ledgerVars
<1> DEFINE Goal ==
      /\ pc' \in {"call", "refuse"} => Reserve \/ Still
      /\ pc' = "settle" =>
           \/ Still
           \/ \E c \in 1 .. MaxProviderCalls, calls \in Replies, tokens \in Usages :
                ProviderReplies(c, calls, tokens)
      /\ pc' = "commit" => SettleReply \/ Still
      /\ pc' = "settlefailed" =>
           (\E c \in 1 .. MaxProviderCalls : ProviderFails(c)) \/ Still
      /\ pc' = "failstep" => SettleFailed \/ Still
      /\ pc' = "work" /\ cur' \in ModelSteps =>
           \/ \E c \in 1 .. MaxProviderCalls : StartCall(c)
           \/ pc = "work" /\ cur' = cur /\ UNCHANGED ledgerVars
<1> SUFFICES Goal
  OBVIOUS
<1>1. (Execute \/ GatePending \/ GateRejected \/ Reject \/ GatePassed) => Goal
  BY DEF Execute, GatePending, GateRejected, Reject, GatePassed, Goto, Return, Reset, localVars,
     OnlyJournal, OnlyTask
<1>2. (Proceed \/ VerdictApplied \/ VerdictNotApplied \/ Pause \/
      (\E s \in todo : SkipUncertain(s)) \/ (\E s \in todo : StartReconcile(s)) \/
      (\E s \in todo : AskAboutUncertain(s)) \/ (\E s \in todo : RetryUncertain(s))) => Goal
  BY DEF Proceed, VerdictApplied, VerdictNotApplied, Pause, SkipUncertain, StartReconcile,
     AskAboutUncertain, RetryUncertain, Goto, WorkOn, Handled, Return, Reset, localVars,
     OnlyJournal, OnlyTask
<1>3. (CompleteRun \/ IterationLimit \/ ContinueGroup \/ GroupDone \/ AskApproval \/
      HasApproval \/ (\E t \in Steps : Claim(t)) \/ ClaimNone \/ LeaseLost \/ Stop) => Goal
  BY DEF CompleteRun, IterationLimit, ContinueGroup, GroupDone, AskApproval, HasApproval, Claim,
     ClaimNone, LeaseLost, Stop, Goto, WorkOn, Return, Reset, localVars, OnlyJournal, OnlyTask
<1>4. CASE PlanModel
  BY <1>4, PlanModelStep DEF Goto, WorkOn, localVars
<1>5. CASE PlanTool
  BY <1>5, PlanToolStep DEF Inv1, WorkOn
<1>6. CASE Begin
  <2>1. cur \in Steps
    BY <1>6 DEF Begin, Inv1, CurFits
  <2> QED BY <1>6, <2>1, StepKinds DEF Begin, Goto, localVars
<1>7. ((\E c \in 1 .. MaxProviderCalls : WriteOffCall(c)) \/ Refuse \/ CommitModel) => Goal
  BY DEF WriteOffCall, Refuse, CommitModel, Goto, Reset, localVars, OnlyJournal
<1>8. ASSUME NEW c \in 1 .. MaxProviderCalls, StartCall(c) PROVE Goal
  BY <1>8 DEF StartCall, Goto
<1>9. CASE Reserve
  BY <1>9 DEF Reserve, Goto
<1>10. ASSUME NEW c \in 1 .. MaxProviderCalls, NEW calls \in Replies, NEW tokens \in Usages,
             ProviderReplies(c, calls, tokens)
      PROVE  Goal
  BY <1>10 DEF ProviderReplies
<1>11. CASE SettleReply
  BY <1>11 DEF SettleReply, Settle, Goto
<1>12. (FailModel) => Goal
  BY DEF FailModel, Reset, OnlyJournal
<1>13. ASSUME NEW c \in 1 .. MaxProviderCalls, ProviderFails(c) PROVE Goal
  BY <1>13 DEF ProviderFails, Goto
<1>14. CASE SettleFailed
  BY <1>14 DEF SettleFailed, Settle, Goto
<1>15. (TakeEffect \/ CommitTool \/ CommitReconcile) => Goal
  BY DEF TakeEffect, CommitTool, CommitReconcile, Goto, Handled, localVars, OnlyJournal
<1>16. ((\E i \in DOMAIN approvals, decision \in A!Decisions : Decide(i, decision)) \/
      (\E i \in DOMAIN approvals : RepeatDecision(i)) \/ Resume) => Goal
  BY DEF Decide, RepeatDecision, Resume, Goto, localVars, OnlyTask
<1>17. (Submit \/ Startup \/ StartupSchedule \/ ToolRaises \/ Cancel) => Goal
  BY DEF Submit, Startup, StartupSchedule, ToolRaises, Cancel, Goto, Return, Reset, localVars,
     OnlyJournal, OnlyTask
<1>18. (Crash \/ (\E c \in ToolCalls : WriteEnds(c))) => Goal
  BY DEF Crash, WriteEnds, localVars, Still
<1>19. CASE TimePasses
  BY <1>19 DEF TimePasses, OnlyJournal, localVars, Waiting
<1>20. CASE Beat
  BY <1>20 DEF Beat, OnlyJournal, localVars
<1>21. CASE OtherRunReclaims
  BY <1>21 DEF OtherRunReclaims, OnlyJournal, localVars, Waiting
<1>22. CASE UNCHANGED vars
  BY <1>22 DEF vars, ledgerVars, localVars, Still
<1> HIDE DEF Goal
<1> QED
  BY <1>1, <1>2, <1>3, <1>4, <1>5, <1>6, <1>7, <1>8, <1>9, <1>10, <1>11, <1>12, <1>13, <1>14,
     <1>15, <1>16, <1>17, <1>18, <1>19, <1>20, <1>21, <1>22
     DEF Next, Task, Gate, Recovery, Loop, ModelCall, ModelFailure, ToolRun, Operator

LEMMA StartedStep ==
  ASSUME L!TypeOK, [Next]_vars, NEW c \in 1 .. MaxProviderCalls, callStatus'[c] = "started"
  PROVE  StartCall(c) \/ (callStatus[c] = "started" /\ callStep'[c] = callStep[c])
<1>1. CASE callStatus[c] # "started"
  BY <1>1, NewCall
<1>2. ASSUME callStatus[c] = "started" PROVE callStep'[c] = callStep[c]
  BY <1>2, LedgerMoves
     DEF WriteOffCall, StartCall, ProviderFails, ProviderReplies, L!CompleteProviderCall,
     L!StartProviderCall, L!TypeOK
<1> QED BY <1>1, <1>2

LEMMA StartCallStep ==
  ASSUME L!TypeOK, NEW c \in 1 .. MaxProviderCalls, StartCall(c)
  PROVE  /\ pc = "call" /\ cur' = cur /\ callStep'[c] = cur /\ UNCHANGED stepStatus
         /\ \A b \in 1 .. MaxProviderCalls : b # c =>
              callStatus'[b] = callStatus[b] /\ callStep'[b] = callStep[b]
<1>1. UNCHANGED stepStatus
  BY DEF StartCall, J!Heartbeat, J!runVars, journalVars
<1> QED BY <1>1 DEF StartCall, L!StartProviderCall, L!TypeOK, Goto, localVars

LEMMA NoneStartedStep == ASSUME L!TypeOK, [Next]_vars, Inv1, Inv4 PROVE NoneStarted'
<1> SUFFICES ASSUME pc' \in {"call", "refuse", "settle", "commit", "settlefailed", "failstep"}
             PROVE  StartedCalls' = {}
  BY DEF NoneStarted
<1>1. CASE Still
  BY <1>1 DEF Still, ledgerVars, localVars, Inv4, NoneStarted, StartedCalls
<1>2. CASE Reserve
  <2>1. UNCHANGED <<callStatus, callStep, cur>> /\ StartedCalls = {}
    BY <1>2 DEF Reserve, L!ReserveBudget, L!callVars, ledgerVars, Goto, localVars
  <2> QED BY <2>1 DEF StartedCalls
<1>3. ASSUME NEW c \in 1 .. MaxProviderCalls, pc = "work", cur \in ModelSteps, c \in StartedCalls,
             UNCHANGED <<cur, callStep>>, callStatus'[c] \in L!FinalCall,
             \A b \in 1 .. MaxProviderCalls : b # c => callStatus'[b] = callStatus[b]
      PROVE  StartedCalls' = {}
  <2>1. \A b \in StartedCalls : b = c
    BY <1>3 DEF Inv4, OneStarted
  <2> QED BY <1>3, <2>1 DEF StartedCalls, L!FinalCall
<1>4. ASSUME NEW c \in 1 .. MaxProviderCalls, NEW calls \in Replies, NEW tokens \in Usages,
             ProviderReplies(c, calls, tokens)
      PROVE  StartedCalls' = {}
  <2>1. /\ pc = "work" /\ c \in StartedCalls /\ UNCHANGED <<cur, callStep>>
        /\ callStatus'[c] \in L!FinalCall
        /\ \A b \in 1 .. MaxProviderCalls : b # c => callStatus'[b] = callStatus[b]
    BY <1>4 DEF ProviderReplies, L!CompleteProviderCall, L!TypeOK, L!FinalCall
  <2>2. cur \in ModelSteps
    BY <1>4, StepKinds DEF ProviderReplies, Inv1, CurFits
  <2> QED BY <1>3, <2>1, <2>2
<1>5. ASSUME NEW c \in 1 .. MaxProviderCalls, ProviderFails(c) PROVE StartedCalls' = {}
  <2>1. /\ pc = "work" /\ c \in StartedCalls /\ UNCHANGED <<cur, callStep>>
        /\ callStatus'[c] \in L!FinalCall
        /\ \A b \in 1 .. MaxProviderCalls : b # c => callStatus'[b] = callStatus[b]
    BY <1>5 DEF ProviderFails, L!CompleteProviderCall, L!TypeOK, L!FinalCall, Goto, localVars
  <2>2. cur \in ModelSteps
    BY <1>5, StepKinds DEF ProviderFails, Inv1, CurFits
  <2> QED BY <1>3, <2>1, <2>2
<1>6. CASE SettleReply \/ SettleFailed
  <2>1. UNCHANGED <<callStatus, callStep, cur>> /\ pc \in {"settle", "settlefailed"}
    BY <1>6
       DEF SettleReply, SettleFailed, Settle, L!SettleBudget, L!callVars, ledgerVars, Goto,
       localVars
  <2> QED BY <2>1 DEF StartedCalls, Inv4, NoneStarted
<1> QED BY <1>1, <1>2, <1>4, <1>5, <1>6, ModelPointFrom

LEMMA OneStartedStep == ASSUME L!TypeOK, [Next]_vars, Inv1, Inv4 PROVE OneStarted'
<1> SUFFICES ASSUME pc' = "work", cur' \in ModelSteps PROVE \A c, d \in StartedCalls' : c = d
  BY DEF OneStarted
<1>1. ASSUME NEW c \in 1 .. MaxProviderCalls, StartCall(c) PROVE StartedCalls' \subseteq {c}
  <2>1. StartedCalls = {}
    BY <1>1 DEF StartCall, Inv4, NoneStarted
  <2> QED BY <1>1, <2>1, StartCallStep DEF StartedCalls
<1>2. CASE pc = "work" /\ cur' = cur /\ UNCHANGED ledgerVars
  BY <1>2 DEF ledgerVars, StartedCalls, Inv4, OneStarted
<1> QED BY <1>1, <1>2, ModelPointFrom

LEMMA SettledAtStep == ASSUME L!TypeOK, [Next]_vars, Inv1, Inv4 PROVE SettledAt'
<1>1. CASE Still
  BY <1>1 DEF Still, ledgerVars, localVars, Inv4, SettledAt
<1>2. ASSUME Reserve, pc' = "refuse" PROVE resStatus'[cur'] = "absent"
  BY <1>2 DEF Reserve, Goto, localVars, ledgerVars
<1>3. ASSUME SettleReply \/ SettleFailed, pc' \in {"commit", "failstep"}
      PROVE  resStatus'[cur'] = "settled"
  <2>1. cur' = cur /\ cur \in ModelSteps
    BY <1>3 DEF SettleReply, SettleFailed, Settle, Goto, localVars, Inv1, CurFits, ModelPoints
  <2> QED BY <1>3, <2>1
      DEF SettleReply, SettleFailed, Settle, L!SettleBudget, L!SettleRepeats, ledgerVars, Goto,
      L!TypeOK
<1> QED BY <1>1, <1>2, <1>3, ModelPointFrom DEF SettledAt

\* How an open model step can be settled: its own bookkeeping is over then.
LEMMA ModelSettled ==
  ASSUME [Next]_vars, Inv1, Inv2, NEW m \in ModelSteps, Open(m), ~Open(m)'
  PROVE  cur = m /\ pc \in {"refuse", "failstep", "commit"}
<1>1. m \in Steps /\ m \notin ToolSteps /\ m \notin ReconcileSteps /\ Safety[m] \in J!Repeatable
  BY ModelStepFacts, ToolStepFacts, ReconcileStepFacts DEF J!Repeatable
<1>2. ~GateRejected \/ stepStatus'[m] # "cancelled"
  <2>1. ASSUME GateRejected, stepStatus'[m] = "cancelled" PROVE FALSE
    <3>1. approvals[A!FirstUnapproved].step \in ToolSteps
      BY <2>1, FirstUnapprovedFacts DEF GateRejected, Inv1, OwnTypes, Inv2, Rows
    <3>2. m = approvals[A!FirstUnapproved].step
      BY <1>1, <2>1 DEF GateRejected, J!CancelStep, J!Release, journalVars, Open, Inv1, JTypeOK,
         J!TypeOK
    <3> QED BY <1>1, <3>1, <3>2
  <2> QED BY <2>1
<1>3. /\ \/ Refuse \/ FailModel \/ ToolRaises
         \/ CommitModel \/ CommitTool \/ CommitReconcile
      /\ m = cur
  BY <1>1, <1>2, StatusChange DEF Open, J!Held, J!RecoveryTarget
<1>4. m.kind = "model"
  BY ModelStepFacts
<1> QED BY <1>3, <1>4
    DEF Refuse, FailModel, ToolRaises, CommitModel, CommitTool, ToolReturned, CommitReconcile

LEMMA ModelStaysOpen ==
  ASSUME [Next]_vars, Inv1, Inv2, Inv4, NEW m \in ModelSteps, Open(m),
         \/ resStatus[m] = "reserved"
         \/ \E c \in 1 .. MaxProviderCalls : callStatus[c] = "started" /\ callStep[c] = m
  PROVE  Open(m)'
<1>1. ASSUME ~Open(m)' PROVE FALSE
  <2>1. cur = m /\ pc \in {"refuse", "failstep", "commit"}
    BY <1>1, ModelSettled
  <2>2. resStatus[m] # "reserved"
    BY <2>1 DEF Inv4, SettledAt
  <2>3. StartedCalls = {}
    BY <2>1 DEF Inv4, NoneStarted
  <2> QED BY <2>1, <2>2, <2>3 DEF StartedCalls
<1> QED BY <1>1

LEMMA CallsOpenStep == ASSUME L!TypeOK, [Next]_vars, Inv1, Inv2, Inv4 PROVE CallsOpen'
<1> SUFFICES ASSUME NEW c \in 1 .. MaxProviderCalls, callStatus'[c] = "started"
             PROVE  /\ callStep'[c] \in ModelSteps
                    /\ stepStatus'[callStep'[c]] \in {"ready", "leased", "executing"}
  BY DEF CallsOpen, Open
<1>1. CASE StartCall(c)
  <2>1. /\ pc = "call" /\ callStep'[c] = cur /\ UNCHANGED stepStatus
    BY <1>1, StartCallStep
  <2>2. cur \in ModelSteps /\ Open(cur)
    BY <2>1 DEF Inv1, CurFits, Inv2, OtherWork, ModelPoints
  <2> QED BY <2>1, <2>2 DEF Open
<1>2. CASE callStatus[c] = "started" /\ callStep'[c] = callStep[c]
  <2>1. PICK m \in ModelSteps : m = callStep[c] /\ Open(m)
    BY <1>2 DEF Inv4, CallsOpen
  <2>2. Open(m)'
    BY <1>2, <2>1, ModelStaysOpen
  <2> QED BY <1>2, <2>1, <2>2 DEF Open
<1> QED BY <1>1, <1>2, StartedStep

LEMMA ReservedOpenStep == ASSUME L!TypeOK, [Next]_vars, Inv1, Inv2, Inv4 PROVE ReservedOpen'
<1> SUFFICES ASSUME NEW m \in ModelSteps, resStatus'[m] = "reserved" PROVE Open(m)'
  BY DEF ReservedOpen
<1>1. CASE resStatus[m] = "reserved"
  BY <1>1, ModelStaysOpen DEF Inv4, ReservedOpen
<1>2. CASE resStatus[m] # "reserved"
  <2>1. Reserve
    <3>1. UNCHANGED resStatus \/ Reserve \/ SettleReply \/ SettleFailed
      BY LedgerMoves
    <3>2. SettleReply \/ SettleFailed =>
            \/ UNCHANGED resStatus
            \/ resStatus' = [resStatus EXCEPT ![cur] = "settled"]
      BY DEF SettleReply, SettleFailed, Settle, L!SettleBudget, ledgerVars
    <3>3. resStatus \in [ModelSteps -> {"absent", "reserved", "settled"}]
      BY DEF L!TypeOK
    <3> QED BY <1>2, <3>1, <3>2, <3>3
  <2>2. pc = "sweep" /\ UNCHANGED stepStatus /\ resStatus' \in
          {resStatus, [resStatus EXCEPT ![cur] = "reserved"]}
    BY <2>1 DEF Reserve, OnlyLedger, journalVars, L!ReserveBudget, ledgerVars
  <2>3. cur = m
    BY <1>2, <2>2 DEF L!TypeOK
  <2>4. Open(cur)
    BY <2>2, <2>3 DEF Inv2, OtherWork, ModelPoints
  <2> QED BY <2>2, <2>3, <2>4 DEF Open
<1> QED BY <1>1, <1>2

\* At the final answer nothing is open and every call has its output.
LEMMA FinalClosed ==
  ASSUME Inv1, Inv2, HasFinalText
  PROVE  /\ \A i \in Iterations : Answered(i) => Outputs(i)
         /\ \A s \in Steps : ~Open(s)
<1> DEFINE N == NextIteration
<1>1. /\ N \in Iterations /\ Answered(N) /\ toolCalls[N] = {} /\ ~Complete(N)
      /\ \A j \in 0 .. N - 1 : Complete(j)
  BY NextIterationFacts DEF HasFinalText
<1> HIDE DEF N
<1>2. ASSUME NEW i \in Iterations, CompleteBelow(i) PROVE ~(i > N)
  <2>1. i > N => N \in 0 .. i - 1
    BY <1>1 DEF Iterations
  <2> QED BY <1>1, <1>2, <2>1 DEF CompleteBelow
<1>3. ASSUME NEW i \in Iterations, CompleteBelow(i) PROVE i = N \/ Complete(i)
  <2>1. i < N => i \in 0 .. N - 1
    BY <1>1 DEF Iterations
  <2> QED BY <1>1, <1>2, <1>3, <2>1 DEF Iterations
<1>4. ASSUME NEW i \in Iterations, Answered(i) PROVE Outputs(i)
  <2>1. i = N \/ Complete(i)
    BY <1>3, <1>4 DEF Inv2, ModelsInOrder
  <2> QED BY <1>1, <2>1 DEF Complete, Outputs
<1>5. ASSUME NEW m \in ModelSteps, Open(m) PROVE FALSE
  <2>1. CompleteBelow(m.iter) /\ ~Answered(m.iter) /\ m.iter \in Iterations
    BY <1>5, ModelStepFacts DEF Inv2, ModelsInOrder, Open, Made
  <2> QED BY <1>1, <1>3, <2>1 DEF Complete
<1>6. ASSUME NEW u \in ToolSteps, Busy(u) PROVE FALSE
  <2>1. InOrder(u) /\ u.iter \in Iterations
    BY <1>6, BusyFacts, ToolStepFacts DEF Inv2, ToolsInOrder
  <2>2. u.iter # N /\ Complete(u.iter)
    BY <1>1, <1>3, <2>1 DEF InOrder
  <2>3. Found(CallOf(u))
    BY <2>1, <2>2 DEF Complete, Outputs, InOrder, CallOf
  <2> QED BY <1>6, <2>3, BusyNotFound
<1>7. ASSUME NEW s \in Steps, Open(s) PROVE FALSE
  <2>1. CASE s \in ToolSteps
    BY <1>6, <1>7, <2>1 DEF Busy
  <2>2. CASE s \in ReconcileSteps
    BY <1>6, <1>7, <2>2, ReconcileStepFacts DEF Busy
  <2> QED BY <1>5, <1>7, <2>1, <2>2, StepKinds
<1> QED BY <1>4, <1>7

LEMMA ClosedStep == ASSUME [Next]_vars, Inv1, Inv2, Inv4 PROVE Closed'
<1> SUFFICES ASSUME runStatus'[Run] = "completed"
             PROVE  /\ \A i \in Iterations : Answered(i)' => Outputs(i)'
                    /\ \A s \in Steps : stepStatus'[s] \notin {"ready", "leased", "executing"}
  BY DEF Closed, Open
<1>1. /\ UNCHANGED <<toolCalls, stepStatus>>
      /\ \A i \in Iterations : Answered(i) => Outputs(i)
      /\ \A s \in Steps : ~Open(s)
  <2>1. CASE runStatus[Run] = "completed"
    <3>1. /\ pc \in {"down", "starting", "idle"}
          /\ \A s \in Steps : ~Open(s)
          /\ \A i \in Iterations : Answered(i) => Outputs(i)
      BY <2>1 DEF Inv1, EndedIsIdle, Terminal, J!TerminalRun, Inv4, Closed
    <3>2. UNCHANGED toolCalls
      BY <3>1, Frame DEF CommitModel
    <3>3. \A s \in Steps : stepStatus'[s] = stepStatus[s]
      <4>1. ASSUME NEW s \in Steps PROVE stepStatus'[s] = stepStatus[s]
        <5>1. stepStatus[s] \notin J!Held /\ stepStatus[s] # "ready"
          BY <3>1 DEF Open, J!Held
        <5>2. ~Creates(s)
          BY <3>1
             DEF Creates, StartReconcile, RetryUncertain, Handles, VerdictNotApplied, PlanModel,
             PlanTool
        <5> QED BY <3>1, <5>1, <5>2, StatusChange
            DEF Claim, Begin, GateRejected, Refuse, FailModel, CommitModel, CommitReconcile,
            CommitTool, ToolRaises, ToolReturned
      <4> QED BY <4>1
    <3>4. UNCHANGED stepStatus
      BY <3>3, JournalTyped DEF Inv1, JTypeOK, J!TypeOK
    <3> QED BY <3>1, <3>2, <3>4
  <2>2. CASE runStatus[Run] # "completed"
    <3>1. CompleteRun
      BY <2>2, RunMoves DEF Submit, J!CreateRun, Inv1, JTypeOK, J!TypeOK
    <3>2. UNCHANGED <<toolCalls, stepStatus>> /\ HasFinalText
      BY <3>1 DEF CompleteRun, OnlyJournal, outputVars, J!MarkRunStatus, J!stepVars
    <3> QED BY <3>2, FinalClosed
  <2> QED BY <2>1, <2>2
<1>2. ASSUME NEW i \in Iterations, Answered(i)' PROVE Outputs(i)'
  <2>1. Answered(i) /\ Outputs(i) /\ toolCalls'[i] = toolCalls[i]
    BY <1>1, <1>2 DEF Answered
  <2>2. \A n \in toolCalls[i] : Found(<<i, n>>)'
    BY <2>1, CallsOf, FoundStays DEF Inv1, Outputs
  <2> QED BY <2>1, <2>2 DEF Outputs
<1> QED BY <1>1, <1>2 DEF Open

LEMMA Inv4Step == ASSUME L!TypeOK, [Next]_vars, Inv1, Inv2, Inv4 PROVE Inv4'
BY CallsOpenStep, NoneStartedStep, OneStartedStep, ReservedOpenStep, SettledAtStep, ClosedStep
   DEF Inv4

LEMMA Inv4Init == ASSUME Init PROVE Inv4
<1>1. /\ \A c \in 1 .. MaxProviderCalls : callStatus[c] = "absent"
      /\ \A m \in ModelSteps : resStatus[m] = "absent"
      /\ pc = "idle" /\ runStatus[Run] = "absent"
  BY DEF Init, L!Init, J!Init
<1> QED BY <1>1 DEF Inv4, CallsOpen, NoneStarted, OneStarted, ReservedOpen, SettledAt, Closed

\* A completed run has no loose ends, whatever was retried or lost on the way:
\* every call has an output, no step is held, every provider call has an
\* outcome and nothing stays reserved.
THEOREM CompletedIsSettled == Spec => []CompletedRunIsSettled
<1>1. Init => Inv4
  BY Inv4Init
<1>2. LP!LInv => L!TypeOK
  BY SameLedger DEF LP!LInv
<1>3. LP!LInv /\ Inv1 /\ Inv2 /\ Inv4 /\ [Next]_vars => Inv4'
  BY <1>2, Inv4Step
<1>4. ASSUME LP!LInv, Inv1, Inv2, Inv4 PROVE CompletedRunIsSettled
  <2> SUFFICES ASSUME runStatus[Run] = "completed"
               PROVE  /\ \A i \in Iterations : Answered(i) => Outputs(i)
                      /\ ~HasActiveLease
                      /\ \A c \in 1 .. MaxProviderCalls : callStatus[c] # "started"
                      /\ reserved[Run].tokens = 0
                      /\ A!FirstUnapproved = 0
    BY DEF CompletedRunIsSettled
  <2>1. /\ \A i \in Iterations : Answered(i) => Outputs(i)
        /\ \A s \in Steps : ~Open(s)
    BY <1>4 DEF Inv4, Closed
  <2>2. ~HasActiveLease
    BY <2>1 DEF HasActiveLease, Open, J!Held
  <2>3. \A c \in 1 .. MaxProviderCalls : callStatus[c] # "started"
    BY <1>4, <2>1, ModelStepFacts DEF Inv4, CallsOpen
  <2>4. reserved[Run].tokens = 0
    <3>1. \A m \in ModelSteps : resStatus[m] # "reserved"
      BY <1>4, <2>1, ModelStepFacts DEF Inv4, ReservedOpen
    <3>2. reserved[Run]["tokens"] = 0
      BY <1>4, <3>1, LedgerInstance, LP!NothingReserved
    <3> QED BY <3>2
  <2>5. A!FirstUnapproved = 0
    BY <1>4, FirstUnapprovedFacts DEF Inv1, OwnTypes, Inv2, GateShut, AllApproved
  <2> QED BY <2>1, <2>2, <2>3, <2>4, <2>5
<1> QED BY <1>1, <1>3, <1>4, Inv2Always, LedgerAccounted, PTL DEF Spec
=============================================================================
