--------------------------- MODULE JournalProofs ---------------------------
(***************************************************************************)
(* Theorems about Journal for every set of runs, steps, workers and keys,  *)
(* and that it implements StepOutcome.                                     *)
(***************************************************************************)
EXTENDS Journal, TLAPS

\* The inductive invariant.  UnsafeStepClaimedOnce is not inductive alone: a
\* one-shot step that is ready must not have been claimed yet, and a step that
\* carries a receipt must be committed.
ReadyUnclaimed ==
  \A s \in Steps :
    Safety[s] \notin Repeatable /\ stepStatus[s] \in {"absent", "ready"} => attempts[s] = 0

UnsafeInv == UnsafeStepClaimedOnce /\ ReadyUnclaimed

USE JournalAssumption

\* The named actions of Next, split once for every proof below.
LEMMA NextCases ==
  ASSUME Next
  PROVE  \/ \E r \in Runs, k \in RunKeys \cup {None}, id \in Identities,
               parent \in Runs \cup {None} : CreateRun(r, k, id, parent)
         \/ \E r \in Runs, target \in RunStatuses : MarkRunStatus(r, target)
         \/ \E s \in Steps : CreateStep(s)
         \/ \E s \in Steps, w \in Workers \cup {None} : CancelStep(s, w)
         \/ \E s \in Steps, k \in ReceiptKeys, p \in Payloads : RecordReceipt(s, k, p)
         \/ \E s \in Steps, w \in Workers, scope \in SUBSET Runs : ClaimReadyStep(w, scope, s)
         \/ \E s \in Steps, w \in Workers : MarkExecuting(s, w)
         \/ \E s \in Steps, w \in Workers : Heartbeat(s, w)
         \/ \E s \in Steps, w \in Workers, k \in ReceiptKeys \cup {None}, p \in Payloads :
               CommitStep(s, w, k, p)
         \/ \E s \in Steps, w \in Workers, target \in {"failed", "uncertain"} :
               FinishOwnedStep(s, w, target)
         \/ ReclaimExpiredLeases
         \/ Tick
<1>1. CASE RunOperation
  BY <1>1 DEF RunOperation
<1>2. CASE StepOperation
  <2> PICK s \in Steps :
        \/ CreateStep(s)
        \/ CancelStep(s, None)
        \/ \E k \in ReceiptKeys, p \in Payloads : RecordReceipt(s, k, p)
        \/ \E w \in Workers :
             \/ ClaimReadyStep(w, {StepRun[s]}, s)
             \/ ClaimReadyStep(w, Runs, s)
             \/ MarkExecuting(s, w)
             \/ Heartbeat(s, w)
             \/ \E k \in ReceiptKeys \cup {None}, p \in Payloads : CommitStep(s, w, k, p)
             \/ FailStep(s, w)
             \/ MarkUncertain(s, w)
             \/ CancelStep(s, w)
    BY <1>2 DEF StepOperation
  <2>1. {StepRun[s]} \in SUBSET Runs /\ Runs \in SUBSET Runs
    OBVIOUS
  <2> QED BY <2>1 DEF FailStep, MarkUncertain
<1> QED BY <1>1, <1>2 DEF Next

----------------------------------------------------------------------------
\* Every reachable state is well typed.
LEMMA TypeStep == ASSUME TypeOK, [Next]_vars PROVE TypeOK'
<1> USE DEF TypeOK
<1>1. ASSUME NEW r \in Runs, NEW k \in RunKeys \cup {None}, NEW id \in Identities,
             NEW parent \in Runs \cup {None}, CreateRun(r, k, id, parent)
      PROVE  TypeOK'
  BY <1>1 DEF CreateRun, RunStatuses, stepVars
<1>2. ASSUME NEW r \in Runs, NEW target \in RunStatuses, MarkRunStatus(r, target)
      PROVE  TypeOK'
  BY <1>2 DEF MarkRunStatus, stepVars
<1>3. ASSUME NEW s \in Steps, CreateStep(s) PROVE TypeOK'
  BY <1>3 DEF CreateStep, StepStatuses, runVars
<1>4. ASSUME NEW s \in Steps, NEW w \in Workers \cup {None}, CancelStep(s, w) PROVE TypeOK'
  BY <1>4 DEF CancelStep, Release, NoExpiry, StepStatuses, runVars
<1>5. ASSUME NEW s \in Steps, NEW k \in ReceiptKeys, NEW p \in Payloads,
             RecordReceipt(s, k, p)
      PROVE  TypeOK'
  BY <1>5 DEF RecordReceipt, WriteReceipt, Receipt, runVars
<1>6. ASSUME NEW s \in Steps, NEW w \in Workers, NEW scope, ClaimReadyStep(w, scope, s)
      PROVE  TypeOK'
  BY <1>6 DEF ClaimReadyStep, StepStatuses, runVars
<1>7. ASSUME NEW s \in Steps, NEW w \in Workers, MarkExecuting(s, w) PROVE TypeOK'
  BY <1>7 DEF MarkExecuting, StepStatuses, runVars
<1>8. ASSUME NEW s \in Steps, NEW w \in Workers, Heartbeat(s, w) PROVE TypeOK'
  BY <1>8 DEF Heartbeat, runVars
<1>9. ASSUME NEW s \in Steps, NEW w \in Workers, NEW k \in ReceiptKeys \cup {None},
             NEW p \in Payloads, CommitStep(s, w, k, p)
      PROVE  TypeOK'
  <2>1. CASE k = None
    BY <1>9, <2>1 DEF CommitStep, Release, NoExpiry, StepStatuses, runVars
  <2>2. CASE k # None
    BY <1>9, <2>2 DEF CommitStep, Release, NoExpiry, WriteReceipt, Receipt, StepStatuses, runVars
  <2> QED BY <2>1, <2>2
<1>10. ASSUME NEW s \in Steps, NEW w \in Workers, NEW target \in {"failed", "uncertain"},
              FinishOwnedStep(s, w, target)
       PROVE  TypeOK'
  BY <1>10 DEF FinishOwnedStep, Release, NoExpiry, StepStatuses, runVars
<1>11. CASE ReclaimExpiredLeases
  BY <1>11 DEF ReclaimExpiredLeases, RecoveryTarget, NoExpiry, StepStatuses, runVars
<1>12. CASE Tick
  BY <1>12 DEF Tick, runVars, stepVars
<1>13. CASE UNCHANGED vars
  BY <1>13 DEF vars, runVars, stepVars
<1> QED
  BY <1>1, <1>2, <1>3, <1>4, <1>5, <1>6, <1>7, <1>8, <1>9, <1>10, <1>11, <1>12, <1>13, NextCases

THEOREM TypeCorrect == Spec => []TypeOK
<1>1. Init => TypeOK
  BY DEF Init, TypeOK, NoExpiry
<1> QED BY <1>1, TypeStep, PTL DEF Spec

----------------------------------------------------------------------------
\* No owner keeps a right to a settled or requeued step.
LEMMA LeaseCoherentStep == ASSUME TypeOK, LeaseCoherent, [Next]_vars PROVE LeaseCoherent'
<1> USE DEF TypeOK, LeaseCoherent, Held
<1>1. ASSUME NEW r \in Runs, NEW k \in RunKeys \cup {None}, NEW id \in Identities,
             NEW parent \in Runs \cup {None}, CreateRun(r, k, id, parent)
      PROVE  LeaseCoherent'
  BY <1>1 DEF CreateRun, stepVars
<1>2. ASSUME NEW r \in Runs, NEW target \in RunStatuses, MarkRunStatus(r, target)
      PROVE  LeaseCoherent'
  BY <1>2 DEF MarkRunStatus, stepVars
<1>3. ASSUME NEW s \in Steps, CreateStep(s) PROVE LeaseCoherent'
  BY <1>3 DEF CreateStep, StepExists
<1>4. ASSUME NEW s \in Steps, NEW w \in Workers \cup {None}, CancelStep(s, w)
      PROVE  LeaseCoherent'
  BY <1>4 DEF CancelStep, Release
<1>5. ASSUME NEW s \in Steps, NEW k \in ReceiptKeys, NEW p \in Payloads,
             RecordReceipt(s, k, p)
      PROVE  LeaseCoherent'
  BY <1>5 DEF RecordReceipt
<1>6. ASSUME NEW s \in Steps, NEW w \in Workers, NEW scope, ClaimReadyStep(w, scope, s)
      PROVE  LeaseCoherent'
  BY <1>6 DEF ClaimReadyStep, NoExpiry
<1>7. ASSUME NEW s \in Steps, NEW w \in Workers, MarkExecuting(s, w) PROVE LeaseCoherent'
  BY <1>7 DEF MarkExecuting
<1>8. ASSUME NEW s \in Steps, NEW w \in Workers, Heartbeat(s, w) PROVE LeaseCoherent'
  BY <1>8 DEF Heartbeat, NoExpiry
<1>9. ASSUME NEW s \in Steps, NEW w \in Workers, NEW k \in ReceiptKeys \cup {None},
             NEW p \in Payloads, CommitStep(s, w, k, p)
      PROVE  LeaseCoherent'
  BY <1>9 DEF CommitStep, Release
<1>10. ASSUME NEW s \in Steps, NEW w \in Workers, NEW target \in {"failed", "uncertain"},
              FinishOwnedStep(s, w, target)
       PROVE  LeaseCoherent'
  BY <1>10 DEF FinishOwnedStep, Release
<1>11. CASE ReclaimExpiredLeases
  BY <1>11 DEF ReclaimExpiredLeases, RecoveryTarget
<1>12. CASE Tick
  BY <1>12 DEF Tick, stepVars
<1>13. CASE UNCHANGED vars
  BY <1>13 DEF vars, stepVars
<1> QED
  BY <1>1, <1>2, <1>3, <1>4, <1>5, <1>6, <1>7, <1>8, <1>9, <1>10, <1>11, <1>12, <1>13, NextCases

THEOREM LeasesCoherent == Spec => []LeaseCoherent
<1>1. Init => LeaseCoherent
  BY DEF Init, LeaseCoherent, Held
<1> QED BY <1>1, LeaseCoherentStep, TypeCorrect, PTL DEF Spec

----------------------------------------------------------------------------
\* At most one claim for a one-shot step: only CreateStep makes such a step
\* ready, only a claim of a ready step counts an attempt, and the recovery of
\* an expired lease makes it uncertain.
LEMMA UnsafeStep == ASSUME TypeOK, UnsafeInv, [Next]_vars PROVE UnsafeInv'
<1> USE DEF TypeOK, UnsafeInv, UnsafeStepClaimedOnce, ReadyUnclaimed
<1>1. CASE UNCHANGED <<stepStatus, attempts>>
  BY <1>1
<1>2. ASSUME NEW s \in Steps, CreateStep(s) PROVE UnsafeInv'
  BY <1>2 DEF CreateStep, StepExists
<1>3. ASSUME NEW s \in Steps, NEW w \in Workers \cup {None}, CancelStep(s, w)
      PROVE  UnsafeInv'
  BY <1>3 DEF CancelStep, Release
<1>4. ASSUME NEW s \in Steps, NEW w \in Workers, NEW scope, ClaimReadyStep(w, scope, s)
      PROVE  UnsafeInv'
  BY <1>4 DEF ClaimReadyStep, FirstReady, ReadySteps
<1>5. ASSUME NEW s \in Steps, NEW w \in Workers, MarkExecuting(s, w) PROVE UnsafeInv'
  BY <1>5 DEF MarkExecuting
<1>6. ASSUME NEW s \in Steps, NEW w \in Workers, NEW k \in ReceiptKeys \cup {None},
             NEW p \in Payloads, CommitStep(s, w, k, p)
      PROVE  UnsafeInv'
  BY <1>6 DEF CommitStep, Release
<1>7. ASSUME NEW s \in Steps, NEW w \in Workers, NEW target \in {"failed", "uncertain"},
             FinishOwnedStep(s, w, target)
      PROVE  UnsafeInv'
  BY <1>7 DEF FinishOwnedStep, Release
<1>8. CASE ReclaimExpiredLeases
  BY <1>8 DEF ReclaimExpiredLeases, RecoveryTarget, Repeatable, ExpiredSteps, Held
<1>9. ASSUME NEW r \in Runs,
             \/ \E k \in RunKeys \cup {None}, id \in Identities, parent \in Runs \cup {None} :
                  CreateRun(r, k, id, parent)
             \/ \E target \in RunStatuses : MarkRunStatus(r, target)
      PROVE  UNCHANGED <<stepStatus, attempts>>
  BY <1>9 DEF CreateRun, MarkRunStatus, stepVars
<1>10. ASSUME NEW s \in Steps,
              \/ \E k \in ReceiptKeys, p \in Payloads : RecordReceipt(s, k, p)
              \/ \E w \in Workers : Heartbeat(s, w)
       PROVE  UNCHANGED <<stepStatus, attempts>>
  BY <1>10 DEF RecordReceipt, Heartbeat
<1>11. Tick \/ UNCHANGED vars => UNCHANGED <<stepStatus, attempts>>
  BY DEF Tick, vars, stepVars
<1> QED
  BY <1>1, <1>2, <1>3, <1>4, <1>5, <1>6, <1>7, <1>8, <1>9, <1>10, <1>11, NextCases

\* A step whose effect may not be repeated is claimed at most once, in every
\* behaviour of the journal's API (reclaim_expired_leases, claim_ready_step).
THEOREM UnsafeClaimedOnce == Spec => []UnsafeStepClaimedOnce
<1>1. Init => UnsafeInv
  BY DEF Init, UnsafeInv, UnsafeStepClaimedOnce, ReadyUnclaimed
<1>2. UnsafeInv => UnsafeStepClaimedOnce
  BY DEF UnsafeInv
<1> QED BY <1>1, <1>2, UnsafeStep, TypeCorrect, PTL DEF Spec

----------------------------------------------------------------------------
\* create_run inserts a key only when no run carries it.
THEOREM OneRunPerKeyHolds == Spec => []OneRunPerKey
<1>1. Init => OneRunPerKey
  BY DEF Init, OneRunPerKey
<1>2. ASSUME TypeOK, OneRunPerKey, [Next]_vars PROVE OneRunPerKey'
  <2>1. CASE UNCHANGED runKey
    BY <1>2, <2>1 DEF OneRunPerKey
  <2>2. ASSUME NEW r \in Runs, NEW k \in RunKeys \cup {None}, NEW id \in Identities,
               NEW parent \in Runs \cup {None}, CreateRun(r, k, id, parent)
        PROVE  OneRunPerKey'
    <3>1. \A q \in Runs : k # None => runKey[q] # k
      BY <2>2 DEF CreateRun, RunsWithKey
    <3>2. \A q \in Runs : runKey'[q] = IF q = r THEN k ELSE runKey[q]
      BY <1>2, <2>2 DEF TypeOK, CreateRun
    <3> QED BY <1>2, <3>1, <3>2 DEF OneRunPerKey
  <2>3. ASSUME NEW s \in Steps,
               \/ CreateStep(s)
               \/ \E w \in Workers \cup {None} : CancelStep(s, w)
               \/ \E k \in ReceiptKeys, p \in Payloads : RecordReceipt(s, k, p)
               \/ \E w \in Workers, scope \in SUBSET Runs : ClaimReadyStep(w, scope, s)
               \/ \E w \in Workers : MarkExecuting(s, w)
               \/ \E w \in Workers : Heartbeat(s, w)
               \/ \E w \in Workers, k \in ReceiptKeys \cup {None}, p \in Payloads :
                    CommitStep(s, w, k, p)
               \/ \E w \in Workers, target \in {"failed", "uncertain"} :
                    FinishOwnedStep(s, w, target)
        PROVE  UNCHANGED runKey
    BY <2>3 DEF CreateStep, CancelStep, RecordReceipt, ClaimReadyStep, MarkExecuting,
                Heartbeat, CommitStep, FinishOwnedStep, runVars
  <2>4. ASSUME \/ \E r \in Runs, target \in RunStatuses : MarkRunStatus(r, target)
               \/ ReclaimExpiredLeases
               \/ Tick
               \/ UNCHANGED vars
        PROVE  UNCHANGED runKey
    BY <2>4 DEF MarkRunStatus, ReclaimExpiredLeases, Tick, vars, runVars
  <2> QED BY <1>2, <2>1, <2>2, <2>3, <2>4, NextCases
<1> QED BY <1>1, <1>2, TypeCorrect, PTL DEF Spec

----------------------------------------------------------------------------
\* What each step of the journal may do to what is already settled.
LEMMA SettledStep ==
  ASSUME TypeOK, [Next]_vars
  PROVE  /\ \A r \in Runs : runStatus[r] \in TerminalRun => runStatus'[r] = runStatus[r]
         /\ \A s \in Steps : stepStatus[s] \in TerminalStep => stepStatus'[s] = stepStatus[s]
         /\ \A k \in ReceiptKeys : receipts[k] # NoReceipt => receipts'[k] = receipts[k]
<1> DEFINE Kept ==
      /\ \A r \in Runs : runStatus[r] \in TerminalRun => runStatus'[r] = runStatus[r]
      /\ \A s \in Steps : stepStatus[s] \in TerminalStep => stepStatus'[s] = stepStatus[s]
      /\ \A k \in ReceiptKeys : receipts[k] # NoReceipt => receipts'[k] = receipts[k]
<1> USE DEF TypeOK, TerminalStep, Held
<1>1. ASSUME NEW r \in Runs, NEW k \in RunKeys \cup {None}, NEW id \in Identities,
             NEW parent \in Runs \cup {None}, CreateRun(r, k, id, parent)
      PROVE  Kept
  BY <1>1 DEF CreateRun, stepVars, RunExists, TerminalRun
<1>2. ASSUME NEW r \in Runs, NEW target \in RunStatuses, MarkRunStatus(r, target)
      PROVE  Kept
  BY <1>2 DEF MarkRunStatus, stepVars, RunTransitions, TerminalRun
<1>3. ASSUME NEW s \in Steps,
             \/ CreateStep(s)
             \/ \E w \in Workers \cup {None} : CancelStep(s, w)
             \/ \E w \in Workers, scope \in SUBSET Runs : ClaimReadyStep(w, scope, s)
             \/ \E w \in Workers : MarkExecuting(s, w) \/ Heartbeat(s, w)
             \/ \E w \in Workers, target \in {"failed", "uncertain"} :
                  FinishOwnedStep(s, w, target)
      PROVE  Kept
  BY <1>3 DEF CreateStep, StepExists, CancelStep, Release, ClaimReadyStep, FirstReady,
              ReadySteps, MarkExecuting, Heartbeat, FinishOwnedStep, runVars
<1>4. ASSUME NEW s \in Steps, NEW k \in ReceiptKeys, NEW p \in Payloads,
             RecordReceipt(s, k, p)
      PROVE  Kept
  BY <1>4 DEF RecordReceipt, ReceiptAccepted, WriteReceipt, runVars
<1>5. ASSUME NEW s \in Steps, NEW w \in Workers, NEW k \in ReceiptKeys \cup {None},
             NEW p \in Payloads, CommitStep(s, w, k, p)
      PROVE  Kept
  BY <1>5 DEF CommitStep, Release, ReceiptAccepted, WriteReceipt, runVars
<1>6. CASE ReclaimExpiredLeases
  BY <1>6 DEF ReclaimExpiredLeases, ExpiredSteps, runVars
<1>7. CASE Tick \/ UNCHANGED vars
  BY <1>7 DEF Tick, vars, runVars, stepVars
<1> QED BY <1>1, <1>2, <1>3, <1>4, <1>5, <1>6, <1>7, NextCases

\* Terminal runs and steps keep their status and receipts are write-once.
THEOREM SettledIsForever == Spec => SettledForever
<1>1. TypeOK /\ [Next]_vars =>
        [/\ \A r \in Runs : runStatus[r] \in TerminalRun => runStatus'[r] = runStatus[r]
         /\ \A s \in Steps : stepStatus[s] \in TerminalStep => stepStatus'[s] = stepStatus[s]
         /\ \A k \in ReceiptKeys : receipts[k] # NoReceipt => receipts'[k] = receipts[k]]_vars
  BY SettledStep
<1> QED BY <1>1, TypeCorrect, PTL DEF Spec, SettledForever

\* The receipt a step committed with is stored for good and is its own:
\* commit_step writes both in one transaction and receipts are write-once.
THEOREM CommittedReceiptsStand == Spec => []CommittedReceiptStands
<1>1. Init => CommittedReceiptStands
  BY DEF Init, CommittedReceiptStands
<1>2. ASSUME TypeOK, CommittedReceiptStands, [Next]_vars PROVE CommittedReceiptStands'
  <2> DEFINE Own(t) == stepReceipt[t] # None =>
                         stepStatus[t] = "committed" /\ receipts[stepReceipt[t]].step = t
  <2> SUFFICES ASSUME NEW t \in Steps, stepReceipt'[t] # None
               PROVE  stepStatus'[t] = "committed" /\ receipts'[stepReceipt'[t]].step = t
    BY DEF CommittedReceiptStands
  <2>1. CASE stepReceipt'[t] = stepReceipt[t]
    <3>1. /\ stepReceipt[t] \in ReceiptKeys
          /\ stepStatus[t] = "committed"
          /\ receipts[stepReceipt[t]].step = t
      BY <1>2, <2>1 DEF CommittedReceiptStands, TypeOK
    <3>2. receipts[stepReceipt[t]] # NoReceipt
      <4> SUFFICES ASSUME receipts[stepReceipt[t]] = NoReceipt PROVE FALSE
        OBVIOUS
      <4>1. t = None
        BY <3>1 DEF NoReceipt
      <4> QED BY <4>1
    <3> QED BY <1>2, <2>1, <3>1, <3>2, SettledStep DEF TerminalStep
  <2>2. CASE stepReceipt'[t] # stepReceipt[t]
    <3>1. PICK s \in Steps, w \in Workers, k \in ReceiptKeys \cup {None}, p \in Payloads :
             CommitStep(s, w, k, p)
      BY <1>2, <2>2, NextCases
         DEF CreateRun, MarkRunStatus, CreateStep, CancelStep, RecordReceipt, ClaimReadyStep,
             MarkExecuting, Heartbeat, FinishOwnedStep, ReclaimExpiredLeases, Tick,
             vars, stepVars
    <3> QED BY <1>2, <2>2, <3>1 DEF CommitStep, WriteReceipt, Release, TypeOK
  <2> QED BY <2>1, <2>2
<1> QED BY <1>1, <1>2, TypeCorrect, PTL DEF Spec

----------------------------------------------------------------------------
\* A live lease changes owner only through its owner's own settlement.
THEOREM LiveLeasesRespected == Spec => LiveLeaseRespected
<1>1. ASSUME TypeOK, [Next]_vars PROVE \A s \in Steps : ~LiveLeaseStolen(s)
  <2> SUFFICES ASSUME NEW t \in Steps, LiveLeaseStolen(t) PROVE FALSE
    OBVIOUS
  <2> USE DEF LiveLeaseStolen, TypeOK, Held
  <2>1. ASSUME NEW s \in Steps,
               \/ CreateStep(s)
               \/ \E w \in Workers \cup {None} : CancelStep(s, w)
               \/ \E k \in ReceiptKeys, p \in Payloads : RecordReceipt(s, k, p)
               \/ \E w \in Workers, scope \in SUBSET Runs : ClaimReadyStep(w, scope, s)
               \/ \E w \in Workers : MarkExecuting(s, w) \/ Heartbeat(s, w)
               \/ \E w \in Workers, k \in ReceiptKeys \cup {None}, p \in Payloads :
                    CommitStep(s, w, k, p)
               \/ \E w \in Workers, target \in {"failed", "uncertain"} :
                    FinishOwnedStep(s, w, target)
        PROVE  FALSE
    BY <1>1, <2>1
       DEF CreateStep, CancelStep, RecordReceipt, ClaimReadyStep, FirstReady, ReadySteps,
           MarkExecuting, Heartbeat, CommitStep, FinishOwnedStep, Release
  <2>2. CASE ReclaimExpiredLeases
    BY <1>1, <2>2 DEF ReclaimExpiredLeases, ExpiredSteps
  <2>3. ASSUME \/ \E r \in Runs, k \in RunKeys \cup {None}, id \in Identities,
                     parent \in Runs \cup {None} : CreateRun(r, k, id, parent)
               \/ \E r \in Runs, target \in RunStatuses : MarkRunStatus(r, target)
               \/ Tick
               \/ UNCHANGED vars
        PROVE  UNCHANGED leaseOwner
    BY <2>3 DEF CreateRun, MarkRunStatus, Tick, vars, stepVars
  <2> QED BY <1>1, <2>1, <2>2, <2>3, NextCases
<1> QED BY <1>1, TypeCorrect, PTL DEF Spec, LiveLeaseRespected

----------------------------------------------------------------------------
(***************************************************************************)
(* The journal implements StepOutcome: every operation maps to a step of   *)
(* the abstract specification or leaves its state alone.                   *)
(***************************************************************************)
AbstractOutcome == [s \in Steps |-> OutcomeOf(stepStatus[s])]

\* One step's status changes, so one step's outcome changes.
LEMMA OutcomeExcept ==
  ASSUME NEW s \in Steps, NEW status, TypeOK,
         stepStatus' = [stepStatus EXCEPT ![s] = status]
  PROVE  AbstractOutcome' = [AbstractOutcome EXCEPT ![s] = OutcomeOf(status)]
BY DEF AbstractOutcome, TypeOK

\* The outcome of each status.
LEMMA Outcomes ==
  /\ OutcomeOf("absent") = "absent" /\ OutcomeOf("ready") = "open"
  /\ OutcomeOf("leased") = "granted" /\ OutcomeOf("executing") = "granted"
  /\ OutcomeOf("uncertain") = "in_doubt" /\ OutcomeOf("committed") = "committed"
  /\ OutcomeOf("failed") = "failed" /\ OutcomeOf("cancelled") = "cancelled"
BY DEF OutcomeOf, Held

LEMMA StepMaps ==
  ASSUME TypeOK, [Next]_vars
  PROVE  StepPromise!Next \/ UNCHANGED <<AbstractOutcome, attempts>>
<1> USE Outcomes
<1>0. \A s \in Steps : AbstractOutcome[s] = OutcomeOf(stepStatus[s])
  BY DEF AbstractOutcome
<1>1. ASSUME NEW s \in Steps, CreateStep(s) PROVE StepPromise!Plan(s)
  <2>1. stepStatus[s] = "absent" /\ stepStatus' = [stepStatus EXCEPT ![s] = "ready"]
    BY <1>1 DEF CreateStep, StepExists
  <2>2. AbstractOutcome' = [AbstractOutcome EXCEPT ![s] = OutcomeOf("ready")]
    BY <2>1, OutcomeExcept
  <2>3. AbstractOutcome[s] = "absent"
    BY <2>1, <1>0
  <2>4. UNCHANGED attempts
    BY <1>1 DEF CreateStep
  <2> QED BY <2>2, <2>3, <2>4 DEF StepPromise!Plan, StepPromise!Becomes, AbstractOutcome
<1>2. ASSUME NEW s \in Steps, NEW w, NEW scope, ClaimReadyStep(w, scope, s)
      PROVE  StepPromise!Grant(s)
  <2>1. stepStatus[s] = "ready" /\ stepStatus' = [stepStatus EXCEPT ![s] = "leased"]
    BY <1>2 DEF ClaimReadyStep, FirstReady, ReadySteps
  <2>2. AbstractOutcome' = [AbstractOutcome EXCEPT ![s] = OutcomeOf("leased")]
    BY <2>1, OutcomeExcept
  <2>3. AbstractOutcome[s] = "open"
    BY <2>1, <1>0
  <2>4. attempts' = [attempts EXCEPT ![s] = @ + 1]
    BY <1>2 DEF ClaimReadyStep
  <2> QED BY <2>2, <2>3, <2>4 DEF StepPromise!Grant, StepPromise!Becomes, AbstractOutcome
<1>3. ASSUME NEW s \in Steps, NEW w \in Workers \cup {None}, CancelStep(s, w)
      PROVE  StepPromise!Withdraw(s)
  <2>1. /\ stepStatus[s] \in {"ready", "uncertain", "leased", "executing"}
        /\ stepStatus' = [stepStatus EXCEPT ![s] = "cancelled"]
    BY <1>3 DEF CancelStep, Held, Release
  <2>2. AbstractOutcome' = [AbstractOutcome EXCEPT ![s] = OutcomeOf("cancelled")]
    BY <2>1, OutcomeExcept
  <2>3. AbstractOutcome[s] \in {"open", "granted", "in_doubt"}
    BY <2>1, <1>0
  <2>4. UNCHANGED attempts
    BY <1>3 DEF CancelStep
  <2> QED BY <2>2, <2>3, <2>4 DEF StepPromise!Withdraw, StepPromise!Becomes, AbstractOutcome
<1>4. ASSUME NEW s \in Steps, NEW w \in Workers, NEW target \in {"failed", "uncertain"},
             FinishOwnedStep(s, w, target)
      PROVE  StepPromise!Settle(s)
  <2>1. stepStatus[s] \in Held /\ stepStatus' = [stepStatus EXCEPT ![s] = target]
    BY <1>4 DEF FinishOwnedStep, Release
  <2>2. AbstractOutcome' = [AbstractOutcome EXCEPT ![s] = OutcomeOf(target)]
    BY <2>1, OutcomeExcept
  <2>3. AbstractOutcome[s] = "granted"
    BY <2>1, <1>0 DEF Held
  <2>4. OutcomeOf(target) \in {"committed", "failed", "in_doubt"} /\ UNCHANGED attempts
    BY <1>4 DEF FinishOwnedStep
  <2> QED BY <2>2, <2>3, <2>4 DEF StepPromise!Settle, StepPromise!Becomes, AbstractOutcome
<1>5. ASSUME NEW s \in Steps, NEW w \in Workers, NEW k \in ReceiptKeys \cup {None},
             NEW p \in Payloads, CommitStep(s, w, k, p)
      PROVE  StepPromise!Settle(s)
  <2>1. stepStatus[s] = "executing" /\ stepStatus' = [stepStatus EXCEPT ![s] = "committed"]
    BY <1>5 DEF CommitStep, Release
  <2>2. AbstractOutcome' = [AbstractOutcome EXCEPT ![s] = OutcomeOf("committed")]
    BY <2>1, OutcomeExcept
  <2>3. AbstractOutcome[s] = "granted"
    BY <2>1, <1>0
  <2>4. UNCHANGED attempts
    BY <1>5 DEF CommitStep
  <2> QED BY <2>2, <2>3, <2>4 DEF StepPromise!Settle, StepPromise!Becomes, AbstractOutcome
<1>6. CASE ReclaimExpiredLeases
  <2>1. ExpiredSteps \in SUBSET Steps /\ \A s \in ExpiredSteps : AbstractOutcome[s] = "granted"
    BY <1>0 DEF ExpiredSteps, Held
  <2>2. AbstractOutcome' = [s \in Steps |-> IF s \notin ExpiredSteps THEN AbstractOutcome[s]
                 ELSE IF s \in {t \in Steps : Safety[t] \notin Repeatable}
                      THEN "in_doubt" ELSE "open"]
    BY <1>6 DEF ReclaimExpiredLeases, RecoveryTarget, AbstractOutcome
  <2>3. StepPromise!Lose(ExpiredSteps)
    BY <1>6, <2>1, <2>2 DEF StepPromise!Lose, ReclaimExpiredLeases, AbstractOutcome
  <2> QED BY <2>1, <2>3 DEF StepPromise!Next
<1>7. ASSUME NEW s \in Steps, NEW w \in Workers, MarkExecuting(s, w)
      PROVE  UNCHANGED <<AbstractOutcome, attempts>>
  <2>1. stepStatus[s] = "leased" /\ stepStatus' = [stepStatus EXCEPT ![s] = "executing"]
    BY <1>7 DEF MarkExecuting
  <2>2. AbstractOutcome' = [AbstractOutcome EXCEPT ![s] = OutcomeOf("executing")]
    BY <2>1, OutcomeExcept
  <2>3. AbstractOutcome[s] = "granted" /\ UNCHANGED attempts
    BY <2>1, <1>0, <1>7 DEF MarkExecuting
  <2>4. OutcomeOf("executing") = "granted"
    BY Outcomes
  <2>5. AbstractOutcome = [t \in Steps |-> AbstractOutcome[t]]
    BY DEF AbstractOutcome
  <2>6. [AbstractOutcome EXCEPT ![s] = "granted"] = AbstractOutcome
    BY <2>3, <2>5, Zenon
  <2> QED BY <2>2, <2>3, <2>4, <2>6
<1>8. ASSUME \/ \E r \in Runs, k \in RunKeys \cup {None}, id \in Identities,
                   parent \in Runs \cup {None} : CreateRun(r, k, id, parent)
             \/ \E r \in Runs, target \in RunStatuses : MarkRunStatus(r, target)
             \/ \E s \in Steps, k \in ReceiptKeys, p \in Payloads : RecordReceipt(s, k, p)
             \/ \E s \in Steps, w \in Workers : Heartbeat(s, w)
             \/ Tick
             \/ UNCHANGED vars
      PROVE  UNCHANGED <<AbstractOutcome, attempts>>
  BY <1>8 DEF CreateRun, MarkRunStatus, RecordReceipt, Heartbeat, Tick, vars, stepVars,
              AbstractOutcome
<1> QED
  BY <1>1, <1>2, <1>3, <1>4, <1>5, <1>6, <1>7, <1>8, NextCases DEF StepPromise!Next

\* The journal keeps the promise of StepOutcome for every set of steps, workers
\* and keys.
THEOREM JournalImplementsStepOutcome == Spec => KeepsStepPromise
<1>1. Init => StepPromise!Init
  BY Outcomes DEF Init, StepPromise!Init
<1>2. ASSUME TypeOK, [Next]_vars PROVE [StepPromise!Next]_(StepPromise!vars)
  BY <1>2, StepMaps DEF StepPromise!vars, AbstractOutcome
<1> QED BY <1>1, <1>2, TypeCorrect, PTL DEF Spec, KeepsStepPromise, StepPromise!Spec

=============================================================================
