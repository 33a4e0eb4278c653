------------------------------ MODULE Journal ------------------------------
(***************************************************************************)
(* The durable execution journal: runs, steps, leases and receipts.        *)
(*                                                                         *)
(* Every operation of the class Journal is one BEGIN IMMEDIATE transaction *)
(* of SQLite, so each is one atomic action here.  A call that raises       *)
(* (ownership, expired lease, illegal transition, conflict) rolls its      *)
(* transaction back and is a stuttering step: only the successful outcome  *)
(* of a call appears as an action.  The environment is as hostile as the   *)
(* API allows: any worker name calls any operation on any step at any      *)
(* time, and time passes between any two calls.                            *)
(***************************************************************************)
EXTENDS Integers

CONSTANTS
  Runs, Steps,      \* identities of run rows and of (deterministic) step rows
  Workers,          \* the worker_id strings that callers present
  ReceiptKeys,      \* idempotency keys of receipts
  Payloads,         \* receipt payloads, told apart only by equality
  RunKeys,          \* external keys of runs
  Identities,       \* the hashed (mode, request, config, budget) of create_run
  StepRun,          \* the run each step is created for
  Safety,           \* the safety class each step is created with
  Sequence,         \* the sequence number each step is created with
  LeaseSeconds,     \* lease_seconds that callers pass
  MaxTime,          \* bound on the clock, for TLC
  None              \* SQL NULL

SafetyClasses ==
  {"read_only", "idempotent", "reconcilable", "opaque_side_effect"}

ASSUME JournalAssumption ==
  /\ StepRun \in [Steps -> Runs]
  /\ Safety \in [Steps -> SafetyClasses]
  /\ Sequence \in [Steps -> Nat]
  /\ LeaseSeconds \in Nat \ {0}
  /\ MaxTime \in Nat
  /\ None \notin Runs \cup Steps \cup Workers \cup ReceiptKeys \cup RunKeys \cup Identities

VARIABLES
  runStatus,    \* runs.status; "absent" before the row exists
  runKey,       \* run_external_keys.external_key of the run
  runIdentity,  \* run_external_keys hashes of the run
  parentRun,    \* runs.parent_run_id
  stepStatus,   \* steps.status; "absent" before the row exists
  leaseOwner,   \* steps.lease_owner
  leaseExpires, \* steps.lease_expires_at; NoExpiry is NULL
  attempts,     \* steps.attempt_count
  receipts,     \* receipts by idempotency key: [step, payload]
  stepReceipt,  \* receipt_id in the step.committed event
  now           \* utc_now()

runVars  == <<runStatus, runKey, runIdentity, parentRun>>
stepVars == <<stepStatus, leaseOwner, leaseExpires, attempts, receipts, stepReceipt>>
vars     == <<runVars, stepVars, now>>

----------------------------------------------------------------------------
RunStatuses  == {"created", "running", "paused", "completed", "failed", "cancelled"}
StepStatuses == {"ready", "leased", "executing", "committed", "uncertain",
                 "failed", "cancelled"}

\* Mutant: a failed run may be started again.
FailedRunRestarts ==
  [ created   |-> {"running", "paused", "failed", "cancelled"},
    running   |-> {"paused", "completed", "failed", "cancelled"},
    paused    |-> {"running", "completed", "failed", "cancelled"},
    completed |-> {}, failed |-> {"running"}, cancelled |-> {} ]

\* _RUN_TRANSITIONS
RunTransitions ==
  [ created   |-> {"running", "paused", "failed", "cancelled"},
    running   |-> {"paused", "completed", "failed", "cancelled"},
    paused    |-> {"running", "completed", "failed", "cancelled"},
    completed |-> {}, failed |-> {}, cancelled |-> {} ]

TerminalRun  == {"completed", "failed", "cancelled"}
TerminalStep == {"committed", "failed", "cancelled"}
Held         == {"leased", "executing"}
Repeatable   == {"read_only", "idempotent"}

NoExpiry  == 0
NoReceipt == [step |-> None, payload |-> None]
Receipt   == [step : Steps, payload : Payloads]

RunExists(r)  == runStatus[r] # "absent"
StepExists(s) == stepStatus[s] # "absent"

----------------------------------------------------------------------------
Init ==
  /\ runStatus    = [r \in Runs |-> "absent"]
  /\ runKey       = [r \in Runs |-> None]
  /\ runIdentity  = [r \in Runs |-> None]
  /\ parentRun    = [r \in Runs |-> None]
  /\ stepStatus   = [s \in Steps |-> "absent"]
  /\ leaseOwner   = [s \in Steps |-> None]
  /\ leaseExpires = [s \in Steps |-> NoExpiry]
  /\ attempts     = [s \in Steps |-> 0]
  /\ receipts     = [k \in ReceiptKeys |-> NoReceipt]
  /\ stepReceipt  = [s \in Steps |-> None]
  /\ now          = 1

\* Runs already filed under external key k.
RunsWithKey(k) == {r \in Runs : k # None /\ runKey[r] = k}

\* create_run: an external key that already names a run answers with that run
\* (or raises a conflict when the identity differs) and inserts nothing.
CreateRun(r, k, id, parent) ==
  /\ ~RunExists(r)
  /\ RunsWithKey(k) = {}
  /\ parent = None \/ (parent \in Runs /\ RunExists(parent))
  /\ runStatus'   = [runStatus EXCEPT ![r] = "created"]
  /\ runKey'      = [runKey EXCEPT ![r] = k]
  /\ runIdentity' = [runIdentity EXCEPT ![r] = id]
  /\ parentRun'   = [parentRun EXCEPT ![r] = parent]
  /\ UNCHANGED <<stepVars, now>>

MarkRunStatus(r, target) ==
  /\ RunExists(r)
  /\ target \in RunTransitions[runStatus[r]]
  /\ runStatus' = [runStatus EXCEPT ![r] = target]
  /\ UNCHANGED <<runKey, runIdentity, parentRun, stepVars, now>>

\* create_step: INSERT OR IGNORE under the deterministic key.
CreateStep(s) ==
  /\ RunExists(StepRun[s])
  /\ ~StepExists(s)
  /\ stepStatus' = [stepStatus EXCEPT ![s] = "ready"]
  /\ UNCHANGED <<runVars, leaseOwner, leaseExpires, attempts, receipts, stepReceipt, now>>

\* Mutant: an uncertain step may be claimed like a ready one.
UncertainIsReady(scope) ==
  {s \in Steps : StepRun[s] \in scope /\ stepStatus[s] \in {"ready", "uncertain"}}

ReadySteps(scope) == {s \in Steps : StepRun[s] \in scope /\ stepStatus[s] = "ready"}

\* The steps ORDER BY sequence LIMIT 1 may return: ties fall to creation time.
FirstReady(scope) ==
  {s \in ReadySteps(scope) : \A t \in ReadySteps(scope) : Sequence[s] <= Sequence[t]}

\* claim_ready_step: scope is one run, or every run when run_id is None.
ClaimReadyStep(w, scope, s) ==
  /\ s \in FirstReady(scope)
  /\ stepStatus'   = [stepStatus EXCEPT ![s] = "leased"]
  /\ leaseOwner'   = [leaseOwner EXCEPT ![s] = w]
  /\ leaseExpires' = [leaseExpires EXCEPT ![s] = now + LeaseSeconds]
  /\ attempts'     = [attempts EXCEPT ![s] = @ + 1]
  /\ UNCHANGED <<runVars, receipts, stepReceipt, now>>

\* _check_owner_and_lease: a NULL expiry counts as expired.
OwnsLiveLease(s, w) == leaseOwner[s] = w /\ leaseExpires[s] > now

MarkExecuting(s, w) ==
  /\ stepStatus[s] = "leased"
  /\ OwnsLiveLease(s, w)
  /\ stepStatus' = [stepStatus EXCEPT ![s] = "executing"]
  /\ UNCHANGED <<runVars, leaseOwner, leaseExpires, attempts, receipts, stepReceipt, now>>

Heartbeat(s, w) ==
  /\ stepStatus[s] \in Held
  /\ OwnsLiveLease(s, w)
  /\ leaseExpires' = [leaseExpires EXCEPT ![s] = now + LeaseSeconds]
  /\ UNCHANGED <<runVars, stepStatus, leaseOwner, attempts, receipts, stepReceipt, now>>

\* _record_receipt_in_transaction: an existing receipt is accepted only when
\* it is the same one; a different one aborts the surrounding transaction.
ReceiptAccepted(s, k, p) == receipts[k] \in {NoReceipt, [step |-> s, payload |-> p]}

WriteReceipt(s, k, p) == receipts' = [receipts EXCEPT ![k] = [step |-> s, payload |-> p]]

\* The assignments with which a step leaves its lease.
Release(s, status) ==
  /\ stepStatus'   = [stepStatus EXCEPT ![s] = status]
  /\ leaseOwner'   = [leaseOwner EXCEPT ![s] = None]
  /\ leaseExpires' = [leaseExpires EXCEPT ![s] = NoExpiry]

\* commit_step: output, optional receipt and status in one transaction.
CommitStep(s, w, k, p) ==
  /\ stepStatus[s] = "executing"
  /\ OwnsLiveLease(s, w)
  /\ IF k = None
     THEN UNCHANGED <<receipts, stepReceipt>>
     ELSE /\ ReceiptAccepted(s, k, p)
          /\ WriteReceipt(s, k, p)
          /\ stepReceipt' = [stepReceipt EXCEPT ![s] = k]
  /\ Release(s, "committed")
  /\ UNCHANGED <<runVars, attempts, now>>

\* _finish_owned_step, shared by fail_step and mark_uncertain.
FinishOwnedStep(s, w, target) ==
  /\ stepStatus[s] \in Held
  /\ OwnsLiveLease(s, w)
  /\ Release(s, target)
  /\ UNCHANGED <<runVars, attempts, receipts, stepReceipt, now>>

FailStep(s, w)      == FinishOwnedStep(s, w, "failed")
MarkUncertain(s, w) == FinishOwnedStep(s, w, "uncertain")

\* cancel_step: a held step needs its owner (w = None when none is given).
CancelStep(s, w) ==
  /\ stepStatus[s] \in {"ready", "uncertain"} \cup Held
  /\ stepStatus[s] \in Held => w # None /\ OwnsLiveLease(s, w)
  /\ Release(s, "cancelled")
  /\ UNCHANGED <<runVars, attempts, receipts, stepReceipt, now>>

\* Mutant: every held step is taken for a crashed one.
HeldIsExpired == {s \in Steps : stepStatus[s] \in Held /\ leaseExpires[s] # NoExpiry}

ExpiredSteps ==
  {s \in Steps : /\ stepStatus[s] \in Held
                 /\ leaseExpires[s] # NoExpiry
                 /\ leaseExpires[s] <= now}

\* Mutant: every expired step is requeued.
AlwaysRequeue(s) == "ready"

RecoveryTarget(s) == IF Safety[s] \in Repeatable THEN "ready" ELSE "uncertain"

\* reclaim_expired_leases: every expired step, in one transaction.
ReclaimExpiredLeases ==
  LET expired == ExpiredSteps IN
  /\ expired # {}
  /\ stepStatus'   = [s \in Steps |-> IF s \in expired THEN RecoveryTarget(s) ELSE stepStatus[s]]
  /\ leaseOwner'   = [s \in Steps |-> IF s \in expired THEN None ELSE leaseOwner[s]]
  /\ leaseExpires' = [s \in Steps |-> IF s \in expired THEN NoExpiry ELSE leaseExpires[s]]
  /\ UNCHANGED <<runVars, attempts, receipts, stepReceipt, now>>

RecordReceipt(s, k, p) ==
  /\ StepExists(s)
  /\ ReceiptAccepted(s, k, p)
  /\ WriteReceipt(s, k, p)
  /\ UNCHANGED <<runVars, stepStatus, leaseOwner, leaseExpires, attempts, stepReceipt, now>>

Tick ==
  /\ now < MaxTime
  /\ now' = now + 1
  /\ UNCHANGED <<runVars, stepVars>>

----------------------------------------------------------------------------
RunOperation ==
  \E r \in Runs :
    \/ \E k \in RunKeys \cup {None}, id \in Identities, parent \in Runs \cup {None} :
         CreateRun(r, k, id, parent)
    \/ \E target \in RunStatuses : MarkRunStatus(r, target)

StepOperation ==
  \E s \in Steps :
    \/ CreateStep(s)
    \/ CancelStep(s, None)
    \/ \E k \in ReceiptKeys, p \in Payloads : RecordReceipt(s, k, p)
    \/ \E w \in Workers :
         \/ ClaimReadyStep(w, {StepRun[s]}, s)
         \/ ClaimReadyStep(w, Runs, s)
         \/ MarkExecuting(s, w)
         \/ Heartbeat(s, w)
         \/ \E k \in ReceiptKeys \cup {None}, p \in Payloads : CommitStep(s, w, k, p)
         \/ FailStep(s, w)
         \/ MarkUncertain(s, w)
         \/ CancelStep(s, w)

Next == RunOperation \/ StepOperation \/ ReclaimExpiredLeases \/ Tick

Spec == Init /\ [][Next]_vars

----------------------------------------------------------------------------
(***************************************************************************)
(* Properties.                                                             *)
(***************************************************************************)

\* Every column holds a value of its type.
TypeOK ==
  /\ runStatus    \in [Runs -> RunStatuses \cup {"absent"}]
  /\ runKey       \in [Runs -> RunKeys \cup {None}]
  /\ runIdentity  \in [Runs -> Identities \cup {None}]
  /\ parentRun    \in [Runs -> Runs \cup {None}]
  /\ stepStatus   \in [Steps -> StepStatuses \cup {"absent"}]
  /\ leaseOwner   \in [Steps -> Workers \cup {None}]
  /\ leaseExpires \in [Steps -> Nat]
  /\ attempts     \in [Steps -> Nat]
  /\ receipts     \in [ReceiptKeys -> Receipt \cup {NoReceipt}]
  /\ stepReceipt  \in [Steps -> ReceiptKeys \cup {None}]
  /\ now          \in Nat \ {0}

\* A step has an owner and an expiry exactly while it is leased or executing,
\* so no owner keeps a right to a step that was settled or requeued.
LeaseCoherent ==
  \A s \in Steps :
    /\ stepStatus[s] \in Held => leaseOwner[s] # None /\ leaseExpires[s] # NoExpiry
    /\ stepStatus[s] \notin Held => leaseOwner[s] = None /\ leaseExpires[s] = NoExpiry

\* A step whose effect may not be repeated is handed to a worker at most once
\* in its life, whatever expires, crashes or is cancelled: after a claim it is
\* never "ready" again (reclaim_expired_leases sends it to "uncertain").
UnsafeStepClaimedOnce ==
  \A s \in Steps : Safety[s] \notin Repeatable => attempts[s] <= 1

\* An external key names at most one run: a redelivered request never creates
\* a second run (create_run looks the key up in the inserting transaction).
OneRunPerKey ==
  \A r1, r2 \in Runs : runKey[r1] # None /\ runKey[r1] = runKey[r2] => r1 = r2

\* The receipt a step committed with is stored and is that step's own: output
\* and evidence are committed together, and no later call replaces the evidence.
CommittedReceiptStands ==
  \A s \in Steps :
    stepReceipt[s] # None =>
      stepStatus[s] = "committed" /\ receipts[stepReceipt[s]].step = s

\* While a lease is live no other worker gets the step: the owner changes only
\* by the owner's own settlement, never by a reclaim or a second claim.
LiveLeaseStolen(s) ==
  /\ stepStatus[s] \in Held
  /\ leaseExpires[s] > now
  /\ leaseOwner'[s] # leaseOwner[s]
  /\ stepStatus'[s] \in {"ready", "leased", "executing"}

LiveLeaseRespected == [][\A s \in Steps : ~LiveLeaseStolen(s)]_vars

\* What is settled stays settled: terminal runs and steps never change status
\* and a receipt, once written, is never rewritten or removed.
SettledForever ==
  [][/\ \A r \in Runs : runStatus[r] \in TerminalRun => runStatus'[r] = runStatus[r]
     /\ \A s \in Steps : stepStatus[s] \in TerminalStep => stepStatus'[s] = stepStatus[s]
     /\ \A k \in ReceiptKeys : receipts[k] # NoReceipt => receipts'[k] = receipts[k]]_vars

----------------------------------------------------------------------------
\* A step as module StepOutcome sees it.
OutcomeOf(status) ==
  CASE status = "ready"     -> "open"
    [] status \in Held      -> "granted"
    [] status = "uncertain" -> "in_doubt"
    [] OTHER                -> status

StepPromise ==
  INSTANCE StepOutcome WITH
    Unsafe  <- {s \in Steps : Safety[s] \notin Repeatable},
    outcome <- [s \in Steps |-> OutcomeOf(stepStatus[s])],
    grants  <- attempts

\* The journal keeps the promise of StepOutcome: leases, reclaims and races of
\* workers never take a step anywhere that promise does not allow.
KeepsStepPromise == StepPromise!Spec
=============================================================================
