------------------------------ MODULE Ensemble ------------------------------
(***************************************************************************)
(* One fan-out run of EnsembleResearchEngine under the service that        *)
(* schedules it: worker children that run side by side in a TaskGroup,     *)
(* then the verifier and synthesizer stages, then seven artifacts.  The    *)
(* daemon may die at any moment and is started again, operators cancel and *)
(* resume the fan-out, and decide on and resume a worker's child run by    *)
(* itself ("solo").                                                        *)
(*                                                                         *)
(* An action is one transaction, or several that no other task can see     *)
(* apart, with the code around them.  A task that is not awaiting holds    *)
(* the event loop: only a crash or the passing of time comes between its   *)
(* transactions.  A child's conversation is what AgentRuntime makes of it: *)
(* provider calls, each a durable step, and one tool that needs approval.  *)
(***************************************************************************)
EXTENDS Integers, FiniteSets, Functions

CONSTANTS
  Workers,       \* ids of the workers
  CallLimit,     \* call_limit of the requested budget
  MaxWorkers,    \* workers that run at the same time
  MaxCrashes,    \* bound: daemons that die
  MaxTroubles    \* bound: provider failures, suspensions of the machine, operators' requests

Stages == {"verifier", "synthesizer"}
Units  == Workers \cup Stages
Slots  == Cardinality(Workers) + 2

ASSUME WorkersAssumption == IsFiniteSet(Workers) /\ Workers # {} /\ Workers \cap Stages = {}

\* create_run refuses less.
ASSUME BudgetAssumption ==
  CallLimit \in Nat /\ CallLimit >= Slots

ASSUME EnsembleBounds ==
  MaxWorkers \in Nat \ {0} /\ MaxCrashes \in Nat /\ MaxTroubles \in Nat

\* Tasks: a worker inside the fan-out, a worker's child run by itself, a stage.
Group == Workers \X {"fan-out"}
Solo  == Workers \X {"solo"}
Tasks == Group \cup Solo \cup (Stages \X {"stage"})

Outputs == 7   \* six artifacts and manifest.json
CostAt  == 6   \* cost.json

VARIABLES
  parent,    \* status of the parent run
  children,  \* workers whose child run was created
  child,     \* status of each child run
  last,      \* what a child's last committed completion asks for
  approval,  \* a child's request for approval
  step,      \* the current model step of a child, or the step of a stage; "held": claimed,
             \* by a living task or not, "lapsed": its lease ran out
  holder,    \* who claimed the step: lease_owner
  reserved,  \* reservation budget_<step>
  spent,     \* calls the child's ledger counts or holds
  calls,     \* provider calls recorded
  result,    \* workers with a worker-result.json
  written,   \* artifacts of the parent
  billed,    \* number of calls in cost.json
  main,      \* where the parent's task is
  place,     \* where the other tasks are
  crashes,
  troubles

runVars  == <<parent, children, child, last, approval>>
stepVars == <<step, holder, reserved, spent, calls>>
outVars  == <<result, written, billed>>
taskVars == <<main, place>>
faultVars == <<crashes, troubles>>
vars == <<runVars, stepVars, outVars, taskVars, faultVars>>

Idle == [t \in Tasks |-> "none"]
Live == {"created", "running", "paused"}
Ended == {"completed", "failed", "cancelled"}

Init ==
  /\ parent = "absent"
  /\ children = {}
  /\ child = [w \in Workers |-> "absent"]
  /\ last = [w \in Workers |-> "none"]
  /\ approval = [w \in Workers |-> "none"]
  /\ step = [u \in Units |-> "none"]
  /\ holder = [u \in Units |-> "none"]
  /\ reserved = [u \in Units |-> "none"]
  /\ spent = [w \in Workers |-> 0]
  /\ calls = [u \in Units |-> 0]
  /\ result = {}
  /\ written = 0
  /\ billed = 0
  /\ main = "down"
  /\ place = Idle
  /\ crashes = 0
  /\ troubles = 0

\* Places of a task that holds the event loop.
Holding == {"looping", "claimed", "settled", "returned"}
LoopFree ==
  /\ main \notin {"down", "submitting", "outputs"}
  /\ \A t \in Tasks : place[t] \notin Holding

Trouble == troubles < MaxTroubles /\ troubles' = troubles + 1 /\ UNCHANGED crashes

Put(t, where) == place' = [place EXCEPT ![t] = where]

----------------------------------------------------------------------------
(***************************************************************************)
(* Budget: a slot for each worker and each stage.  The service configures  *)
(* no further cap for workers.                                             *)
(***************************************************************************)
\* _allocate_budget
Allowance == CallLimit \div Slots

TotalCalls == SumFunction(calls)

----------------------------------------------------------------------------
(***************************************************************************)
(* The service: submission, startup, operators' requests.                  *)
(***************************************************************************)
\* create_run is several transactions: the parent, then each child.
Submit ==
  /\ parent = "absent" /\ main = "none"
  /\ parent' = "created" /\ main' = "submitting"
  /\ UNCHANGED <<children, child, last, approval, stepVars, outVars, place, faultVars>>

CreateChild(w) ==
  /\ main = "submitting" /\ w \notin children
  /\ children' = children \cup {w}
  /\ child' = [child EXCEPT ![w] = "created"]
  /\ UNCHANGED <<parent, last, approval, stepVars, outVars, taskVars, faultVars>>

Submitted ==
  /\ main = "submitting" /\ children = Workers
  /\ main' = "scheduled"
  /\ UNCHANGED <<runVars, stepVars, outVars, place, faultVars>>

\* Mutant: the lease stays in the row of a committed step, and nothing else is looked at.
ReclaimedByLease == [u \in Units |-> IF step[u] \in {"lapsed", "committed"} THEN "ready" ELSE step[u]]

\* reclaim_expired_leases, for steps that are READ_ONLY.
Reclaimed == [u \in Units |-> IF step[u] = "lapsed" THEN "ready" ELSE step[u]]

\* A child is never scheduled by itself; a held step of a child is not looked at.
Startup ==
  /\ main = "down"
  /\ step' = Reclaimed
  /\ main' = IF /\ parent \in {"created", "running"}
                /\ \A s \in Stages : Reclaimed[s] # "held"
             THEN "scheduled" ELSE "none"
  /\ UNCHANGED <<runVars, holder, reserved, spent, calls, outVars, place, faultVars>>

\* resume of the fan-out: it looks at statuses only.
Resume ==
  /\ LoopFree /\ main = "none" /\ parent \in Live
  /\ main' = "scheduled"
  /\ UNCHANGED <<runVars, stepVars, outVars, place, faultVars>>

\* resume of a worker's child: _tasks knows nothing of the fan-out's task for it.
ResumeChild(w) ==
  /\ LoopFree /\ Trouble
  /\ child[w] \in Live /\ place[<<w, "solo">>] = "none"
  /\ Put(<<w, "solo">>, "scheduled")
  /\ UNCHANGED <<runVars, stepVars, outVars, main>>

\* decide_approval schedules the child by itself.
Decide(w, verdict) ==
  /\ LoopFree /\ Trouble /\ approval[w] = "pending"
  /\ approval' = [approval EXCEPT ![w] = verdict]
  /\ IF child[w] \in Live /\ place[<<w, "solo">>] = "none"
     THEN Put(<<w, "solo">>, "scheduled") ELSE UNCHANGED place
  /\ UNCHANGED <<parent, children, child, last, stepVars, outVars, main>>

----------------------------------------------------------------------------
(***************************************************************************)
(* How tasks end.                                                          *)
(***************************************************************************)
FailsParent == parent' = "failed" /\ main' = "none"

\* The first failure in a TaskGroup cancels its other tasks.  One that awaits the end of its
\* heartbeat swallows the cancellation and goes on; a step that was awaited stays held.
Aborted(t) ==
  [p \in Tasks |-> IF p \in Group /\ (p = t \/ place[p] \in {"scheduled", "calling"})
                   THEN "none" ELSE place[p]]

GroupFails(t) ==
  /\ place' = IF main = "workers" THEN Aborted(t) ELSE [place EXCEPT ![t] = "none"]
  /\ main' = "aborting"

\* A worker's task ends without completing the child: a child that has not ended gets the
\* given status, and the fan-out, when the task is one of its own, fails.
Leaves(t, status) ==
  /\ child' = [child EXCEPT ![t[1]] = IF @ \in Ended THEN @ ELSE status]
  /\ IF t \in Group THEN GroupFails(t) ELSE Put(t, "none") /\ UNCHANGED main
  /\ UNCHANGED parent

\* An exception that nobody handles: the service fails the run it scheduled, which is the
\* child only when it runs by itself.
Raises(t) ==
  IF t[2] = "stage"
  THEN FailsParent /\ Put(t, "none") /\ UNCHANGED child
  ELSE Leaves(t, IF t \in Solo THEN "failed" ELSE child[t[1]])

----------------------------------------------------------------------------
(***************************************************************************)
(* The engine's execute and _execute_worker.                               *)
(***************************************************************************)
Execute ==
  /\ LoopFree /\ main = "scheduled"
  /\ step' = Reclaimed
  /\ IF children # Workers
     THEN FailsParent /\ UNCHANGED place
     ELSE /\ parent' = "running" /\ main' = "workers"
          /\ place' = [t \in Tasks |-> IF t \in Group THEN "scheduled" ELSE place[t]]
  /\ UNCHANGED <<children, child, last, approval, holder, reserved, spent, calls, outVars,
                 faultVars>>

\* AgentRuntime.execute up to its loop.
Enter(t) ==
  LET w == t[1] IN
  /\ step' = IF child[w] \in Ended THEN step ELSE Reclaimed
  /\ CASE child[w] \in Ended -> /\ Put(t, IF t \in Group THEN "returned" ELSE "none")
                                /\ UNCHANGED <<parent, child, main>>
       [] child[w] \in Live /\ approval[w] = "pending"  -> Leaves(t, "paused")
       [] child[w] \in Live /\ approval[w] = "rejected" -> Leaves(t, "cancelled")
       [] OTHER -> /\ child' = [child EXCEPT ![w] = "running"]
                   /\ Put(t, "looping") /\ UNCHANGED <<parent, main>>
  /\ UNCHANGED <<holder, reserved, spent, calls>>

SemaphoreFree ==
  Cardinality({t \in Group : place[t] \notin {"none", "scheduled", "done"}}) < MaxWorkers

\* Mutant: a completed child is taken for one whose result is recorded.
ReusableByStatus(w) == child[w] = "completed"

Reusable(w) == child[w] = "completed" /\ w \in result
Refused(w)  == child[w] \in {"failed", "cancelled"} \/ step[w] \in {"held", "lapsed"}

\* A worker that ended badly, or whose step somebody holds, fails the fan-out.
Begin(w) ==
  LET t == <<w, "fan-out">> IN
  /\ LoopFree /\ place[t] = "scheduled" /\ SemaphoreFree
  /\ CASE Reusable(w) -> Put(t, "done") /\ UNCHANGED <<parent, child, stepVars, main>>
       [] ~Reusable(w) /\ Refused(w) -> GroupFails(t) /\ UNCHANGED <<parent, child, stepVars>>
       [] OTHER -> Enter(t)
  /\ UNCHANGED <<children, last, approval, outVars, faultVars>>

BeginSolo(w) ==
  /\ LoopFree /\ place[<<w, "solo">>] = "scheduled"
  /\ Enter(<<w, "solo">>)
  /\ UNCHANGED <<children, last, approval, outVars, faultVars>>

\* What the runtime does about the last committed completion, other than a model step.
Continue(t) ==
  LET w == t[1] IN
  /\ t \in Group \cup Solo /\ place[t] = "looping"
  /\ \/ /\ last[w] = "final"
        /\ IF child[w] \in {"failed", "cancelled"}  \* by another task
           THEN Raises(t)
           ELSE /\ child' = [child EXCEPT ![w] = "completed"]
                /\ Put(t, IF t \in Group THEN "returned" ELSE "none")
                /\ UNCHANGED <<parent, main>>
        /\ UNCHANGED <<last, approval>>
     \/ /\ last[w] = "gated" /\ approval[w] \in {"pending", "rejected"}
        /\ Leaves(t, IF approval[w] = "pending" THEN "paused" ELSE "cancelled")
        /\ UNCHANGED <<last, approval>>
     \/ /\ last[w] = "gated" /\ approval[w] = "none"
        /\ approval' = [approval EXCEPT ![w] = "pending"]
        /\ Leaves(t, "paused") /\ UNCHANGED last
     \/ /\ last[w] = "gated" /\ approval[w] = "approved"  \* the tool runs
        /\ last' = [last EXCEPT ![w] = "more"]
        /\ UNCHANGED <<parent, child, approval, taskVars>>
  /\ UNCHANGED <<children, stepVars, outVars, faultVars>>

Within(w) == calls[w] <= Allowance

\* The end of _execute_worker: checks, and the worker's result.
Collect(w) ==
  LET t == <<w, "fan-out">> IN
  /\ place[t] = "returned"
  /\ IF child[w] = "completed" /\ Within(w)
     THEN result' = result \cup {w} /\ Put(t, "done") /\ UNCHANGED main
     ELSE GroupFails(t) /\ UNCHANGED result
  /\ UNCHANGED <<runVars, stepVars, written, billed, faultVars>>

\* Mutants: one task is enough; a task that was cancelled is waited for.
GroupOverEarly == \E t \in Group : place[t] = "done"
GroupOverDone  == \A t \in Group : place[t] = "done"

GroupOver == \A t \in Group : place[t] \in {"none", "done"}

\* The TaskGroup ends when all its tasks did.
GroupEnds ==
  /\ LoopFree /\ main \in {"workers", "aborting", "cancelling"} /\ GroupOver
  /\ CASE main = "workers"    -> main' = "verifier" /\ UNCHANGED parent
       [] main = "aborting"   -> FailsParent
       [] main = "cancelling" -> parent' = "cancelled" /\ main' = "none"
  /\ place' = [t \in Tasks |-> IF place[t] = "done" THEN "none"
                               ELSE IF t = <<main', "stage">> THEN "looping" ELSE place[t]]
  /\ UNCHANGED <<children, child, last, approval, stepVars, outVars, faultVars>>

----------------------------------------------------------------------------
(***************************************************************************)
(* A durable provider step, of a child (_execute_model) or of a stage      *)
(* (_durable_provider_step).                                               *)
(***************************************************************************)
Owns(t) == step[t[1]] = "held" /\ holder[t[1]] = t[2]

NeedsModel(t) ==
  IF t[2] = "stage" THEN step[t[1]] # "committed" ELSE last[t[1]] \in {"none", "more"}

\* A step that somebody holds: a stage gives up, the runtime asks again and never awaits.
Claim(t) ==
  LET u == t[1] IN
  /\ place[t] = "looping" /\ NeedsModel(t)
  /\ \/ /\ step[u] \in {"none", "ready"}
        /\ step' = [step EXCEPT ![u] = "held"] /\ holder' = [holder EXCEPT ![u] = t[2]]
        /\ Put(t, "claimed") /\ UNCHANGED <<parent, main>>
     \/ /\ step[u] \notin {"none", "ready"} /\ t[2] = "stage"
        /\ FailsParent /\ Put(t, "none") /\ UNCHANGED <<step, holder>>
  /\ UNCHANGED <<children, child, last, approval, reserved, spent, calls, outVars, faultVars>>

Spins == \E t \in Group \cup Solo :
           place[t] = "looping" /\ NeedsModel(t) /\ step[t[1]] \in {"held", "lapsed"}

\* The runtime reserves once for a step; a stage counts its calls.
Exhausted(t) ==
  LET u == t[1] IN
  IF t[2] = "stage" THEN calls[u] >= Allowance
  ELSE reserved[u] = "none" /\ spent[u] >= Allowance

\* The outcome of a step other than its completion: a stage ends, a child tries anew.
Dropped(t) == step' = [step EXCEPT ![t[1]] = IF t[2] = "stage" THEN "failed" ELSE "none"]

Call(t) ==
  LET u == t[1] IN
  /\ place[t] = "claimed"
  /\ IF Exhausted(t)
     THEN /\ Dropped(t)
          /\ IF t[2] = "stage" THEN Raises(t) ELSE Leaves(t, "failed")
          /\ UNCHANGED <<reserved, spent, calls>>
     ELSE /\ reserved' = [reserved EXCEPT ![u] = IF @ = "none" THEN "held" ELSE @]
          /\ spent' = IF u \in Workers /\ reserved[u] = "none"
                      THEN [spent EXCEPT ![u] = @ + 1] ELSE spent
          /\ calls' = [calls EXCEPT ![u] = @ + 1]
          /\ Put(t, "calling") /\ UNCHANGED <<step, parent, child, main>>
  /\ UNCHANGED <<children, last, approval, holder, outVars, faultVars>>

\* complete_provider_call and settle_budget.  A reservation settled before a crash is settled
\* again with the same usage and refuses any other.
Answer(t) ==
  /\ LoopFree /\ place[t] = "calling"
  /\ \/ /\ Owns(t)
        /\ reserved' = [reserved EXCEPT ![t[1]] = "settled"]
        /\ Put(t, "settled") /\ UNCHANGED <<parent, child, main>>
     \/ /\ ~Owns(t) \/ reserved[t[1]] = "settled"
        /\ Raises(t) /\ UNCHANGED reserved
  /\ UNCHANGED <<children, last, approval, step, holder, spent, calls, outVars, faultVars>>

ProviderFails(t) ==
  /\ LoopFree /\ Trouble /\ place[t] = "calling"
  /\ IF Owns(t) /\ (t[2] = "stage" \/ reserved[t[1]] # "settled")
     THEN /\ Dropped(t)
          /\ reserved' = [reserved EXCEPT ![t[1]] = "none"]
          /\ IF t[2] = "stage" THEN Raises(t)
             ELSE Put(t, "exiting") /\ UNCHANGED <<parent, child, main>>
     ELSE Raises(t) /\ UNCHANGED <<step, reserved>>
  /\ UNCHANGED <<children, last, approval, holder, spent, calls, outVars>>

\* What a completion may ask a child for: one tool needs approval.
Asks(w) == {"final", "more"} \cup (IF approval[w] = "none" THEN {"gated"} ELSE {})

Commit(t) ==
  LET u == t[1] IN
  /\ place[t] = "settled"
  /\ step' = [step EXCEPT ![u] = IF t[2] = "stage" THEN "committed" ELSE "none"]
  /\ reserved' = [reserved EXCEPT ![u] = "none"]
  /\ IF t[2] = "stage" THEN UNCHANGED last
     ELSE \E what \in Asks(u) : last' = [last EXCEPT ![u] = what]
  /\ Put(t, "exiting")
  /\ UNCHANGED <<parent, children, child, approval, holder, spent, calls, outVars, main,
                 faultVars>>

\* The heartbeat has ended.
Exit(t) ==
  /\ LoopFree /\ place[t] = "exiting"
  /\ Put(t, "looping")
  /\ UNCHANGED <<runVars, stepVars, outVars, main, faultVars>>

----------------------------------------------------------------------------
(***************************************************************************)
(* Stages and outputs.                                                     *)
(***************************************************************************)
\* A committed stage is reused.  What it answered may be unusable.
StageDone(s) ==
  LET t == <<s, "stage">> IN
  /\ place[t] = "looping" /\ step[s] = "committed"
  /\ \/ /\ main' = IF s = "verifier" THEN "synthesizer" ELSE "outputs"
        /\ place' = [p \in Tasks |-> IF p = t THEN "none"
                                     ELSE IF p = <<main', "stage">> THEN "looping" ELSE place[p]]
        /\ UNCHANGED <<parent, faultVars>>
     \/ Trouble /\ FailsParent /\ Put(t, "none")
  /\ UNCHANGED <<children, child, last, approval, stepVars, outVars>>

\* _write_outputs: an artifact that exists must be the same; what may differ is the cost.
Write ==
  /\ main = "outputs"
  /\ IF TotalCalls > CallLimit \/ (written >= CostAt /\ billed # TotalCalls)
     THEN FailsParent /\ UNCHANGED <<written, billed>>
     ELSE IF written < Outputs
     THEN /\ written' = written + 1
          /\ billed' = IF written' = CostAt THEN TotalCalls ELSE billed
          /\ UNCHANGED <<parent, main>>
     ELSE parent' = "completed" /\ main' = "none" /\ UNCHANGED <<written, billed>>
  /\ UNCHANGED <<children, child, last, approval, stepVars, result, place, faultVars>>

----------------------------------------------------------------------------
(***************************************************************************)
(* Cancellation, time and crashes.                                         *)
(***************************************************************************)
\* task.cancel() reaches the fan-out's task where it awaits.
Cancel ==
  /\ LoopFree /\ Trouble /\ parent \in Live
  /\ CASE main \in {"none", "scheduled"} ->
            parent' = "cancelled" /\ main' = "none" /\ UNCHANGED place
       [] main = "workers" ->
            main' = "cancelling" /\ place' = Aborted(<<"none", "none">>) /\ UNCHANGED parent
       [] main \in Stages /\ place[<<main, "stage">>] = "calling" ->
            parent' = "cancelled" /\ main' = "none" /\ Put(<<main, "stage">>, "none")
       [] OTHER -> UNCHANGED <<parent, taskVars>>
  /\ UNCHANGED <<children, child, last, approval, stepVars, outVars>>

Living(u) ==
  \E t \in Tasks : t[1] = u /\ Owns(t) /\ place[t] \in {"claimed", "calling", "settled"}

Expire(u) ==
  /\ step[u] = "held"
  /\ step' = [step EXCEPT ![u] = "lapsed"]
  /\ UNCHANGED <<runVars, holder, reserved, spent, calls, outVars, taskVars>>

Lapse(u)   == ~Living(u) /\ Expire(u) /\ UNCHANGED faultVars
Suspend(u) == LoopFree /\ Living(u) /\ Trouble /\ Expire(u)

Crash ==
  /\ main # "down" /\ crashes < MaxCrashes
  /\ crashes' = crashes + 1
  /\ main' = "down" /\ place' = Idle
  /\ UNCHANGED <<runVars, stepVars, outVars, troubles>>

----------------------------------------------------------------------------
Progress ==
  \/ Startup \/ Submitted \/ Resume \/ Execute \/ GroupEnds \/ Write
  \/ \E w \in Workers : CreateChild(w) \/ Begin(w) \/ BeginSolo(w) \/ Collect(w)
  \/ \E t \in Tasks : Continue(t) \/ Claim(t) \/ Call(t) \/ Answer(t) \/ Commit(t) \/ Exit(t)
  \/ \E s \in Stages : StageDone(s)
  \/ \E u \in Units : Lapse(u)

Next ==
  \/ Progress \/ Submit \/ Cancel \/ Crash
  \/ \E w \in Workers : ResumeChild(w) \/ \E v \in {"approved", "rejected"} : Decide(w, v)
  \/ \E t \in Tasks : ProviderFails(t)
  \/ \E u \in Units : Suspend(u)

Spec == Init /\ [][Next]_vars
FairSpec == Spec /\ WF_vars(Progress)

----------------------------------------------------------------------------
(***************************************************************************)
(* Properties.                                                             *)
(***************************************************************************)
TypeOK ==
  /\ parent \in {"absent", "created", "running"} \cup Ended
  /\ children \subseteq Workers /\ result \subseteq Workers
  /\ child \in [Workers -> {"absent"} \cup Live \cup Ended]
  /\ last \in [Workers -> {"none", "more", "gated", "final"}]
  /\ approval \in [Workers -> {"none", "pending", "approved", "rejected"}]
  /\ step \in [Units -> {"none", "ready", "held", "lapsed", "failed", "committed"}]
  /\ holder \in [Units -> {"none", "fan-out", "solo", "stage"}]
  /\ reserved \in [Units -> {"none", "held", "settled"}]
  /\ spent \in [Workers -> Nat] /\ calls \in [Units -> Nat]
  /\ written \in 0 .. Outputs /\ billed \in Nat
  /\ main \in {"down", "none", "submitting", "scheduled", "workers", "aborting", "cancelling",
               "outputs"} \cup Stages
  /\ place \in [Tasks -> {"none", "scheduled", "exiting", "calling", "done"} \cup Holding]
  /\ crashes \in 0 .. MaxCrashes /\ troubles \in 0 .. MaxTroubles

\* A completed fan-out is whole, however often it was interrupted: every worker has completed
\* and its result is recorded, both stages are committed, all artifacts are there.
CompletedIsWhole ==
  parent = "completed" =>
    /\ children = Workers /\ result = Workers /\ written = Outputs
    /\ \A w \in Workers : child[w] = "completed"
    /\ \A s \in Stages : step[s] = "committed"

\* cost.json tells the calls that were made, those before a crash included.
CostIsHonest == written >= CostAt => billed = TotalCalls

\* When a fan-out has ended none of its own tasks works on, one that swallowed its
\* cancellation included.
NobodyWorksForEnded ==
  parent \in Ended => \A t \in Tasks \ Solo : place[t] = "none"

\* A fan-out ends, whatever crashes, unless a worker's child that somebody resumed meanwhile
\* spins on a held step.
FanoutEnds == parent = "created" ~> (parent \in Ended \/ Spins)

\* A fan-out fails only because a worker or a stage failed, was stopped or overran, because a
\* retry was answered otherwise than before, or its creation was cut short.
FailsForCause ==
  parent = "failed" =>
    \/ children # Workers
    \/ \E w \in Workers : child[w] \in {"failed", "cancelled"} \/ approval[w] # "none"
    \/ \E u \in Units : step[u] = "failed" \/ calls[u] > Allowance \/ reserved[u] = "settled"
    \/ troubles > 0
=============================================================================
