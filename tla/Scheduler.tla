----------------------------- MODULE Scheduler ------------------------------
(***************************************************************************)
(* The durable scheduler: jobs, their occurrences (rows of job_runs), the  *)
(* engine that claims and executes them, delivery of the result, and the   *)
(* service's operations on jobs.                                           *)
(*                                                                         *)
(* One daemon runs at a time; a life of the daemon is a number, and so is  *)
(* the owner name its engine draws.  Each action is one transaction of the *)
(* store with the code around it up to the next one, so that a crash can   *)
(* fall between any two of them.  A call that raises leaves the rows alone *)
(* and ends the task that made it, be it the ticker.  The clock is coarse: it tells which    *)
(* occurrences are due, and a lease runs out between any two of its ticks. *)
(* Agent runs are those of module AgentRuntime, seen from outside.         *)
(***************************************************************************)
EXTENDS Integers, FiniteSets

CONSTANTS
  Jobs,          \* job ids: numbers, for ORDER BY next_run_at, id
  Schedule,      \* kind, start, every, policy, count, grace and delivers of each job
  Batch,         \* occurrences one tick may claim
  StartupCap,    \* occurrences the first tick of a daemon may claim
  MaxTime,       \* bound: the clock
  MaxLives,      \* bound: daemons, one after the other
  MaxAttempts,   \* bound: attempts of one occurrence
  None

Occurrences == Jobs \X (0 .. MaxTime)                \* (job_id, scheduled_for)
Tasks       == Occurrences \X (1 .. MaxAttempts)     \* the _execute of an attempt
\* The agent run that a task submits is named by the task.

ASSUME SchedulerAssumption ==
  /\ Jobs \subseteq Nat
  /\ Schedule \in [Jobs -> [kind : {"once", "interval"}, start : Nat, every : Nat \ {0},
                            policy : {"skip", "fire_once", "bounded"}, count : 1 .. 10,
                            grace : Nat, delivers : BOOLEAN]]
  /\ {Batch, StartupCap, MaxLives, MaxAttempts} \subseteq Nat \ {0}
  /\ MaxTime \in Nat
  /\ None \notin Nat /\ None \notin Tasks

VARIABLES
  now,
  job,          \* jobs: state and next_run_at
  row,          \* job_runs
  agent,        \* status of the agent runs, in the journal
  outbox,       \* agent runs with a scheduler delivery in the channel outbox
  task,         \* where each _execute stands; "none" before it and after it
  delivering,   \* _deliver_run tasks: occurrence and where it stands
  up, fresh,    \* a daemon runs; it has not ticked yet
  ticking,      \* its ticker lives
  life          \* daemons so far, and the owner name of the current one

vars == <<now, job, row, agent, outbox, task, delivering, up, fresh, ticking, life>>

----------------------------------------------------------------------------
(***************************************************************************)
(* Schedules.                                                              *)
(***************************************************************************)
Instants(j) ==
  IF Schedule[j].kind = "once" THEN {Schedule[j].start}
  ELSE {Schedule[j].start + k * Schedule[j].every : k \in 0 .. MaxTime}

\* compute_next_run: the first instant after t.
NextRun(j, t) ==
  LET s == Schedule[j] IN
  IF s.kind = "once" THEN None
  ELSE IF t < s.start THEN s.start
  ELSE s.start + ((t - s.start) \div s.every + 1) * s.every

InitialRun(j) ==
  IF Schedule[j].kind = "once" \/ Schedule[j].start >= now THEN Schedule[j].start
  ELSE NextRun(j, now)

\* Mutant: the oldest n.
Oldest(n, instants) == {t \in instants : Cardinality({u \in instants : u < t}) < n}

\* The n latest instants of a set.
Latest(n, instants) == {t \in instants : Cardinality({u \in instants : u > t}) < n}

Due(j) == {t \in Instants(j) : job[j].next <= t /\ t <= now}

\* _due_occurrences of a job that is due.
DueOccurrences(j) ==
  LET s == Schedule[j] IN
  IF s.policy = "skip" /\ \A t \in Due(j) : now - t > s.grace THEN {}
  ELSE Latest(IF s.policy = "bounded" THEN s.count ELSE 1, Due(j))

DueJobs == {j \in Jobs : job[j].state = "scheduled" /\ job[j].next <= now}

\* ORDER BY next_run_at, id
Earlier(i, j) == job[i].next < job[j].next \/ (job[i].next = job[j].next /\ i < j)

\* What the jobs in front of j claim if there is room for all of it.
InFront(j) == UNION {{i} \X DueOccurrences(i) : i \in {i \in DueJobs : Earlier(i, j)}}

Room(limit, j) == limit - Cardinality(InFront(j))

\* claim_due_runs takes the due jobs in turn while there is room, and the last one may get
\* less than it is due: passed are the jobs it advances, claims the occurrences it inserts.
\* A due occurrence has no row yet (SchedulerProofs!Unmade), so that each insertion counts.
Sweep(limit) ==
  LET passed == {j \in DueJobs : Room(limit, j) > 0} IN
  [passed |-> passed,
   claims |-> UNION {{j} \X Latest(Room(limit, j), DueOccurrences(j)) : j \in passed}]

----------------------------------------------------------------------------
(***************************************************************************)
(* Rows.                                                                   *)
(***************************************************************************)
NoRow ==
  [status |-> "none", attempt |-> 0, owner |-> None, leased |-> FALSE, run |-> None,
   cancel |-> FALSE, delivery |-> "none"]

ActiveStatus == {"claimed", "running"}
Retryable    == {"failed", "interrupted", "cancelled"}
Active(o)    == row[o].status \in ActiveStatus

\* A row as its claim leaves it: leased to the daemon, everything else cleared.
Claimed(o, attempt) ==
  [status |-> "claimed", attempt |-> attempt, owner |-> life, leased |-> TRUE, run |-> None,
   cancel |-> FALSE,
   delivery |-> IF Schedule[o[1]].delivers THEN "pending" ELSE "not_requested"]

Suppressed(delivery) == IF delivery = "pending" THEN "suppressed" ELSE delivery

\* The row leaves the hands of its owner.
Released(r, status) ==
  [r EXCEPT !.status = status, !.owner = None, !.leased = FALSE,
            !.delivery = IF status = "cancelled" THEN Suppressed(@) ELSE @]

OwnsLease(o) == row[o].owner = life /\ row[o].leased

\* complete, after the engine chose the status: a request to cancel wins.
Outcome(r, succeeds) ==
  IF r.cancel THEN "cancelled" ELSE IF succeeds THEN "succeeded" ELSE "failed"

\* Mutant: the agent run is left as the row has it.
CompletedAsAttached(r, succeeds, run) == Released(r, Outcome(r, succeeds))

Completed(r, succeeds, run) == [Released(r, Outcome(r, succeeds)) EXCEPT !.run = run]

Pending(o) == row[o].status = "succeeded" /\ row[o].delivery = "pending"

Jobless   == UNCHANGED <<now, job, up, fresh, ticking, life>>
EndTask(o, k) == task' = [task EXCEPT ![<<o, k>>] = "none"]

Init ==
  /\ now = 0
  /\ job = [j \in Jobs |-> [state |-> "absent", next |-> None]]
  /\ row = [o \in Occurrences |-> NoRow]
  /\ agent = [t \in Tasks |-> "absent"]
  /\ outbox = {}
  /\ task = [t \in Tasks |-> "none"]
  /\ delivering = {}
  /\ up = FALSE /\ fresh = FALSE /\ ticking = FALSE /\ life = 0

----------------------------------------------------------------------------
(***************************************************************************)
(* Jobs: the handlers of the API.                                          *)
(***************************************************************************)
JobsOnly == UNCHANGED <<now, row, agent, outbox, task, delivering, up, fresh, ticking, life>>

CreateJob(j) ==
  /\ up /\ job[j].state = "absent"
  /\ job' = [job EXCEPT ![j] = [state |-> "scheduled", next |-> InitialRun(j)]]
  /\ JobsOnly

PauseJob(j) ==
  /\ up /\ job[j].state = "scheduled"
  /\ job' = [job EXCEPT ![j].state = "paused"]
  /\ JobsOnly

ResumeJob(j) ==
  /\ up /\ job[j].state = "paused"
  /\ job' = [job EXCEPT ![j] = [state |-> "scheduled",
                                next |-> IF @.next = None THEN InitialRun(j) ELSE @.next]]
  /\ JobsOnly

\* cancel_job flags what is active and suppresses what is not yet delivered.
CancelledRow(o) ==
  CASE Active(o)  -> [row[o] EXCEPT !.cancel = TRUE]
    [] Pending(o) -> [row[o] EXCEPT !.cancel = TRUE, !.delivery = "suppressed"]
    [] OTHER      -> row[o]

\* The service then cancels the agent runs of the flagged rows.
CancelJob(j) ==
  /\ up /\ job[j].state \notin {"absent", "cancelled"}
  /\ job' = [job EXCEPT ![j].state = IF @ = "completed" THEN @ ELSE "cancelled"]
  /\ row' = [o \in Occurrences |-> IF o[1] = j THEN CancelledRow(o) ELSE row[o]]
  /\ agent' = [t \in Tasks |->
                 IF /\ agent[t] = "active"
                    /\ \E o \in Occurrences : o[1] = j /\ Active(o) /\ row[o].run = t
                 THEN "cancelled" ELSE agent[t]]
  /\ UNCHANGED <<now, outbox, task, delivering, up, fresh, ticking, life>>

----------------------------------------------------------------------------
(***************************************************************************)
(* The ticker.                                                             *)
(***************************************************************************)
\* Mutant: only running rows are recovered.
RunningRecovered ==
  [o \in Occurrences |->
     IF row[o].status = "running" /\ ~row[o].leased
     THEN Released(row[o], "interrupted") ELSE row[o]]

\* recover_stale_runs.
Recovered ==
  [o \in Occurrences |->
     IF Active(o) /\ ~row[o].leased THEN Released(row[o], "interrupted") ELSE row[o]]

\* Mutant: delivery is left to the execution that succeeded.
SpawnedNone == delivering

\* Deliveries in flight, once every pending one that has no task has been given one.
Spawned ==
  delivering \cup {<<o, "queued">> : o \in {p \in Occurrences :
                                             Pending(p) /\ <<p, "enqueued">> \notin delivering}}

\* A tick from end to end.  What it claims is committed before the claimed rows are
\* read and their executions spawned.
RunTick(spawns) ==
  /\ up /\ ticking
  /\ LET limit == IF fresh /\ StartupCap < Batch THEN StartupCap ELSE Batch
         sweep == Sweep(limit)
         new   == {o \in sweep.claims : row[o].status = "none"}      \* INSERT OR IGNORE
     IN  /\ row' = [o \in Occurrences |-> IF o \in new THEN Claimed(o, 1) ELSE Recovered[o]]
         /\ task' = [t \in Tasks |->
                       IF spawns /\ t[1] \in new /\ t[2] = 1 THEN "claimed" ELSE task[t]]
         /\ job' = [j \in Jobs |->
                      IF j \notin sweep.passed THEN job[j]
                      ELSE [state |-> IF NextRun(j, now) = None THEN "completed" ELSE "scheduled",
                            next |-> NextRun(j, now)]]
  /\ delivering' = Spawned
  /\ fresh' = FALSE
  /\ UNCHANGED <<now, agent, outbox, up, life>>

Tick == RunTick(TRUE) /\ UNCHANGED ticking

\* A tick raises, before or after any of its transactions: nobody catches it, and the
\* ticker has ended for the rest of this daemon's life.
TickFails ==
  /\ up /\ ticking /\ ticking' = FALSE
  /\ \/ /\ row' \in {row, Recovered}
        /\ UNCHANGED <<now, job, agent, outbox, task, delivering, up, fresh, life>>
     \/ /\ row' = Recovered /\ delivering' = Spawned /\ fresh' = FALSE
        /\ UNCHANGED <<now, job, agent, outbox, task, up, life>>
     \/ RunTick(FALSE)

----------------------------------------------------------------------------
(***************************************************************************)
(* _execute of attempt k of occurrence o.                                  *)
(***************************************************************************)
At(o, k, pc) == task[<<o, k>>] = pc

\* The cancellation seen before the start: cancel does not ask for a live lease.
CancelClaimed(o, k) ==
  /\ At(o, k, "claimed") /\ row[o].cancel
  /\ row' = IF Active(o) /\ row[o].owner = life
            THEN [row EXCEPT ![o] = Released(@, "cancelled")] ELSE row
  /\ EndTask(o, k)
  /\ Jobless /\ UNCHANGED <<agent, outbox, delivering>>

\* mark_running; it raises unless the row is claimed and the lease is live.
MarkRunning(o, k) ==
  /\ At(o, k, "claimed") /\ ~row[o].cancel
  /\ IF row[o].status = "claimed" /\ OwnsLease(o)
     THEN /\ row' = [row EXCEPT ![o].status = "running"]
          /\ task' = [task EXCEPT ![<<o, k>>] = "running"]
     ELSE UNCHANGED row /\ EndTask(o, k)
  /\ Jobless /\ UNCHANGED <<agent, outbox, delivering>>

Submit(o, k) ==
  /\ At(o, k, "running")
  /\ agent' = [agent EXCEPT ![<<o, k>>] = "active"]
  /\ task' = [task EXCEPT ![<<o, k>>] = "submitted"]
  /\ Jobless /\ UNCHANGED <<row, outbox, delivering>>

\* complete of the row, whoever's attempt it is by now; it raises unless the row
\* is active under a live lease of this engine.
Complete(o, succeeds, run) ==
  row' = IF Active(o) /\ OwnsLease(o)
         THEN [row EXCEPT ![o] = Completed(@, succeeds, run)] ELSE row

\* submit raises: the request of the job is refused.
SubmitRefused(o, k) ==
  /\ At(o, k, "running")
  /\ Complete(o, FALSE, row[o].run)
  /\ EndTask(o, k)
  /\ Jobless /\ UNCHANGED <<agent, outbox, delivering>>

\* set_polaris_run_id asks for the owner and not for the lease.  When it raises,
\* complete raises too, and the agent run goes on with no row that names it.
Attach(o, k) ==
  /\ At(o, k, "submitted")
  /\ IF Active(o) /\ row[o].owner = life
     THEN /\ row' = [row EXCEPT ![o].run = <<o, k>>]
          /\ task' = [task EXCEPT ![<<o, k>>] = "waiting"]
     ELSE UNCHANGED row /\ EndTask(o, k)
  /\ Jobless /\ UNCHANGED <<agent, outbox, delivering>>

\* What _wait_scheduled waits for.
WaitOver(o, k) == row[o].cancel \/ agent[<<o, k>>] # "active"

\* _wait_scheduled ends, the row is completed, and a success is delivered unless
\* a delivery task has it already.
WaitEnds(o, k) ==
  /\ At(o, k, "waiting") /\ WaitOver(o, k)
  /\ agent' = [agent EXCEPT ![<<o, k>>] = IF @ = "active" THEN "cancelled" ELSE @]
  /\ Complete(o, agent[<<o, k>>] = "completed" /\ ~row[o].cancel, <<o, k>>)
  /\ EndTask(o, k)
  /\ delivering' = delivering \cup
       (IF Active(o) /\ row'[o].status = "succeeded" /\ row'[o].delivery = "pending"
        THEN {<<o, "queued">>} ELSE {})
  /\ Jobless /\ UNCHANGED outbox

\* Mutant: any occurrence that ended may run again.
RetryAny(o) ==
  /\ up /\ row[o].status \in Retryable \cup {"succeeded"} /\ row[o].attempt < MaxAttempts
  /\ row' = [row EXCEPT ![o] = Claimed(o, @.attempt + 1)]
  /\ task' = [task EXCEPT ![<<o, row[o].attempt + 1>>] = "claimed"]
  /\ Jobless /\ UNCHANGED <<agent, outbox, delivering>>

\* create_retry, explicitly approved, and the task of the new attempt.
Retry(o) ==
  /\ up /\ row[o].status \in Retryable /\ row[o].attempt < MaxAttempts
  /\ row' = [row EXCEPT ![o] = Claimed(o, @.attempt + 1)]
  /\ task' = [task EXCEPT ![<<o, row[o].attempt + 1>>] = "claimed"]
  /\ Jobless /\ UNCHANGED <<agent, outbox, delivering>>

----------------------------------------------------------------------------
(***************************************************************************)
(* _deliver_run: the engine and the harness share the event loop, so what  *)
(* is read and enqueued here is one step; a crash can precede the record.  *)
(***************************************************************************)
\* The task goes on, or ends for good when the next point is "none".
Delivery(o, from, to) ==
  /\ <<o, from>> \in delivering
  /\ delivering' = (delivering \ {<<o, from>>}) \cup (IF to = "none" THEN {} ELSE {<<o, to>>})
  /\ Jobless /\ UNCHANGED <<agent, task>>

\* Mutant: the row is not read again when the task gets its turn.
EnqueueUnread(o) ==
  /\ Delivery(o, "queued", "enqueued")
  /\ outbox' = outbox \cup {row[o].run}
  /\ UNCHANGED row

\* enqueue_delivery: the key names the agent run, a second message is the first.
Enqueue(o) ==
  /\ Pending(o) /\ ~row[o].cancel
  /\ Delivery(o, "queued", "enqueued")
  /\ outbox' = outbox \cup {row[o].run}
  /\ UNCHANGED row

\* The platform is off or the channel not allowed: the failure is recorded.
EnqueueRefused(o) ==
  /\ Pending(o) /\ ~row[o].cancel
  /\ Delivery(o, "queued", "none")
  /\ row' = [row EXCEPT ![o].delivery = "failed"]
  /\ UNCHANGED outbox

DeliverNothing(o) ==
  /\ ~Pending(o) \/ row[o].cancel
  /\ Delivery(o, "queued", "none")
  /\ row' = [row EXCEPT ![o].delivery = IF Pending(o) THEN "suppressed" ELSE @]
  /\ UNCHANGED outbox

\* record_delivery leaves a delivery alone that is no longer pending.
RecordDelivery(o) ==
  /\ Delivery(o, "enqueued", "none")
  /\ row' = [row EXCEPT ![o].delivery = IF Pending(o) THEN "succeeded" ELSE @]
  /\ UNCHANGED outbox

----------------------------------------------------------------------------
(***************************************************************************)
(* The daemon and what surrounds it.                                       *)
(***************************************************************************)
\* startup recovers before the first tick.
Start ==
  /\ ~up /\ life < MaxLives
  /\ up' = TRUE /\ fresh' = TRUE /\ ticking' = TRUE /\ life' = life + 1
  /\ row' = Recovered
  /\ UNCHANGED <<now, job, agent, outbox, task, delivering>>

\* The tasks die with the daemon, the rows and the agent runs do not.
Crash ==
  /\ up /\ life < MaxLives
  /\ up' = FALSE /\ fresh' = FALSE /\ ticking' = FALSE
  /\ task' = [t \in Tasks |-> "none"] /\ delivering' = {}
  /\ UNCHANGED <<now, job, row, agent, outbox, life>>

\* No heartbeat comes in time: the daemon is dead, suspended or behind.
LeaseLapses(o) ==
  /\ Active(o) /\ row[o].leased
  /\ row' = [row EXCEPT ![o].leased = FALSE]
  /\ Jobless /\ UNCHANGED <<agent, outbox, task, delivering>>

\* failed stands for cancelled too: the engine makes no difference.
AgentEnds(t, status) ==
  /\ agent[t] = "active"
  /\ agent' = [agent EXCEPT ![t] = status]
  /\ Jobless /\ UNCHANGED <<row, outbox, task, delivering>>

ClockAdvances ==
  /\ now < MaxTime /\ now' = now + 1
  /\ UNCHANGED <<job, row, agent, outbox, task, delivering, up, fresh, ticking, life>>

----------------------------------------------------------------------------
Execution(o, k) ==
  CancelClaimed(o, k) \/ MarkRunning(o, k) \/ Submit(o, k) \/ Attach(o, k) \/ WaitEnds(o, k)

Deliver(o) == Enqueue(o) \/ EnqueueRefused(o) \/ DeliverNothing(o) \/ RecordDelivery(o)

Next ==
  \/ \E j \in Jobs : CreateJob(j) \/ PauseJob(j) \/ ResumeJob(j) \/ CancelJob(j)
  \/ Tick \/ TickFails
  \/ \E o \in Occurrences, k \in 1 .. MaxAttempts : Execution(o, k) \/ SubmitRefused(o, k)
  \/ \E o \in Occurrences : Retry(o) \/ Deliver(o) \/ LeaseLapses(o)
  \/ \E t \in Tasks, status \in {"completed", "failed"} : AgentEnds(t, status)
  \/ Start \/ Crash \/ ClockAdvances

Spec == Init /\ [][Next]_vars

\* A task of the occurrence renews the lease.
Beating(o) ==
  up /\ \E k \in 1 .. MaxAttempts : task[<<o, k>>] \in {"running", "submitted", "waiting"}

(***************************************************************************)
(* Fairness.  The supervisor starts the daemon again, a ticker that lives  *)
(* ticks, the event loop runs every task that can go on, and the lease of  *)
(* a row that nothing renews runs out.  Agent runs owe no end, operators   *)
(* nothing, and nobody mends a ticker that has ended.                      *)
(***************************************************************************)
LiveSpec ==
  /\ Spec
  /\ WF_vars(Start) /\ WF_vars(Tick)
  /\ \A o \in Occurrences :
       /\ WF_vars(Deliver(o))
       /\ WF_vars(~Beating(o) /\ LeaseLapses(o))
       /\ \A k \in 1 .. MaxAttempts : WF_vars(Execution(o, k))

----------------------------------------------------------------------------
(***************************************************************************)
(* Properties.                                                             *)
(***************************************************************************)
Rows ==
  [status : {"none", "claimed", "running", "succeeded"} \cup Retryable,
   attempt : 0 .. MaxAttempts, owner : {None} \cup 1 .. MaxLives, leased : BOOLEAN,
   run : {None} \cup Tasks, cancel : BOOLEAN,
   delivery : {"none", "not_requested", "pending", "succeeded", "failed", "suppressed"}]

\* Every row, job and task holds a value of its type, and exactly the active
\* rows have an owner.
TypeOK ==
  /\ now \in 0 .. MaxTime
  /\ job \in [Jobs -> [state : {"absent", "scheduled", "paused", "completed", "cancelled"},
                       next : Nat \cup {None}]]
  /\ row \in [Occurrences -> Rows]
  /\ \A o \in Occurrences : Active(o) <=> row[o].owner # None
  /\ agent \in [Tasks -> {"absent", "active", "completed", "failed", "cancelled"}]
  /\ outbox \subseteq Tasks
  /\ task \in [Tasks -> {"none", "claimed", "running", "submitted", "waiting"}]
  /\ delivering \subseteq Occurrences \X {"queued", "enqueued"}
  /\ up \in BOOLEAN /\ fresh \in BOOLEAN /\ ticking \in BOOLEAN /\ life \in 0 .. MaxLives

\* A job moves past instants that fell due only when its latest one of them is
\* claimed: neither the batch, nor the cap at startup, nor a pause, a crash or
\* the clock between two ticks loses the occurrence that catching up owes.
Fired(j) ==
  /\ job[j].state # "absent" /\ job'[j].next # job[j].next
  => \E t \in Due(j) : (\A u \in Due(j) : u <= t) /\ row'[<<j, t>>].status = "claimed"
CatchUpFires == [][\A j \in Jobs : Schedule[j].policy # "skip" => Fired(j)]_vars

\* A successful occurrence names an agent run that completed: not the run that a
\* later or an earlier attempt submitted, whatever lapsed or was retried.  (docs/scheduler.md
\* says that an occurrence is marked successful once its run is created; see the README.)
SuccessNamesCompletedRun ==
  \A o \in Occurrences : row[o].status = "succeeded" =>
    row[o].run \in Tasks /\ agent[row[o].run] = "completed"

\* What the channel outbox delivers is the result that a successful occurrence
\* names, for ever after: no retry, recovery or stale task takes it back.
DeliveredIsRecorded ==
  \A t \in outbox : row[t[1]].status = "succeeded" /\ row[t[1]].run = t

\* Once cancellation of an attempt is requested it does not succeed, even when
\* its agent run completes before the engine looks; and no message is enqueued.
CancelStands ==
  [][\A o \in Occurrences : row[o].cancel =>
       /\ row'[o].status = "succeeded" => row[o].status = "succeeded"
       /\ \A t \in outbox' \ outbox : t[1] # o]_vars

\* The ticker ended with an error (_run has no handler), in a daemon that goes on.
TickerDead == up /\ ~ticking

\* An occurrence that was claimed ends, unless a live task waits for an agent
\* run that has not ended and nobody asked to cancel it, or a ticker that has ended
\* is never replaced by a restart.
Supervised(o) ==
  /\ up /\ ~row[o].cancel
  /\ \E k \in 1 .. MaxAttempts : At(o, k, "waiting") /\ agent[<<o, k>>] = "active"
OccurrenceEnds ==
  \A o \in Occurrences : Active(o) ~> (~Active(o) \/ Supervised(o) \/ []TickerDead)

\* The delivery of a success is decided, however often the daemon dies between
\* the message and its record, unless a ticker that has ended is never replaced.
DeliveryDecided == \A o \in Occurrences : Pending(o) ~> (~Pending(o) \/ []TickerDead)
=============================================================================
