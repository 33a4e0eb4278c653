-------------------------- MODULE SchedulerProofs ---------------------------
(***************************************************************************)
(* What the rows of the scheduler say of agent runs and deliveries holds   *)
(* for any jobs, schedules, number of attempts and number of daemons.      *)
(***************************************************************************)
EXTENDS Scheduler, FiniteSetTheorems, WellFoundedInduction, TLAPS

\* Attempts that were not made yet have left no trace, and a task that has not
\* submitted has no agent run: so a submission never overwrites one.
Unsubmitted ==
  \A o \in Occurrences, k \in 1 .. MaxAttempts :
    /\ k > row[o].attempt => agent[<<o, k>>] = "absent" /\ task[<<o, k>>] = "none"
    /\ task[<<o, k>>] \in {"claimed", "running"} => agent[<<o, k>>] = "absent"

\* A row is unclaimed exactly before its first attempt, and only ever names agent
\* runs of its own.
OwnRun ==
  \A o \in Occurrences :
    /\ row[o].status = "none" => row[o].attempt = 0
    /\ row[o].run \in Tasks => row[o].run[1] = o

\* The inductive invariant.
SInv ==
  /\ TypeOK
  /\ up => life \in 1 .. MaxLives
  /\ Unsubmitted /\ OwnRun
  /\ SuccessNamesCompletedRun /\ DeliveredIsRecorded

Status == {"none", "claimed", "running", "succeeded"} \cup Retryable

----------------------------------------------------------------------------
(***************************************************************************)
(* Rows.                                                                   *)
(***************************************************************************)
LEMMA ReleasedRow ==
  ASSUME NEW r \in Rows, NEW status \in Status
  PROVE  /\ Released(r, status) \in Rows
         /\ Released(r, status).status = status
         /\ Released(r, status).owner = None
         /\ Released(r, status).attempt = r.attempt
         /\ Released(r, status).run = r.run
<1> DEFINE d == IF status = "cancelled" THEN Suppressed(r.delivery) ELSE r.delivery
<1>1. d \in {"none", "not_requested", "pending", "succeeded", "failed", "suppressed"}
  BY DEF Rows, Suppressed
<1>2. status \in {"none", "claimed", "running", "succeeded"} \cup Retryable
  BY DEF Status
<1>3. Released(r, status) = [r EXCEPT !.status = status, !.owner = None, !.leased = FALSE, !.delivery = d]
  BY DEF Released
<1> HIDE DEF d
<1> QED BY <1>1, <1>2, <1>3 DEF Rows

LEMMA CompletedRow ==
  ASSUME NEW r \in Rows, NEW succeeds \in BOOLEAN, NEW run \in Tasks \cup {None}
  PROVE  /\ Completed(r, succeeds, run) \in Rows
         /\ Completed(r, succeeds, run).status \in {"cancelled", "succeeded", "failed"}
         /\ Completed(r, succeeds, run).status = "succeeded" => succeeds
         /\ Completed(r, succeeds, run).owner = None
         /\ Completed(r, succeeds, run).attempt = r.attempt
         /\ Completed(r, succeeds, run).run = run
<1>1. Outcome(r, succeeds) \in Status /\ (Outcome(r, succeeds) = "succeeded" => succeeds)
      /\ Outcome(r, succeeds) \in {"cancelled", "succeeded", "failed"}
  BY DEF Outcome, Status, Retryable
<1>2. Released(r, Outcome(r, succeeds)) \in Rows
  BY <1>1, ReleasedRow
<1> QED BY <1>1, <1>2, ReleasedRow DEF Completed, Rows

LEMMA ClaimedRow ==
  ASSUME SchedulerAssumption, NEW o \in Occurrences, NEW attempt \in 1 .. MaxAttempts,
         life \in 1 .. MaxLives
  PROVE  /\ Claimed(o, attempt) \in Rows
         /\ Claimed(o, attempt).status = "claimed"
         /\ Claimed(o, attempt).owner = life
         /\ Claimed(o, attempt).attempt = attempt
         /\ Claimed(o, attempt).run = None
<1>1. attempt \in 0 .. MaxAttempts
  BY DEF SchedulerAssumption
<1>2. Claimed(o, attempt) \in Rows
  BY <1>1 DEF Claimed, Rows
<1> QED BY <1>2 DEF Claimed

LEMMA NextRunType ==
  ASSUME SchedulerAssumption, NEW j \in Jobs, NEW t \in Nat
  PROVE  NextRun(j, t) \in Nat \cup {None}
<1> DEFINE s == Schedule[j]
<1>1. s.start \in Nat /\ s.every \in Nat \ {0}
  BY DEF SchedulerAssumption
<1>2. CASE t >= s.start
  <2>1. (t - s.start) \div s.every \in Nat
    BY <1>1, <1>2
  <2> HIDE DEF s
  <2>2. \A d \in Nat : s.start + (d + 1) * s.every \in Nat
    BY <1>1
  <2> QED BY <2>1, <2>2, <1>1 DEF NextRun, s
<1> QED BY <1>1, <1>2 DEF NextRun

----------------------------------------------------------------------------
(***************************************************************************)
(* What a step may do to a row.                                            *)
(***************************************************************************)
\* Row r may follow the row of o: it is well-formed, makes no attempt undone, takes
\* no success back, and succeeds only on an agent run that completed.
Follows(o, r) ==
  /\ r \in Rows
  /\ r.status \in ActiveStatus <=> r.owner # None
  /\ r.status = "none" => r.attempt = 0
  /\ r.attempt >= row[o].attempt
  /\ r.run \in Tasks => r.run[1] = o
  /\ row[o].status = "succeeded" => r.status = "succeeded" /\ r.run = row[o].run
  /\ r.status = "succeeded" /\ row[o].status # "succeeded" =>
       r.run \in Tasks /\ agent[r.run] = "completed"

RowsFollow == row' \in [Occurrences -> Rows] /\ \A o \in Occurrences : Follows(o, row'[o])

LEMMA FollowsSelf ==
  ASSUME SInv, NEW o \in Occurrences
  PROVE  Follows(o, row[o])
<1> row[o] \in Rows
  BY DEF SInv, TypeOK
<1> QED BY DEF SInv, TypeOK, OwnRun, Follows, Active, Rows

LEMMA RowsKept ==
  ASSUME SInv, row' = row
  PROVE  RowsFollow
BY FollowsSelf DEF RowsFollow, SInv, TypeOK

LEMMA RowEdited ==
  ASSUME SInv, NEW o \in Occurrences, NEW r, Follows(o, r), row' = [row EXCEPT ![o] = r]
  PROVE  RowsFollow
<1>1. row \in [Occurrences -> Rows] /\ r \in Rows
  BY DEF SInv, TypeOK, Follows
<1>2. ASSUME NEW p \in Occurrences PROVE Follows(p, row'[p])
  <2>1. CASE p = o
    BY <2>1, <1>1
  <2>2. CASE p # o
    BY <2>2, <1>1, FollowsSelf
  <2> QED BY <2>1, <2>2
<1> QED BY <1>1, <1>2 DEF RowsFollow

\* Rows that follow, agent runs that stay completed and an outbox that grows by
\* results of successes keep what the rows say true.
LEMMA RowsStayTrue ==
  ASSUME SInv, RowsFollow,
         \A t \in Tasks : agent[t] = "completed" => agent'[t] = "completed",
         \A t \in outbox' : t \in outbox \/ (row[t[1]].status = "succeeded" /\ row[t[1]].run = t),
         outbox' \subseteq Tasks
  PROVE  OwnRun' /\ SuccessNamesCompletedRun' /\ DeliveredIsRecorded'
<1>1. OwnRun'
  BY DEF RowsFollow, Follows, OwnRun
<1>2. SuccessNamesCompletedRun'
  <2> SUFFICES ASSUME NEW o \in Occurrences, row'[o].status = "succeeded"
               PROVE  row'[o].run \in Tasks /\ agent'[row'[o].run] = "completed"
    BY DEF SuccessNamesCompletedRun
  <2> QED BY DEF RowsFollow, Follows, SInv, SuccessNamesCompletedRun
<1>3. DeliveredIsRecorded'
  <2> SUFFICES ASSUME NEW t \in outbox'
               PROVE  row'[t[1]].status = "succeeded" /\ row'[t[1]].run = t
    BY DEF DeliveredIsRecorded
  <2>1. t[1] \in Occurrences
    BY DEF Tasks
  <2>2. row[t[1]].status = "succeeded" /\ row[t[1]].run = t
    BY DEF SInv, DeliveredIsRecorded
  <2> QED BY <2>1, <2>2 DEF RowsFollow, Follows
<1> QED BY <1>1, <1>2, <1>3

LEMMA ReleasedFollows ==
  ASSUME SInv, NEW o \in Occurrences, Active(o), NEW status \in Retryable
  PROVE  Follows(o, Released(row[o], status))
<1>1. row[o] \in Rows /\ status \in Status
  BY DEF SInv, TypeOK, Status
<1> QED BY <1>1, ReleasedRow DEF Follows, SInv, OwnRun, Active, ActiveStatus, Retryable, Rows

LEMMA ClaimedFollows ==
  ASSUME SchedulerAssumption, SInv, up, NEW o \in Occurrences, NEW attempt \in 1 .. MaxAttempts,
         attempt >= row[o].attempt, row[o].status # "succeeded"
  PROVE  Follows(o, Claimed(o, attempt))
<1>1. life \in 1 .. MaxLives /\ life # None /\ None \notin Tasks
  BY DEF SInv, SchedulerAssumption
<1> QED BY <1>1, ClaimedRow DEF Follows, ActiveStatus

LEMMA CompletedFollows ==
  ASSUME SInv, NEW o \in Occurrences, Active(o), NEW succeeds \in BOOLEAN,
         NEW run \in Tasks \cup {None}, run \in Tasks => run[1] = o,
         succeeds => run \in Tasks /\ agent[run] = "completed"
  PROVE  Follows(o, Completed(row[o], succeeds, run))
<1>1. row[o] \in Rows
  BY DEF SInv, TypeOK
<1> QED BY <1>1, CompletedRow DEF Follows, Active, ActiveStatus, Rows

LEMMA RecoveredFollow ==
  ASSUME SInv, row' = Recovered
  PROVE  RowsFollow
<1>1. ASSUME NEW o \in Occurrences PROVE Follows(o, row'[o]) /\ row'[o] \in Rows
  <2>1. "interrupted" \in Retryable
    BY DEF Retryable
  <2> QED BY <2>1, ReleasedFollows, FollowsSelf DEF Recovered, Follows
<1> QED BY <1>1 DEF RowsFollow, Recovered

----------------------------------------------------------------------------
(***************************************************************************)
(* The steps.                                                              *)
(***************************************************************************)
AgentsFollow ==
  /\ agent' \in [Tasks -> {"absent", "active", "completed", "failed", "cancelled"}]
  /\ \A t \in Tasks : agent[t] \notin {"absent", "active"} => agent'[t] = agent[t]

OutboxFollows ==
  /\ outbox' \subseteq Tasks
  /\ \A t \in outbox' : t \in outbox \/ (row[t[1]].status = "succeeded" /\ row[t[1]].run = t)

JobRecords == [state : {"absent", "scheduled", "paused", "completed", "cancelled"},
               next : Nat \cup {None}]

\* What is left to show of a step, once its rows, agent runs and outbox follow.
RestTyped ==
  /\ now' \in 0 .. MaxTime
  /\ task' \in [Tasks -> {"none", "claimed", "running", "submitted", "waiting"}]
  /\ delivering' \subseteq Occurrences \X {"queued", "enqueued"}
  /\ up' \in BOOLEAN /\ fresh' \in BOOLEAN /\ ticking' \in BOOLEAN /\ life' \in 0 .. MaxLives
  /\ up' => life' \in 1 .. MaxLives

\* What every step does: it keeps the invariant, and takes no result back.
Sound == SInv' /\ RowsFollow /\ AgentsFollow

LEMMA StepKeeps ==
  ASSUME SInv, RowsFollow, AgentsFollow, OutboxFollows, RestTyped, Unsubmitted',
         job' \in [Jobs -> JobRecords]
  PROVE  Sound
<1>1. TypeOK'
  BY DEF JobRecords, RowsFollow, Follows, AgentsFollow, OutboxFollows, RestTyped, TypeOK, Active
<1>2. OwnRun' /\ SuccessNamesCompletedRun' /\ DeliveredIsRecorded'
  BY RowsStayTrue DEF AgentsFollow, OutboxFollows
<1> QED BY <1>1, <1>2 DEF SInv, RestTyped, Sound

LEMMA JobSteps ==
  ASSUME SchedulerAssumption, SInv, NEW j \in Jobs,
         CreateJob(j) \/ PauseJob(j) \/ ResumeJob(j)
  PROVE  Sound
<1>1. UNCHANGED <<now, row, agent, outbox, task, delivering, up, fresh, ticking, life>>
  BY DEF CreateJob, PauseJob, ResumeJob, JobsOnly
<1>2. RowsFollow
  BY <1>1, RowsKept
<1>3. AgentsFollow /\ OutboxFollows
  BY <1>1 DEF AgentsFollow, OutboxFollows, SInv, TypeOK
<1>4. Unsubmitted'
  BY <1>1 DEF Unsubmitted, SInv
<1>5. InitialRun(j) \in Nat \cup {None}
  <2>1. Schedule[j].start \in Nat
    BY DEF SchedulerAssumption
  <2>2. now \in Nat
    BY DEF SInv, TypeOK, SchedulerAssumption
  <2>3. NextRun(j, now) \in Nat \cup {None}
    BY <2>2, NextRunType
  <2> QED BY <2>1, <2>3 DEF InitialRun
<1>6. RestTyped
  BY <1>1 DEF RestTyped, SInv, TypeOK
<1>7. job \in [Jobs -> JobRecords]
  BY DEF SInv, TypeOK, JobRecords
<1>8. job' \in [Jobs -> JobRecords]
  <2>1. CASE CreateJob(j)
    BY <1>5, <1>7, <2>1 DEF CreateJob, JobRecords
  <2>2. CASE PauseJob(j)
    BY <1>7, <2>2 DEF PauseJob, JobRecords
  <2>3. CASE ResumeJob(j)
    BY <1>5, <1>7, <2>3 DEF ResumeJob, JobRecords
  <2> QED BY <2>1, <2>2, <2>3
<1> QED BY <1>6, <1>8, <1>2, <1>3, <1>4, StepKeeps

\* A flag, and a delivery that is suppressed, change nothing else of a row.
LEMMA FlaggedRow ==
  ASSUME NEW r \in Rows, NEW c,
         \/ c = r
         \/ c = [r EXCEPT !.cancel = TRUE]
         \/ c = [r EXCEPT !.cancel = TRUE, !.delivery = "suppressed"]
  PROVE  /\ c \in Rows /\ c.status = r.status /\ c.owner = r.owner
         /\ c.attempt = r.attempt /\ c.run = r.run
<1> DEFINE flagged == [r EXCEPT !.cancel = TRUE]
           silent  == [flagged EXCEPT !.delivery = "suppressed"]
<1>1. flagged \in Rows /\ flagged.status = r.status /\ flagged.owner = r.owner
      /\ flagged.attempt = r.attempt /\ flagged.run = r.run
  BY DEF Rows
<1>2. c = r \/ c = flagged \/ c = silent
  BY Zenon
<1> HIDE DEF flagged
<1>3. silent \in Rows /\ silent.status = flagged.status /\ silent.owner = flagged.owner
      /\ silent.attempt = flagged.attempt /\ silent.run = flagged.run
  BY <1>1 DEF Rows
<1> HIDE DEF silent
<1> QED BY <1>1, <1>2, <1>3

\* Cancelling a job flags a row of it, and may suppress its delivery.
LEMMA CancelledRows ==
  ASSUME SInv, NEW j \in Jobs, CancelJob(j), NEW o \in Occurrences
  PROVE  /\ row'[o] \in Rows /\ row'[o].status = row[o].status
         /\ row'[o].owner = row[o].owner /\ row'[o].attempt = row[o].attempt
         /\ row'[o].run = row[o].run
<1>1. row'[o] = row[o] \/ row'[o] = CancelledRow(o)
  BY DEF CancelJob
<1>2. \/ CancelledRow(o) = row[o]
      \/ CancelledRow(o) = [row[o] EXCEPT !.cancel = TRUE]
      \/ CancelledRow(o) = [row[o] EXCEPT !.cancel = TRUE, !.delivery = "suppressed"]
  BY DEF CancelledRow
<1>3. row[o] \in Rows
  BY DEF SInv, TypeOK
<1> HIDE DEF CancelledRow
<1>4. \/ row'[o] = row[o]
      \/ row'[o] = [row[o] EXCEPT !.cancel = TRUE]
      \/ row'[o] = [row[o] EXCEPT !.cancel = TRUE, !.delivery = "suppressed"]
  BY <1>1, <1>2
<1> QED BY <1>3, <1>4, FlaggedRow

LEMMA CancelJobStep ==
  ASSUME SchedulerAssumption, SInv, NEW j \in Jobs, CancelJob(j)
  PROVE  Sound
<1>1. RowsFollow
  <2>1. ASSUME NEW o \in Occurrences PROVE Follows(o, row'[o])
    BY CancelledRows, FollowsSelf DEF Follows
  <2>2. row' \in [Occurrences -> Rows]
    BY CancelledRows DEF CancelJob
  <2> QED BY <2>1, <2>2 DEF RowsFollow
<1>2. \A o \in Occurrences : row'[o].attempt = row[o].attempt
  BY CancelledRows
<1>3. AgentsFollow
  BY DEF CancelJob, AgentsFollow, SInv, TypeOK
<1>4. Unsubmitted'
  <2> SUFFICES ASSUME NEW o \in Occurrences, NEW k \in 1 .. MaxAttempts
               PROVE  /\ k > row[o].attempt => agent'[<<o, k>>] = "absent" /\ task[<<o, k>>] = "none"
                      /\ task[<<o, k>>] \in {"claimed", "running"} => agent'[<<o, k>>] = "absent"
    BY <1>2 DEF CancelJob, Unsubmitted
  <2>1. agent[<<o, k>>] = "absent" => agent'[<<o, k>>] = "absent"
    BY DEF CancelJob, Tasks
  <2> QED BY <2>1 DEF SInv, Unsubmitted
<1>5. OutboxFollows /\ RestTyped
  BY DEF CancelJob, OutboxFollows, RestTyped, SInv, TypeOK
<1>6. job' \in [Jobs -> JobRecords]
  <2>1. job \in [Jobs -> JobRecords]
    BY DEF SInv, TypeOK, JobRecords
  <2>2. job' = [job EXCEPT ![j] = [job[j] EXCEPT !.state =
                  IF job[j].state = "completed" THEN job[j].state ELSE "cancelled"]]
    BY Zenon DEF CancelJob
  <2>3. [job[j] EXCEPT !.state =
           IF job[j].state = "completed" THEN job[j].state ELSE "cancelled"] \in JobRecords
    BY <2>1 DEF JobRecords
  <2> QED BY <2>1, <2>2, <2>3
<1> QED BY <1>1, <1>3, <1>4, <1>5, <1>6, StepKeeps

LEMMA RecoveredAttempts ==
  ASSUME SInv, NEW o \in Occurrences
  PROVE  Recovered[o].attempt = row[o].attempt
<1>1. row[o] \in Rows /\ "interrupted" \in Status
  BY DEF SInv, TypeOK, Status, Retryable
<1> QED BY <1>1, ReleasedRow DEF Recovered

LEMMA SpawnedTyped ==
  ASSUME SInv
  PROVE  Spawned \subseteq Occurrences \X {"queued", "enqueued"}
<1>1. ASSUME NEW d \in Spawned PROVE d \in Occurrences \X {"queued", "enqueued"}
  <2>1. CASE d \in delivering
    BY <2>1 DEF SInv, TypeOK
  <2>2. CASE d \notin delivering
    <3>1. PICK o \in Occurrences : d = <<o, "queued">>
      BY <1>1, <2>2 DEF Spawned
    <3> QED BY <3>1
  <2> QED BY <2>1, <2>2
<1> QED BY <1>1

LEMMA RunTickStep ==
  ASSUME SchedulerAssumption, SInv, NEW spawns \in BOOLEAN, RunTick(spawns), ticking' \in BOOLEAN
  PROVE  Sound
<1> DEFINE sweep == Sweep(IF fresh /\ StartupCap < Batch THEN StartupCap ELSE Batch)
           new   == {o \in sweep.claims : row[o].status = "none"}
<1>1. /\ row' = [o \in Occurrences |-> IF o \in new THEN Claimed(o, 1) ELSE Recovered[o]]
      /\ task' = [t \in Tasks |-> IF spawns /\ t[1] \in new /\ t[2] = 1 THEN "claimed" ELSE task[t]]
      /\ job' = [j \in Jobs |->
                   IF j \notin sweep.passed THEN job[j]
                   ELSE [state |-> IF NextRun(j, now) = None THEN "completed" ELSE "scheduled",
                         next |-> NextRun(j, now)]]
      /\ up /\ delivering' = Spawned /\ fresh' = FALSE
      /\ UNCHANGED <<now, agent, outbox, up, life>>
  BY DEF RunTick
<1>2. \A o \in new : row[o].status = "none"
  OBVIOUS
<1> HIDE DEF sweep, new
<1>3. \A o \in Occurrences : o \in new => row[o].attempt = 0 /\ 1 \in 1 .. MaxAttempts
  BY <1>2 DEF SInv, OwnRun, SchedulerAssumption
<1>4. RowsFollow
  <2>1. ASSUME NEW o \in Occurrences PROVE Follows(o, row'[o]) /\ row'[o] \in Rows
    <3>1. CASE o \in new
      BY <3>1, <1>1, <1>2, <1>3, ClaimedFollows DEF Follows
    <3>2. CASE o \notin new
      <4>1. row'[o] = Recovered[o] /\ "interrupted" \in Retryable
        BY <3>2, <1>1 DEF Retryable
      <4> QED BY <4>1, ReleasedFollows, FollowsSelf DEF Recovered, Follows
    <3> QED BY <3>1, <3>2
  <2> QED BY <1>1, <2>1 DEF RowsFollow
<1>5. AgentsFollow /\ OutboxFollows
  BY <1>1 DEF AgentsFollow, OutboxFollows, SInv, TypeOK
<1>6. Unsubmitted'
  <2> SUFFICES ASSUME NEW o \in Occurrences, NEW k \in 1 .. MaxAttempts
               PROVE  /\ k > row'[o].attempt => agent'[<<o, k>>] = "absent" /\ task'[<<o, k>>] = "none"
                      /\ task'[<<o, k>>] \in {"claimed", "running"} => agent'[<<o, k>>] = "absent"
    BY DEF Unsubmitted
  <2>4. agent' = agent
    BY <1>1
  <2>1. <<o, k>> \in Tasks
    BY DEF Tasks
  <2>2. CASE o \in new
    <3>1. row'[o].attempt = 1
      BY <2>2, <1>1 DEF Claimed
    <3> QED BY <3>1, <2>1, <2>2, <2>4, <1>1, <1>3 DEF SInv, Unsubmitted
  <2>3. CASE o \notin new
    <3>1. row'[o].attempt = row[o].attempt /\ task'[<<o, k>>] = task[<<o, k>>]
      BY <2>3, <2>1, <1>1, RecoveredAttempts
    <3> QED BY <3>1, <2>4 DEF SInv, Unsubmitted
  <2> QED BY <2>2, <2>3
<1>7. job' \in [Jobs -> JobRecords]
  <2>1. ASSUME NEW j \in Jobs PROVE job'[j] \in JobRecords
    <3>1. job[j] \in JobRecords /\ now \in Nat
      BY DEF SInv, TypeOK, JobRecords, SchedulerAssumption
    <3>2. NextRun(j, now) \in Nat \cup {None}
      BY <3>1, NextRunType
    <3> QED BY <3>1, <3>2, <1>1 DEF JobRecords
  <2> QED BY <1>1, <2>1
<1>8. RestTyped
  <2>1. task' \in [Tasks -> {"none", "claimed", "running", "submitted", "waiting"}]
    BY <1>1 DEF SInv, TypeOK
  <2> QED BY <1>1, <2>1, SpawnedTyped DEF RestTyped, SInv, TypeOK
<1> QED BY <1>4, <1>5, <1>6, <1>7, <1>8, StepKeeps

\* The steps of one attempt, and its claim: they edit the row of o and leave the
\* jobs and the daemon alone.
LEMMA RowStep ==
  ASSUME SchedulerAssumption, SInv, NEW o \in Occurrences, NEW k \in 1 .. MaxAttempts,
         NEW r, NEW pc \in {"none", "claimed", "running", "submitted", "waiting"},
         NEW status \in {"absent", "active", "completed", "failed", "cancelled"},
         Follows(o, r), row' = [row EXCEPT ![o] = r],
         task' = [task EXCEPT ![<<o, k>>] = pc],
         agent' = [agent EXCEPT ![<<o, k>>] = status],
         agent[<<o, k>>] \notin {"absent", "active"} => status = agent[<<o, k>>],
         k <= r.attempt,
         pc \in {"claimed", "running"} => status = "absent",
         OutboxFollows, delivering' \subseteq Occurrences \X {"queued", "enqueued"},
         Jobless
  PROVE  Sound
<1>1. RowsFollow
  BY RowEdited
<1>2. AgentsFollow
  BY DEF AgentsFollow, SInv, TypeOK
<1>3. row[o].attempt \in Nat /\ r.attempt \in Nat /\ r.attempt >= row[o].attempt
  BY DEF Follows, Rows, SInv, TypeOK, SchedulerAssumption
<1>4. Unsubmitted'
  <2> SUFFICES ASSUME NEW p \in Occurrences, NEW n \in 1 .. MaxAttempts
               PROVE  /\ n > row'[p].attempt => agent'[<<p, n>>] = "absent" /\ task'[<<p, n>>] = "none"
                      /\ task'[<<p, n>>] \in {"claimed", "running"} => agent'[<<p, n>>] = "absent"
    BY DEF Unsubmitted
  <2>1. <<p, n>> \in Tasks /\ <<o, k>> \in Tasks
    BY DEF Tasks
  <2>2. /\ n > row[p].attempt => agent[<<p, n>>] = "absent" /\ task[<<p, n>>] = "none"
        /\ task[<<p, n>>] \in {"claimed", "running"} => agent[<<p, n>>] = "absent"
    BY DEF SInv, Unsubmitted
  <2>3. CASE p = o /\ n = k
    BY <2>1, <2>3, <1>3 DEF SInv, TypeOK
  <2>4. CASE p = o /\ n # k
    BY <2>1, <2>2, <2>4, <1>3 DEF SInv, TypeOK
  <2>5. CASE p # o
    BY <2>1, <2>2, <2>5 DEF SInv, TypeOK
  <2> QED BY <2>3, <2>4, <2>5
<1>5. RestTyped /\ job' \in [Jobs -> JobRecords]
  BY DEF Jobless, RestTyped, JobRecords, SInv, TypeOK
<1> QED BY <1>1, <1>2, <1>4, <1>5, StepKeeps

LEMMA AttemptSteps ==
  ASSUME SchedulerAssumption, SInv, NEW o \in Occurrences, NEW k \in 1 .. MaxAttempts,
         Execution(o, k) \/ SubmitRefused(o, k)
  PROVE  Sound
<1> DEFINE t == <<o, k>>
<1>1. /\ t \in Tasks /\ o \in Occurrences /\ row[o] \in Rows /\ t[1] = o
      /\ row \in [Occurrences -> Rows] /\ task \in [Tasks -> {"none", "claimed", "running", "submitted", "waiting"}]
      /\ agent \in [Tasks -> {"absent", "active", "completed", "failed", "cancelled"}]
      /\ agent[t] \in {"absent", "active", "completed", "failed", "cancelled"}
      /\ outbox \subseteq Tasks /\ delivering \subseteq Occurrences \X {"queued", "enqueued"}
  BY DEF SInv, TypeOK, Tasks
<1>2. task[t] # "none" => k <= row[o].attempt
  <2>1. row[o].attempt \in Nat
    BY <1>1 DEF Rows, SchedulerAssumption
  <2>2. k > row[o].attempt => task[t] = "none"
    BY DEF SInv, Unsubmitted
  <2> QED BY <2>1, <2>2
<1>3. task[t] \in {"claimed", "running"} => agent[t] = "absent"
  BY DEF SInv, Unsubmitted
<1>4. agent = [agent EXCEPT ![t] = agent[t]] /\ row = [row EXCEPT ![o] = row[o]]
  BY <1>1
<1>5. outbox' = outbox => OutboxFollows
  BY <1>1 DEF OutboxFollows
<1> HIDE DEF t
<1>6. Follows(o, row[o])
  BY FollowsSelf
<1>7. CASE CancelClaimed(o, k)
  <2>1. PICK r : Follows(o, r) /\ r.attempt = row[o].attempt /\ row' = [row EXCEPT ![o] = r]
    <3>1. CASE Active(o) /\ row[o].owner = life
      <4>1. Follows(o, Released(row[o], "cancelled")) /\ Released(row[o], "cancelled").attempt = row[o].attempt
        BY <3>1, <1>1, ReleasedFollows, ReleasedRow DEF Retryable, Status
      <4> QED BY <3>1, <4>1, <1>7 DEF CancelClaimed
    <3>2. CASE ~(Active(o) /\ row[o].owner = life)
      BY <3>2, <1>4, <1>6, <1>7 DEF CancelClaimed
    <3> QED BY <3>1, <3>2
  <2> QED BY <2>1, <1>1, <1>2, <1>4, <1>5, <1>7, RowStep DEF CancelClaimed, At, EndTask, t
<1>8. CASE MarkRunning(o, k)
  <2>1. CASE row[o].status = "claimed" /\ OwnsLease(o)
    <3> DEFINE r == [row[o] EXCEPT !.status = "running"]
    <3>1. Follows(o, r) /\ r.attempt = row[o].attempt
      BY <1>1, <1>6, <2>1 DEF Follows, Rows, ActiveStatus
    <3>2. row' = [row EXCEPT ![o] = r]
      BY <1>1, <1>8, <2>1 DEF MarkRunning
    <3> HIDE DEF r
    <3> QED BY <3>1, <3>2, <2>1, <1>1, <1>2, <1>3, <1>4, <1>5, <1>8, RowStep DEF MarkRunning, At, t
  <2>2. CASE ~(row[o].status = "claimed" /\ OwnsLease(o))
    BY <2>2, <1>1, <1>2, <1>4, <1>5, <1>6, <1>8, RowStep DEF MarkRunning, At, EndTask, t
  <2> QED BY <2>1, <2>2
<1>9. CASE Submit(o, k)
  BY <1>1, <1>2, <1>3, <1>4, <1>5, <1>6, <1>9, RowStep DEF Submit, At, t
<1>10. CASE Attach(o, k)
  <2>1. CASE Active(o) /\ row[o].owner = life
    <3> DEFINE r == [row[o] EXCEPT !.run = t]
    <3>1. Follows(o, r) /\ r.attempt = row[o].attempt
      BY <1>1, <1>6, <2>1 DEF Follows, Rows, Active, ActiveStatus
    <3>2. row' = [row EXCEPT ![o] = r]
      BY <1>1, <1>10, <2>1 DEF Attach, t
    <3> HIDE DEF r
    <3> QED BY <3>1, <3>2, <2>1, <1>1, <1>2, <1>4, <1>5, <1>10, RowStep DEF Attach, At, t
  <2>2. CASE ~(Active(o) /\ row[o].owner = life)
    BY <2>2, <1>1, <1>2, <1>4, <1>5, <1>6, <1>10, RowStep DEF Attach, At, EndTask, t
  <2> QED BY <2>1, <2>2
<1>11. ASSUME NEW succeeds \in BOOLEAN, NEW run \in Tasks \cup {None}, run \in Tasks => run[1] = o,
              succeeds => run \in Tasks /\ agent[run] = "completed", Complete(o, succeeds, run)
       PROVE  \E r : Follows(o, r) /\ r.attempt = row[o].attempt /\ row' = [row EXCEPT ![o] = r]
  <2>1. CASE Active(o) /\ OwnsLease(o)
    <3>1. Follows(o, Completed(row[o], succeeds, run))
      BY <2>1, <1>11, CompletedFollows
    <3>2. Completed(row[o], succeeds, run).attempt = row[o].attempt
      BY <1>1, <1>11, CompletedRow
    <3> QED BY <2>1, <3>1, <3>2, <1>11 DEF Complete
  <2>2. CASE ~(Active(o) /\ OwnsLease(o))
    BY <2>2, <1>4, <1>6, <1>11 DEF Complete
  <2> QED BY <2>1, <2>2
<1>12. CASE SubmitRefused(o, k)
  <2>1. row[o].run \in Tasks \cup {None} /\ (row[o].run \in Tasks => row[o].run[1] = o)
    BY <1>1 DEF Rows, SInv, OwnRun
  <2>2. PICK r : Follows(o, r) /\ r.attempt = row[o].attempt /\ row' = [row EXCEPT ![o] = r]
    BY <2>1, <1>11, <1>12 DEF SubmitRefused
  <2> QED BY <2>2, <1>1, <1>2, <1>4, <1>5, <1>12, RowStep DEF SubmitRefused, At, EndTask, t
<1>13. CASE WaitEnds(o, k)
  <2>1. PICK r : Follows(o, r) /\ r.attempt = row[o].attempt /\ row' = [row EXCEPT ![o] = r]
    <3> DEFINE succeeds == agent[t] = "completed" /\ ~row[o].cancel
    <3>1. succeeds \in BOOLEAN /\ Complete(o, succeeds, t) /\ (succeeds => agent[t] = "completed")
      BY <1>13 DEF WaitEnds, t
    <3> HIDE DEF succeeds
    <3> QED BY <3>1, <1>1, <1>11
  <2>2. delivering' \subseteq Occurrences \X {"queued", "enqueued"}
    BY <1>1, <1>13 DEF WaitEnds
  <2>3. PICK status \in {"absent", "active", "completed", "failed", "cancelled"} :
          /\ agent' = [agent EXCEPT ![t] = status]
          /\ agent[t] \notin {"absent", "active"} => status = agent[t]
    BY <1>1, <1>13 DEF WaitEnds, t
  <2> QED BY <2>1, <2>2, <2>3, <1>1, <1>2, <1>5, <1>13, RowStep DEF WaitEnds, At, EndTask, t
<1> QED BY <1>7, <1>8, <1>9, <1>10, <1>12, <1>13 DEF Execution

LEMMA RetryStep ==
  ASSUME SchedulerAssumption, SInv, NEW o \in Occurrences, Retry(o)
  PROVE  Sound
<1> DEFINE k == row[o].attempt + 1
<1>1. row[o] \in Rows /\ outbox \subseteq Tasks /\ delivering \subseteq Occurrences \X {"queued", "enqueued"}
      /\ agent \in [Tasks -> {"absent", "active", "completed", "failed", "cancelled"}]
  BY DEF SInv, TypeOK
<1>2. row[o].attempt \in Nat /\ k \in 1 .. MaxAttempts /\ k >= row[o].attempt
  BY <1>1 DEF Rows, Retry, SchedulerAssumption
<1>3. Follows(o, Claimed(o, k)) /\ Claimed(o, k).attempt = k
  BY <1>2, ClaimedFollows DEF Retry, Retryable, Claimed
<1>4. row' = [row EXCEPT ![o] = Claimed(o, k)] /\ task' = [task EXCEPT ![<<o, k>>] = "claimed"]
  BY DEF Retry
<1>5. agent[<<o, k>>] = "absent" /\ <<o, k>> \in Tasks
  BY <1>2 DEF SInv, Unsubmitted, Tasks
<1>6. agent' = [agent EXCEPT ![<<o, k>>] = "absent"] /\ OutboxFollows
  BY <1>1, <1>5 DEF Retry, OutboxFollows
<1>7. k <= Claimed(o, k).attempt
  BY <1>2, <1>3
<1>8. Jobless /\ delivering' \subseteq Occurrences \X {"queued", "enqueued"}
  BY <1>1 DEF Retry
<1> DEFINE r == Claimed(o, k)
<1> HIDE DEF k, r
<1> QED BY <1>2, <1>3, <1>4, <1>5, <1>6, <1>7, <1>8, RowStep DEF r

\* The steps that leave attempts and agent runs alone.
LEMMA QuietStep ==
  ASSUME SInv, RowsFollow, OutboxFollows, RestTyped, UNCHANGED <<job, task, agent>>,
         \A o \in Occurrences : row'[o].attempt = row[o].attempt
  PROVE  Sound
<1>1. AgentsFollow /\ job' \in [Jobs -> JobRecords]
  BY DEF AgentsFollow, JobRecords, SInv, TypeOK
<1>2. Unsubmitted'
  BY DEF Unsubmitted, SInv
<1> QED BY <1>1, <1>2, StepKeeps

LEMMA RowFieldEdited ==
  ASSUME SInv, NEW o \in Occurrences,
         NEW d \in {"none", "not_requested", "pending", "succeeded", "failed", "suppressed"},
         NEW leased \in BOOLEAN,
         row' = [row EXCEPT ![o] = [@ EXCEPT !.delivery = d, !.leased = leased]]
  PROVE  RowsFollow /\ \A p \in Occurrences : row'[p].attempt = row[p].attempt
<1> DEFINE r == [row[o] EXCEPT !.delivery = d, !.leased = leased]
<1>1. row[o] \in Rows /\ Follows(o, row[o]) /\ row \in [Occurrences -> Rows]
  BY FollowsSelf DEF SInv, TypeOK
<1>2. r \in Rows /\ r.status = row[o].status /\ r.attempt = row[o].attempt
      /\ r.owner = row[o].owner /\ r.run = row[o].run
  BY <1>1 DEF Rows
<1> HIDE DEF r
<1>3. Follows(o, r)
  BY <1>1, <1>2 DEF Follows
<1>4. row' = [row EXCEPT ![o] = r]
  BY DEF r
<1> QED BY <1>1, <1>2, <1>4, <1>3, RowEdited

LEMMA DeliverySteps ==
  ASSUME SInv, NEW o \in Occurrences, Deliver(o)
  PROVE  Sound
<1>1. /\ row \in [Occurrences -> Rows] /\ row[o] \in Rows
      /\ delivering \subseteq Occurrences \X {"queued", "enqueued"} /\ outbox \subseteq Tasks
  BY DEF SInv, TypeOK
<1>2. Jobless /\ UNCHANGED <<job, task, agent>>
      /\ delivering' \subseteq Occurrences \X {"queued", "enqueued"}
  BY <1>1 DEF Deliver, Enqueue, EnqueueRefused, DeliverNothing, RecordDelivery, Delivery, Jobless
<1>3. RestTyped
  BY <1>2 DEF RestTyped, Jobless, SInv, TypeOK
<1>4. CASE Enqueue(o)
  <2>1. row[o].run \in Tasks /\ row[o].run[1] = o
    BY <1>4 DEF Enqueue, Pending, SInv, SuccessNamesCompletedRun, OwnRun
  <2>2. OutboxFollows
    BY <2>1, <1>1, <1>4 DEF Enqueue, Pending, OutboxFollows
  <2> QED BY <2>2, <1>2, <1>3, <1>4, RowsKept, QuietStep DEF Enqueue
<1>5. CASE EnqueueRefused(o) \/ DeliverNothing(o) \/ RecordDelivery(o)
  <2>1. PICK d \in {"none", "not_requested", "pending", "succeeded", "failed", "suppressed"} :
          row' = [row EXCEPT ![o].delivery = d]
    BY <1>1, <1>5 DEF EnqueueRefused, DeliverNothing, RecordDelivery, Rows
  <2>2. row[o].leased \in BOOLEAN
        /\ row' = [row EXCEPT ![o] = [@ EXCEPT !.delivery = d, !.leased = row[o].leased]]
    BY <2>1, <1>1 DEF Rows
  <2>3. RowsFollow /\ \A p \in Occurrences : row'[p].attempt = row[p].attempt
    BY <2>2, RowFieldEdited
  <2>4. OutboxFollows
    BY <1>1, <1>5 DEF EnqueueRefused, DeliverNothing, RecordDelivery, OutboxFollows
  <2> QED BY <2>3, <2>4, <1>2, <1>3, QuietStep
<1> QED BY <1>4, <1>5 DEF Deliver

LEMMA LeaseLapsesStep ==
  ASSUME SInv, NEW o \in Occurrences, LeaseLapses(o)
  PROVE  Sound
<1>1. row \in [Occurrences -> Rows] /\ row[o] \in Rows
  BY DEF SInv, TypeOK
<1>2. row[o].delivery \in {"none", "not_requested", "pending", "succeeded", "failed", "suppressed"}
      /\ row' = [row EXCEPT ![o] = [@ EXCEPT !.delivery = row[o].delivery, !.leased = FALSE]]
  BY <1>1 DEF LeaseLapses, Rows
<1>3. RowsFollow /\ \A p \in Occurrences : row'[p].attempt = row[p].attempt
  BY <1>2, RowFieldEdited
<1>4. OutboxFollows /\ RestTyped /\ UNCHANGED <<job, task, agent>>
  BY DEF LeaseLapses, Jobless, OutboxFollows, RestTyped, SInv, TypeOK
<1> QED BY <1>3, <1>4, QuietStep

LEMMA AgentEndsStep ==
  ASSUME SInv, NEW t \in Tasks, NEW status \in {"completed", "failed"}, AgentEnds(t, status)
  PROVE  Sound
<1>1. RowsFollow
  BY RowsKept DEF AgentEnds
<1>2. AgentsFollow
  BY DEF AgentEnds, AgentsFollow, SInv, TypeOK
<1>3. OutboxFollows /\ RestTyped /\ job' \in [Jobs -> JobRecords]
  BY DEF AgentEnds, Jobless, OutboxFollows, RestTyped, JobRecords, SInv, TypeOK
<1>4. Unsubmitted'
  <2> SUFFICES ASSUME NEW o \in Occurrences, NEW k \in 1 .. MaxAttempts
               PROVE  /\ k > row[o].attempt => agent'[<<o, k>>] = "absent" /\ task[<<o, k>>] = "none"
                      /\ task[<<o, k>>] \in {"claimed", "running"} => agent'[<<o, k>>] = "absent"
    BY DEF AgentEnds, Unsubmitted
  <2>1. agent[<<o, k>>] = "absent" => agent'[<<o, k>>] = "absent"
    BY DEF AgentEnds, SInv, TypeOK, Tasks
  <2> QED BY <2>1 DEF SInv, Unsubmitted
<1> QED BY <1>1, <1>2, <1>3, <1>4, StepKeeps

\* A tick that raises: at most it recovered rows, spawned deliveries or made claims.
LEMMA TickFailsStep ==
  ASSUME SchedulerAssumption, SInv, TickFails
  PROVE  Sound
<1>1. ticking' \in BOOLEAN
  BY DEF TickFails
<1>2. CASE RunTick(FALSE)
  BY <1>1, <1>2, RunTickStep
<1>3. CASE ~RunTick(FALSE)
  <2>1. /\ row' \in {row, Recovered} /\ delivering' \in {delivering, Spawned}
        /\ fresh' \in {fresh, FALSE}
        /\ UNCHANGED <<now, job, agent, outbox, task, up, life>>
    BY <1>3 DEF TickFails
  <2>2. RowsFollow /\ \A p \in Occurrences : row'[p].attempt = row[p].attempt
    BY <2>1, RowsKept, RecoveredFollow, RecoveredAttempts
  <2>3. OutboxFollows
    BY <2>1 DEF OutboxFollows, SInv, TypeOK
  <2>4. RestTyped
    BY <1>1, <2>1, SpawnedTyped DEF RestTyped, SInv, TypeOK
  <2> QED BY <2>1, <2>2, <2>3, <2>4, QuietStep
<1> QED BY <1>2, <1>3

LEMMA StartStep ==
  ASSUME SchedulerAssumption, SInv, Start
  PROVE  Sound
<1>1. RowsFollow /\ \A p \in Occurrences : row'[p].attempt = row[p].attempt
  BY RecoveredFollow, RecoveredAttempts DEF Start
<1>2. OutboxFollows /\ UNCHANGED <<job, task, agent>>
  BY DEF Start, OutboxFollows, SInv, TypeOK
<1>3. RestTyped
  BY DEF Start, RestTyped, SInv, TypeOK, SchedulerAssumption
<1> QED BY <1>1, <1>2, <1>3, QuietStep

LEMMA CrashStep ==
  ASSUME SInv, Crash
  PROVE  Sound
<1>1. RowsFollow
  BY RowsKept DEF Crash
<1>2. AgentsFollow /\ OutboxFollows /\ RestTyped /\ job' \in [Jobs -> JobRecords]
  BY DEF Crash, AgentsFollow, OutboxFollows, RestTyped, JobRecords, SInv, TypeOK
<1>3. Unsubmitted'
  BY DEF Crash, Unsubmitted, SInv, Tasks
<1> QED BY <1>1, <1>2, <1>3, StepKeeps

LEMMA ClockStep ==
  ASSUME SchedulerAssumption, SInv, ClockAdvances
  PROVE  Sound
<1>1. RowsFollow /\ \A p \in Occurrences : row'[p].attempt = row[p].attempt
  BY RowsKept DEF ClockAdvances
<1>2. OutboxFollows /\ UNCHANGED <<job, task, agent>>
  BY DEF ClockAdvances, OutboxFollows, SInv, TypeOK
<1>3. RestTyped
  BY DEF ClockAdvances, RestTyped, SInv, TypeOK, SchedulerAssumption
<1> QED BY <1>1, <1>2, <1>3, QuietStep

LEMMA SInvInit ==
  ASSUME Init
  PROVE  SInv
<1>1. NoRow \in Rows
  BY SchedulerAssumption DEF NoRow, Rows, SchedulerAssumption
<1>2. TypeOK
  <2>1. \A o \in Occurrences : Active(o) <=> row[o].owner # None
    BY DEF Init, NoRow, Active, ActiveStatus
  <2>2. row \in [Occurrences -> Rows]
    BY <1>1 DEF Init
  <2>3. now \in 0 .. MaxTime /\ life \in 0 .. MaxLives
    BY SchedulerAssumption DEF Init, SchedulerAssumption
  <2>4. /\ job \in [Jobs -> [state : {"absent", "scheduled", "paused", "completed", "cancelled"},
                            next : Nat \cup {None}]]
        /\ agent \in [Tasks -> {"absent", "active", "completed", "failed", "cancelled"}]
        /\ task \in [Tasks -> {"none", "claimed", "running", "submitted", "waiting"}]
    BY DEF Init
  <2>5. /\ outbox \subseteq Tasks /\ delivering \subseteq Occurrences \X {"queued", "enqueued"}
        /\ up \in BOOLEAN /\ fresh \in BOOLEAN /\ ticking \in BOOLEAN
    BY DEF Init
  <2> QED BY <2>1, <2>2, <2>3, <2>4, <2>5 DEF TypeOK
<1>3. Unsubmitted
  BY DEF Init, Unsubmitted, Tasks
<1>4. OwnRun /\ SuccessNamesCompletedRun /\ DeliveredIsRecorded
  BY SchedulerAssumption
  DEF Init, NoRow, OwnRun, SuccessNamesCompletedRun, DeliveredIsRecorded, SchedulerAssumption
<1> QED BY <1>2, <1>3, <1>4 DEF SInv, Init

LEMMA SoundStep ==
  ASSUME SInv, [Next]_vars
  PROVE  Sound
<1>1. CASE UNCHANGED vars
  <2>1. SInv'
    BY <1>1 DEF vars, SInv, TypeOK, Active, Unsubmitted, OwnRun, SuccessNamesCompletedRun,
                DeliveredIsRecorded
  <2>2. RowsFollow
    BY <1>1, RowsKept DEF vars
  <2>3. AgentsFollow
    BY <1>1 DEF vars, AgentsFollow, SInv, TypeOK
  <2> QED BY <2>1, <2>2, <2>3 DEF Sound
<1>2. ASSUME NEW j \in Jobs, CreateJob(j) \/ PauseJob(j) \/ ResumeJob(j) \/ CancelJob(j)
      PROVE  Sound
  BY <1>2, SchedulerAssumption, JobSteps, CancelJobStep
<1>3. CASE Tick \/ TickFails
  <2>1. CASE Tick
    <3>1. RunTick(TRUE) /\ ticking' \in BOOLEAN
      BY <2>1 DEF Tick, SInv, TypeOK
    <3> QED BY <3>1, SchedulerAssumption, RunTickStep
  <2> QED BY <1>3, <2>1, SchedulerAssumption, TickFailsStep
<1>4. ASSUME NEW o \in Occurrences, NEW k \in 1 .. MaxAttempts,
             Execution(o, k) \/ SubmitRefused(o, k)
      PROVE  Sound
  BY <1>4, SchedulerAssumption, AttemptSteps
<1>5. ASSUME NEW o \in Occurrences, Retry(o) \/ Deliver(o) \/ LeaseLapses(o)
      PROVE  Sound
  BY <1>5, SchedulerAssumption, RetryStep, DeliverySteps, LeaseLapsesStep
<1>6. ASSUME NEW t \in Tasks, NEW status \in {"completed", "failed"}, AgentEnds(t, status)
      PROVE  Sound
  BY <1>6, AgentEndsStep
<1>7. CASE Start \/ Crash \/ ClockAdvances
  BY <1>7, SchedulerAssumption, StartStep, CrashStep, ClockStep
<1> QED BY <1>1, <1>2, <1>3, <1>4, <1>5, <1>6, <1>7 DEF Next

\* A tick that claims, whether it comes to its end or fails after the claim.
Ticks == \E spawns \in BOOLEAN : RunTick(spawns)

LEMMA TicksOrNot ==
  ASSUME Next, ~Ticks
  PROVE  /\ ~Tick
         /\ TickFails => row' \in {row, Recovered} /\ job' = job
BY DEF Ticks, Tick, TickFails

LEMMA SInvStep ==
  ASSUME SInv, [Next]_vars
  PROVE  SInv'
BY SoundStep DEF Sound

----------------------------------------------------------------------------
(***************************************************************************)
(* Cancellation.                                                           *)
(***************************************************************************)
\* What the steps leave the status of a row at: what it was, or no success.
NoNewSuccess(o) == row'[o].status = "succeeded" => row[o].status = "succeeded"

LEMMA RowWithoutSuccess ==
  ASSUME NEW o \in Occurrences, NEW p \in Occurrences, row \in [Occurrences -> Rows], NEW r,
         r.status = "succeeded" => row[p].status = "succeeded", row' = [row EXCEPT ![p] = r]
  PROVE  NoNewSuccess(o)
<1>1. CASE o = p
  BY <1>1 DEF NoNewSuccess
<1>2. CASE o # p
  BY <1>2 DEF NoNewSuccess
<1> QED BY <1>1, <1>2

LEMMA RecoveredWithoutSuccess ==
  ASSUME SInv, NEW o \in Occurrences
  PROVE  Recovered[o].status = "succeeded" => row[o].status = "succeeded"
<1>1. row[o] \in Rows /\ "interrupted" \in Status
  BY DEF SInv, TypeOK, Status, Retryable
<1>2. Released(row[o], "interrupted").status = "interrupted"
  BY <1>1, ReleasedRow
<1> QED BY <1>2 DEF Recovered

\* No step makes a success of a row whose cancellation is requested: the request
\* is read again by every transaction that completes a row.
LEMMA CancelledNeverSucceeds ==
  ASSUME SchedulerAssumption, SInv, Next, NEW o \in Occurrences, row[o].cancel
  PROVE  NoNewSuccess(o)
<1>1. row \in [Occurrences -> Rows] /\ row[o] \in Rows
  BY DEF SInv, TypeOK
<1>2. ASSUME UNCHANGED row PROVE NoNewSuccess(o)
  BY <1>2 DEF NoNewSuccess
<1>3. ASSUME NEW p \in Occurrences, NEW status \in Retryable,
             row' = [row EXCEPT ![p] = Released(@, status)]
      PROVE  NoNewSuccess(o)
  <2>1. row[p] \in Rows /\ status \in Status
    BY <1>1 DEF Status
  <2>2. Released(row[p], status).status # "succeeded"
    BY <2>1, ReleasedRow DEF Retryable
  <2>3. row' = [row EXCEPT ![p] = Released(row[p], status)]
    BY <1>3
  <2> QED BY <1>1, <2>2, <2>3, RowWithoutSuccess
<1>4. ASSUME NEW p \in Occurrences, NEW succeeds \in BOOLEAN, NEW run \in Tasks \cup {None},
             row[p].cancel => ~succeeds, Complete(p, succeeds, run)
      PROVE  NoNewSuccess(o)
  <2>1. CASE row' = row
    BY <1>2, <2>1
  <2>2. CASE row' = [row EXCEPT ![p] = Completed(@, succeeds, run)]
    <3>1. CASE p = o
      <4>1. Completed(row[o], succeeds, run).status # "succeeded"
        BY <1>1, <1>4, <3>1, CompletedRow
      <4>2. row'[o] = Completed(row[o], succeeds, run)
        BY <1>1, <2>2, <3>1
      <4> QED BY <4>1, <4>2 DEF NoNewSuccess
    <3>2. CASE p # o
      BY <1>1, <2>2, <3>2 DEF NoNewSuccess
    <3> QED BY <3>1, <3>2
  <2> QED BY <1>4, <2>1, <2>2 DEF Complete
<1>5. ASSUME NEW j \in Jobs, CreateJob(j) \/ PauseJob(j) \/ ResumeJob(j) \/ CancelJob(j)
      PROVE  NoNewSuccess(o)
  <2>1. CASE CancelJob(j)
    <3>1. row'[o].status = row[o].status
      BY <2>1, CancelledRows
    <3> QED BY <3>1 DEF NoNewSuccess
  <2>2. CASE CreateJob(j) \/ PauseJob(j) \/ ResumeJob(j)
    BY <1>2, <2>2 DEF CreateJob, PauseJob, ResumeJob, JobsOnly
  <2> QED BY <1>5, <2>1, <2>2
<1>6. CASE Ticks
  <2> DEFINE sweep == Sweep(IF fresh /\ StartupCap < Batch THEN StartupCap ELSE Batch)
             new   == {p \in sweep.claims : row[p].status = "none"}
  <2>1. row' = [p \in Occurrences |-> IF p \in new THEN Claimed(p, 1) ELSE Recovered[p]]
    BY <1>6 DEF Ticks, RunTick
  <2> HIDE DEF sweep, new
  <2>2. Claimed(o, 1).status = "claimed"
    BY DEF Claimed
  <2> QED BY <2>1, <2>2, RecoveredWithoutSuccess DEF NoNewSuccess
<1>7. ASSUME NEW p \in Occurrences, NEW k \in 1 .. MaxAttempts,
             Execution(p, k) \/ SubmitRefused(p, k)
      PROVE  NoNewSuccess(o)
  <2>1. CASE CancelClaimed(p, k)
    BY <1>2, <1>3, <2>1 DEF CancelClaimed, Retryable
  <2>2. CASE MarkRunning(p, k)
    <3>1. CASE row' = row
      BY <1>2, <3>1
    <3>2. CASE row' = [row EXCEPT ![p].status = "running"]
      <4> DEFINE r == [row[p] EXCEPT !.status = "running"]
      <4>1. r.status # "succeeded" /\ row' = [row EXCEPT ![p] = r]
        BY <1>1, <3>2 DEF Rows
      <4> HIDE DEF r
      <4> QED BY <1>1, <4>1, RowWithoutSuccess
    <3> QED BY <2>2, <3>1, <3>2 DEF MarkRunning
  <2>3. CASE Submit(p, k)
    BY <1>2, <2>3 DEF Submit
  <2>4. CASE Attach(p, k)
    <3>1. CASE row' = row
      BY <1>2, <3>1
    <3>2. CASE row' = [row EXCEPT ![p].run = <<p, k>>]
      <4> DEFINE r == [row[p] EXCEPT !.run = <<p, k>>]
      <4>1. r.status = row[p].status /\ row' = [row EXCEPT ![p] = r]
        BY <1>1, <3>2 DEF Rows
      <4> HIDE DEF r
      <4> QED BY <1>1, <4>1, RowWithoutSuccess
    <3> QED BY <2>4, <3>1, <3>2 DEF Attach
  <2>5. CASE WaitEnds(p, k)
    <3> DEFINE succeeds == agent[<<p, k>>] = "completed" /\ ~row[p].cancel
    <3>1. succeeds \in BOOLEAN /\ (row[p].cancel => ~succeeds) /\ Complete(p, succeeds, <<p, k>>)
      BY <2>5 DEF WaitEnds
    <3>2. <<p, k>> \in Tasks \cup {None}
      BY DEF Tasks
    <3> HIDE DEF succeeds
    <3> QED BY <3>1, <3>2, <1>4
  <2>6. CASE SubmitRefused(p, k)
    <3>1. row[p].run \in Tasks \cup {None} /\ Complete(p, FALSE, row[p].run)
      BY <1>1, <2>6 DEF SubmitRefused, Rows
    <3> QED BY <3>1, <1>4
  <2> QED BY <1>7, <2>1, <2>2, <2>3, <2>4, <2>5, <2>6 DEF Execution
<1>8. ASSUME NEW p \in Occurrences, Retry(p) PROVE NoNewSuccess(o)
  <2> DEFINE r == Claimed(p, row[p].attempt + 1)
  <2>1. r.status = "claimed" /\ row' = [row EXCEPT ![p] = r]
    BY <1>8 DEF Retry, Claimed
  <2> HIDE DEF r
  <2> QED BY <1>1, <2>1, RowWithoutSuccess
<1>9. ASSUME NEW p \in Occurrences, Deliver(p) \/ LeaseLapses(p) PROVE NoNewSuccess(o)
  <2>1. row[p] \in Rows
    BY <1>1
  <2>2. ASSUME NEW d, row' = [row EXCEPT ![p].delivery = d] PROVE NoNewSuccess(o)
    <3> DEFINE r == [row[p] EXCEPT !.delivery = d]
    <3>1. r.status = row[p].status /\ row' = [row EXCEPT ![p] = r]
      BY <2>1, <2>2 DEF Rows
    <3> HIDE DEF r
    <3> QED BY <1>1, <3>1, RowWithoutSuccess
  <2>3. CASE Enqueue(p)
    BY <1>2, <2>3 DEF Enqueue
  <2>4. CASE EnqueueRefused(p) \/ DeliverNothing(p) \/ RecordDelivery(p)
    <3>1. PICK d : row' = [row EXCEPT ![p].delivery = d]
      BY <2>4 DEF EnqueueRefused, DeliverNothing, RecordDelivery
    <3> QED BY <3>1, <2>2
  <2>5. CASE LeaseLapses(p)
    <3> DEFINE r == [row[p] EXCEPT !.leased = FALSE]
    <3>1. r.status = row[p].status /\ row' = [row EXCEPT ![p] = r]
      BY <2>1, <2>5 DEF LeaseLapses, Rows
    <3> HIDE DEF r
    <3> QED BY <1>1, <3>1, RowWithoutSuccess
  <2> QED BY <1>9, <2>3, <2>4, <2>5 DEF Deliver
<1>10. ASSUME NEW t \in Tasks, NEW status \in {"completed", "failed"}, AgentEnds(t, status)
       PROVE  NoNewSuccess(o)
  BY <1>2, <1>10 DEF AgentEnds
<1>11. CASE Start
  BY <1>11, RecoveredWithoutSuccess DEF Start, NoNewSuccess
<1>12. CASE Crash \/ ClockAdvances
  BY <1>2, <1>12 DEF Crash, ClockAdvances
<1>13. CASE TickFails /\ ~Ticks
  BY <1>2, <1>13, TicksOrNot, RecoveredWithoutSuccess DEF NoNewSuccess
<1> QED BY <1>5, <1>6, <1>7, <1>8, <1>9, <1>10, <1>11, <1>12, <1>13, TicksOrNot DEF Next

\* What the outbox gains is a result of a row whose cancellation nobody requested.
LEMMA OnlyUncancelledEnqueued ==
  ASSUME SInv, Next, NEW t \in outbox' \ outbox
  PROVE  \E p \in Occurrences : ~row[p].cancel /\ t[1] = p
<1>1. ASSUME outbox' = outbox PROVE FALSE
  BY <1>1
<1>2. ASSUME NEW p \in Occurrences, Enqueue(p) PROVE ~row[p].cancel /\ t[1] = p
  <2>1. row[p].run[1] = p
    BY <1>2 DEF Enqueue, Pending, SInv, SuccessNamesCompletedRun, OwnRun
  <2>2. t = row[p].run /\ ~row[p].cancel
    BY <1>2 DEF Enqueue
  <2> QED BY <2>1, <2>2
<1>3. ~Tick /\ ~TickFails /\ ~Start /\ ~Crash /\ ~ClockAdvances
  BY <1>1 DEF Tick, TickFails, RunTick, Start, Crash, ClockAdvances
<1>4. ASSUME NEW j \in Jobs, CreateJob(j) \/ PauseJob(j) \/ ResumeJob(j) \/ CancelJob(j)
      PROVE  FALSE
  BY <1>1, <1>4 DEF CreateJob, PauseJob, ResumeJob, CancelJob, JobsOnly
<1>5. ASSUME NEW p \in Occurrences, NEW k \in 1 .. MaxAttempts,
             Execution(p, k) \/ SubmitRefused(p, k)
      PROVE  FALSE
  BY <1>1, <1>5
  DEF Execution, SubmitRefused, CancelClaimed, MarkRunning, Submit, Attach, WaitEnds
<1>6. ASSUME NEW p \in Occurrences, Retry(p) \/ LeaseLapses(p) PROVE FALSE
  BY <1>1, <1>6 DEF Retry, LeaseLapses
<1>7. ASSUME NEW p \in Occurrences, EnqueueRefused(p) \/ DeliverNothing(p) \/ RecordDelivery(p)
      PROVE  FALSE
  BY <1>1, <1>7 DEF EnqueueRefused, DeliverNothing, RecordDelivery
<1>8. ASSUME NEW s \in Tasks, NEW status \in {"completed", "failed"}, AgentEnds(s, status)
      PROVE  FALSE
  BY <1>1, <1>8 DEF AgentEnds
<1> QED BY <1>2, <1>3, <1>4, <1>5, <1>6, <1>7, <1>8 DEF Next, Deliver

----------------------------------------------------------------------------
(***************************************************************************)
(* Catching up.  A job stands at an instant of its schedule, and from that *)
(* instant on it has no rows: so the latest instant that is due is claimed *)
(* when the job moves past it.                                             *)
(***************************************************************************)
OnSchedule ==
  \A j \in Jobs : job[j].state \in {"scheduled", "paused"} =>
    /\ job[j].next \in Nat
    /\ job[j].next <= MaxTime => job[j].next \in Instants(j)

Unmade ==
  \A j \in Jobs, t \in 0 .. MaxTime :
    job[j].state = "absent" \/ (job[j].next # None /\ job[j].next <= t) =>
      row[<<j, t>>].status = "none"

DueInv == SInv /\ OnSchedule /\ Unmade

LEMMA ScheduleType ==
  ASSUME NEW j \in Jobs
  PROVE  /\ j \in Nat
         /\ Schedule[j].start \in Nat /\ Schedule[j].every \in Nat \ {0}
         /\ Schedule[j].count \in 1 .. 10
BY SchedulerAssumption

LEMMA Multiple ==
  ASSUME NEW e \in Nat \ {0}, NEW k \in Nat
  PROVE  k * e \in Nat /\ k <= k * e
OBVIOUS

LEMMA InstantsType ==
  ASSUME NEW j \in Jobs
  PROVE  Instants(j) \subseteq Nat
<1>1. Schedule[j].start \in Nat /\ Schedule[j].every \in Nat \ {0} /\ MaxTime \in Nat
  BY ScheduleType, SchedulerAssumption
<1>2. ASSUME NEW k \in 0 .. MaxTime PROVE Schedule[j].start + k * Schedule[j].every \in Nat
  <2>1. k * Schedule[j].every \in Nat
    BY <1>1, Multiple
  <2> QED BY <1>1, <2>1
<1> QED BY <1>1, <1>2 DEF Instants

\* The next instant lies ahead, and is one of those that the bounds allow if it
\* can come at all.
LEMMA NextRunInstant ==
  ASSUME NEW j \in Jobs, NEW t \in Nat, NextRun(j, t) # None
  PROVE  /\ NextRun(j, t) \in Nat /\ NextRun(j, t) > t
         /\ NextRun(j, t) <= MaxTime => NextRun(j, t) \in Instants(j)
<1> DEFINE start == Schedule[j].start
           every == Schedule[j].every
<1>1. start \in Nat /\ every \in Nat \ {0} /\ MaxTime \in Nat
  BY ScheduleType, SchedulerAssumption
<1>2. Schedule[j].kind # "once"
  BY DEF NextRun
<1>3. Instants(j) = {start + k * every : k \in 0 .. MaxTime}
  BY <1>2 DEF Instants
<1>4. NextRun(j, t) = IF t < start THEN start ELSE start + ((t - start) \div every + 1) * every
  BY <1>2 DEF NextRun
<1> HIDE DEF start, every
<1>5. CASE t < start
  <2>1. start = start + 0 * every /\ 0 \in 0 .. MaxTime
    BY <1>1
  <2>2. start \in Instants(j)
    BY <1>3, <2>1
  <2> QED BY <1>1, <1>4, <1>5, <2>2
<1>6. CASE t >= start
  <2> DEFINE d == (t - start) \div every
  <2>1. d \in Nat /\ t - start < (d + 1) * every
    BY <1>1, <1>6
  <2>2. NextRun(j, t) = start + (d + 1) * every
    BY <1>1, <1>4, <1>6
  <2> HIDE DEF d
  <2>3. (d + 1) * every \in Nat /\ d + 1 <= (d + 1) * every
    BY <1>1, <2>1, Multiple
  <2>4. start + (d + 1) * every <= MaxTime => d + 1 \in 0 .. MaxTime
    BY <1>1, <2>1, <2>3
  <2>5. d + 1 \in 0 .. MaxTime => start + (d + 1) * every \in Instants(j)
    BY <1>3
  <2> QED BY <1>1, <1>6, <2>1, <2>2, <2>3, <2>4, <2>5
<1> QED BY <1>1, <1>5, <1>6

LEMMA InitialRunInstant ==
  ASSUME NEW j \in Jobs, now \in Nat
  PROVE  /\ InitialRun(j) \in Nat
         /\ InitialRun(j) <= MaxTime => InitialRun(j) \in Instants(j)
<1>1. Schedule[j].start \in Nat /\ Schedule[j].every \in Nat /\ MaxTime \in Nat
  BY ScheduleType, SchedulerAssumption
<1>2. CASE Schedule[j].kind = "once" \/ Schedule[j].start >= now
  <2>1. Schedule[j].start = Schedule[j].start + 0 * Schedule[j].every /\ 0 \in 0 .. MaxTime
    BY <1>1
  <2>2. Schedule[j].start \in Instants(j)
    BY <2>1 DEF Instants
  <2> QED BY <1>1, <1>2, <2>2 DEF InitialRun
<1>3. CASE ~(Schedule[j].kind = "once" \/ Schedule[j].start >= now)
  <2>1. InitialRun(j) = NextRun(j, now)
    BY <1>3 DEF InitialRun
  <2>2. NextRun(j, now) # None
    <3>1. NextRun(j, now) = Schedule[j].start
            + ((now - Schedule[j].start) \div Schedule[j].every + 1) * Schedule[j].every
      BY <1>1, <1>3 DEF NextRun
    <3>2. Schedule[j].every \in Nat \ {0} /\ now - Schedule[j].start \in Nat
      BY <1>1, <1>3, ScheduleType
    <3>3. (now - Schedule[j].start) \div Schedule[j].every \in Nat
      BY <3>2
    <3>4. ((now - Schedule[j].start) \div Schedule[j].every + 1) * Schedule[j].every \in Nat
      BY <3>2, <3>3, Multiple
    <3>5. NextRun(j, now) \in Nat
      BY <1>1, <3>1, <3>4
    <3> QED BY <3>5, SchedulerAssumption
  <2> QED BY <2>1, <2>2, NextRunInstant
<1> QED BY <1>2, <1>3

LEMMA LatestOf ==
  ASSUME NEW T \in SUBSET (0 .. MaxTime), T # {}
  PROVE  \E t \in T : \A u \in T : u <= t
<1>1. MaxTime \in Nat
  BY SchedulerAssumption
<1> DEFINE Before == {MaxTime - t : t \in T}
<1>2. Before \subseteq Nat /\ Before # {}
  <2>1. ASSUME NEW t \in T PROVE MaxTime - t \in Nat
    BY <1>1
  <2> QED BY <2>1
<1>3. PICK b \in Before : \A y \in Before : ~(<<y, b>> \in OpToRel(<, Nat))
  BY <1>2, NatLessThanWellFounded, WFMin
<1>4. PICK t \in T : b = MaxTime - t
  OBVIOUS
<1>5. ASSUME NEW u \in T PROVE u <= t
  <2>1. MaxTime - u \in Before
    OBVIOUS
  <2>2. ~(MaxTime - u < b)
    BY <2>1, <1>2, <1>3 DEF OpToRel
  <2> QED BY <2>2, <1>1, <1>4
<1> QED BY <1>5

\* The latest of a set is among its n latest.
LEMMA LatestIsKept ==
  ASSUME NEW T, NEW t \in T, T \subseteq Nat, \A u \in T : u <= t, NEW n, 0 < n
  PROVE  t \in Latest(n, T)
<1>1. {u \in T : u > t} = {}
  <2>1. ASSUME NEW u \in T PROVE ~(u > t)
    <3>1. u \in Nat /\ t \in Nat /\ u <= t
      OBVIOUS
    <3> QED BY <3>1
  <2> QED BY <2>1
<1> QED BY <1>1, FS_EmptySet DEF Latest

\* Rows appear with a tick that claims, and what follows the claim of a row leaves it one.
LEMMA UnmadeStays ==
  ASSUME SInv, Next, ~Ticks, NEW o \in Occurrences, row[o].status = "none"
  PROVE  row'[o].status = "none"
<1>1. row \in [Occurrences -> Rows] /\ ~Active(o) /\ ~Pending(o)
  BY DEF SInv, TypeOK, Active, ActiveStatus, Pending
<1>2. ASSUME NEW p \in Occurrences, NEW r, row' = [row EXCEPT ![p] = r], row[p].status # "none"
      PROVE  row'[o].status = "none"
  BY <1>1, <1>2
<1>3. ASSUME NEW j \in Jobs, CreateJob(j) \/ PauseJob(j) \/ ResumeJob(j) \/ CancelJob(j)
      PROVE  row'[o].status = "none"
  <2>1. CASE CancelJob(j)
    BY <1>1, <2>1 DEF CancelJob, CancelledRow
  <2>2. CASE CreateJob(j) \/ PauseJob(j) \/ ResumeJob(j)
    BY <2>2 DEF CreateJob, PauseJob, ResumeJob, JobsOnly
  <2> QED BY <1>3, <2>1, <2>2
<1>4. ASSUME NEW p \in Occurrences, NEW k \in 1 .. MaxAttempts,
             Execution(p, k) \/ SubmitRefused(p, k)
      PROVE  row'[o].status = "none"
  <2>1. ASSUME NEW succeeds, NEW run, Complete(p, succeeds, run)
        PROVE  row' = row \/ (Active(p) /\ \E r : row' = [row EXCEPT ![p] = r])
    BY <2>1 DEF Complete
  <2>2. CASE SubmitRefused(p, k) \/ WaitEnds(p, k)
    <3>1. PICK succeeds, run : Complete(p, succeeds, run)
      BY <2>2 DEF SubmitRefused, WaitEnds
    <3> QED BY <1>1, <1>2, <2>1, <3>1 DEF Active, ActiveStatus
  <2>3. CASE CancelClaimed(p, k)
    <3>1. row' = row \/ (Active(p) /\ row' = [row EXCEPT ![p] = Released(row[p], "cancelled")])
      BY <2>3 DEF CancelClaimed
    <3> QED BY <1>1, <1>2, <3>1 DEF Active, ActiveStatus
  <2>4. CASE MarkRunning(p, k)
    <3>1. \/ row' = row
          \/ Active(p) /\ row' = [row EXCEPT ![p] = [row[p] EXCEPT !.status = "running"]]
      BY <2>4 DEF MarkRunning, Active, ActiveStatus
    <3> QED BY <1>1, <1>2, <3>1 DEF Active, ActiveStatus
  <2>5. CASE Attach(p, k)
    <3>1. \/ row' = row
          \/ Active(p) /\ row' = [row EXCEPT ![p] = [row[p] EXCEPT !.run = <<p, k>>]]
      BY <2>5 DEF Attach
    <3> QED BY <1>1, <1>2, <3>1 DEF Active, ActiveStatus
  <2>6. CASE Submit(p, k)
    BY <1>1, <2>6 DEF Submit
  <2> QED BY <1>4, <2>2, <2>3, <2>4, <2>5, <2>6 DEF Execution
<1>5. ASSUME NEW p \in Occurrences, Retry(p) \/ LeaseLapses(p) PROVE row'[o].status = "none"
  <2>1. row[p].status # "none" /\ \E r : row' = [row EXCEPT ![p] = r]
    BY <1>5 DEF Retry, LeaseLapses, Retryable, Active, ActiveStatus
  <2> QED BY <1>2, <2>1
<1>6. ASSUME NEW p \in Occurrences, Deliver(p) PROVE row'[o].status = "none"
  <2>1. ASSUME NEW d, row' = [row EXCEPT ![p].delivery = d] PROVE row'[o].status = "none"
    BY <1>1, <2>1 DEF Rows
  <2>2. CASE Enqueue(p)
    BY <1>1, <2>2 DEF Enqueue
  <2>3. CASE EnqueueRefused(p) \/ DeliverNothing(p) \/ RecordDelivery(p)
    BY <2>1, <2>3 DEF EnqueueRefused, DeliverNothing, RecordDelivery
  <2> QED BY <1>6, <2>2, <2>3 DEF Deliver
<1>7. ASSUME NEW t \in Tasks, NEW status \in {"completed", "failed"}, AgentEnds(t, status)
      PROVE  row'[o].status = "none"
  BY <1>7 DEF AgentEnds
<1>8. CASE Start
  BY <1>1, <1>8 DEF Start, Recovered
<1>9. CASE Crash \/ ClockAdvances
  BY <1>9 DEF Crash, ClockAdvances
<1>10. CASE TickFails
  <2>1. Recovered[o] = row[o]
    BY <1>1 DEF Recovered
  <2> QED BY <1>10, <2>1, TicksOrNot
<1> QED BY <1>3, <1>4, <1>5, <1>6, <1>7, <1>8, <1>9, <1>10, TicksOrNot DEF Next

LEMMA JobsRest ==
  ASSUME Next, ~Ticks,
         \A j \in Jobs : ~CreateJob(j) /\ ~PauseJob(j) /\ ~ResumeJob(j) /\ ~CancelJob(j)
  PROVE  job' = job
<1>1. ASSUME NEW p \in Occurrences, NEW k \in 1 .. MaxAttempts,
             Execution(p, k) \/ SubmitRefused(p, k)
      PROVE  job' = job
  BY <1>1
  DEF Execution, SubmitRefused, CancelClaimed, MarkRunning, Submit, Attach, WaitEnds, Jobless
<1>2. ASSUME NEW p \in Occurrences, Retry(p) \/ Deliver(p) \/ LeaseLapses(p) PROVE job' = job
  BY <1>2 DEF Retry, LeaseLapses, Deliver, Enqueue, EnqueueRefused, DeliverNothing, RecordDelivery,
              Delivery, Jobless
<1>3. ASSUME NEW t \in Tasks, NEW status \in {"completed", "failed"}, AgentEnds(t, status)
      PROVE  job' = job
  BY <1>3 DEF AgentEnds, Jobless
<1>4. CASE Start \/ Crash \/ ClockAdvances
  BY <1>4 DEF Start, Crash, ClockAdvances
<1> QED BY <1>1, <1>2, <1>3, <1>4, TicksOrNot DEF Next

\* What the handlers of the API do to jobs.
LEMMA JobsTold ==
  ASSUME DueInv, NEW j \in Jobs, CreateJob(j) \/ PauseJob(j) \/ ResumeJob(j) \/ CancelJob(j)
  PROVE  /\ OnSchedule'
         /\ \A i \in Jobs : job[i].state # "absent" =>
              job'[i].state # "absent" /\ job'[i].next = job[i].next
         /\ \A i \in Jobs : job'[i].state = "absent" => job[i].state = "absent"
<1>1. job \in [Jobs -> JobRecords] /\ now \in Nat /\ None \notin Nat
  BY SchedulerAssumption DEF DueInv, SInv, TypeOK, JobRecords
<1>2. CASE CreateJob(j)
  <2>1. InitialRun(j) \in Nat /\ (InitialRun(j) <= MaxTime => InitialRun(j) \in Instants(j))
    BY <1>1, InitialRunInstant
  <2> QED BY <1>1, <1>2, <2>1 DEF CreateJob, DueInv, OnSchedule, Instants
<1>3. CASE PauseJob(j)
  BY <1>1, <1>3 DEF PauseJob, DueInv, OnSchedule, Instants, JobRecords
<1>4. CASE ResumeJob(j)
  <2>1. job[j].state = "paused" /\ job[j].next # None
    BY <1>1, <1>4 DEF ResumeJob, DueInv, OnSchedule
  <2>2. job' = [job EXCEPT ![j] = [state |-> "scheduled", next |-> job[j].next]]
    BY <1>1, <1>4, <2>1 DEF ResumeJob
  <2> QED BY <1>1, <2>1, <2>2 DEF DueInv, OnSchedule, Instants, JobRecords
<1>5. CASE CancelJob(j)
  BY <1>1, <1>5 DEF CancelJob, DueInv, OnSchedule, Instants, JobRecords
<1> QED BY <1>2, <1>3, <1>4, <1>5

\* What a tick does: the jobs that pass were due, and what is claimed was due.
LEMMA TickTold ==
  ASSUME DueInv, Ticks
  PROVE  \A j \in Jobs :
           \/ /\ job'[j] = job[j]
              /\ \A t \in 0 .. MaxTime :
                   row[<<j, t>>].status = "none" => row'[<<j, t>>].status = "none"
           \/ /\ job[j].state = "scheduled" /\ job[j].next <= now
              /\ job'[j].next = NextRun(j, now)
              /\ job'[j].state = IF NextRun(j, now) = None THEN "completed" ELSE "scheduled"
              /\ \A t \in 0 .. MaxTime :
                   /\ t > now /\ row[<<j, t>>].status = "none" => row'[<<j, t>>].status = "none"
                   /\ /\ t \in Due(j) /\ \A u \in Due(j) : u <= t
                      /\ Schedule[j].policy # "skip"
                      => row'[<<j, t>>].status = "claimed"
<1> DEFINE limit == IF fresh /\ StartupCap < Batch THEN StartupCap ELSE Batch
           sweep == Sweep(limit)
           new   == {o \in sweep.claims : row[o].status = "none"}
<1>1. /\ row' = [o \in Occurrences |-> IF o \in new THEN Claimed(o, 1) ELSE Recovered[o]]
      /\ job' = [j \in Jobs |->
                   IF j \notin sweep.passed THEN job[j]
                   ELSE [state |-> IF NextRun(j, now) = None THEN "completed" ELSE "scheduled",
                         next |-> NextRun(j, now)]]
  BY DEF Ticks, RunTick
<1>2. /\ sweep.passed = {j \in DueJobs : Room(limit, j) > 0}
      /\ sweep.claims =
           UNION {{j} \X Latest(Room(limit, j), DueOccurrences(j)) : j \in sweep.passed}
  BY DEF Sweep
<1> HIDE DEF sweep
<1>3. \A o \in Occurrences : row[o].status = "none" /\ o \notin new => row'[o].status = "none"
  <2> SUFFICES ASSUME NEW o \in Occurrences, row[o].status = "none", o \notin new
               PROVE  row'[o].status = "none"
    OBVIOUS
  <2>1. row'[o] = Recovered[o] /\ ~Active(o)
    BY <1>1 DEF Active, ActiveStatus
  <2> QED BY <2>1 DEF Recovered
<1>4. \A o \in sweep.claims :
        o[1] \in sweep.passed /\ o[2] \in Latest(Room(limit, o[1]), DueOccurrences(o[1]))
  BY <1>2
<1>5. ASSUME NEW j \in Jobs PROVE Latest(Room(limit, j), DueOccurrences(j)) \subseteq Due(j)
  BY DEF Latest, DueOccurrences
<1> SUFFICES ASSUME NEW j \in Jobs
             PROVE
           \/ /\ job'[j] = job[j]
              /\ \A t \in 0 .. MaxTime :
                   row[<<j, t>>].status = "none" => row'[<<j, t>>].status = "none"
           \/ /\ job[j].state = "scheduled" /\ job[j].next <= now
              /\ job'[j].next = NextRun(j, now)
              /\ job'[j].state = IF NextRun(j, now) = None THEN "completed" ELSE "scheduled"
              /\ \A t \in 0 .. MaxTime :
                   /\ t > now /\ row[<<j, t>>].status = "none" => row'[<<j, t>>].status = "none"
                   /\ /\ t \in Due(j) /\ \A u \in Due(j) : u <= t
                      /\ Schedule[j].policy # "skip"
                      => row'[<<j, t>>].status = "claimed"
  OBVIOUS
<1>6. \A t \in 0 .. MaxTime : <<j, t>> \in Occurrences
  BY DEF Occurrences
<1>7. CASE j \notin sweep.passed
  BY <1>1, <1>3, <1>4, <1>6, <1>7
<1>8. CASE j \in sweep.passed
  <2>1. job[j].state = "scheduled" /\ job[j].next <= now /\ Room(limit, j) > 0
    BY <1>2, <1>8 DEF DueJobs
  <2>2. /\ job'[j].next = NextRun(j, now)
        /\ job'[j].state = IF NextRun(j, now) = None THEN "completed" ELSE "scheduled"
    BY <1>1, <1>8
  <2>3. ASSUME NEW t \in 0 .. MaxTime, t > now, row[<<j, t>>].status = "none"
        PROVE  row'[<<j, t>>].status = "none"
    <3>1. t \notin Due(j)
      BY <2>3, SchedulerAssumption DEF Due, DueInv, SInv, TypeOK
    <3>2. <<j, t>> \notin new
      BY <3>1, <1>4, <1>5
    <3> QED BY <2>3, <3>2, <1>3, <1>6
  <2>4. ASSUME NEW t \in 0 .. MaxTime, t \in Due(j), \A u \in Due(j) : u <= t,
               Schedule[j].policy # "skip"
        PROVE  row'[<<j, t>>].status = "claimed"
    <3> DEFINE n == IF Schedule[j].policy = "bounded" THEN Schedule[j].count ELSE 1
    <3>1. DueOccurrences(j) = Latest(n, Due(j)) /\ 0 < n
      BY <2>4, ScheduleType DEF DueOccurrences
    <3> HIDE DEF n
    <3>2. Due(j) \subseteq Nat
      BY InstantsType DEF Due
    <3>3. t \in DueOccurrences(j)
      BY <2>4, <3>1, <3>2, LatestIsKept
    <3>4. DueOccurrences(j) \subseteq Due(j) /\ DueOccurrences(j) \subseteq Nat
      BY <3>1, <3>2 DEF Latest
    <3>5. t \in Latest(Room(limit, j), DueOccurrences(j))
      <4>1. \A u \in DueOccurrences(j) : u <= t
        BY <2>4, <3>4
      <4>2. 0 < Room(limit, j)
        BY <2>1
      <4> QED BY <3>3, <3>4, <4>1, <4>2, LatestIsKept
    <3>6. <<j, t>> \in sweep.claims
      BY <1>2, <1>8, <3>5
    <3>7. row[<<j, t>>].status = "none"
      <4>1. job[j].next # None /\ job[j].next <= t
        BY <2>1, <2>4, SchedulerAssumption DEF DueInv, OnSchedule, Due
      <4> QED BY <4>1 DEF DueInv, Unmade
    <3>8. row'[<<j, t>>] = Claimed(<<j, t>>, 1)
      BY <3>6, <3>7, <1>1, <1>6
    <3> QED BY <3>8 DEF Claimed
  <2> QED BY <2>1, <2>2, <2>3, <2>4
<1> QED BY <1>7, <1>8

\* The invariant of catching up is inductive.
LEMMA DueStep ==
  ASSUME DueInv, [Next]_vars
  PROVE  DueInv'
<1>1. SInv'
  BY SInvStep DEF DueInv
<1>2. now \in Nat /\ None \notin Nat /\ MaxTime \in Nat
  BY SchedulerAssumption DEF DueInv, SInv, TypeOK
<1>3. \A j \in Jobs, t \in 0 .. MaxTime : <<j, t>> \in Occurrences
  BY DEF Occurrences
<1>4. CASE UNCHANGED vars
  BY <1>1, <1>4 DEF vars, DueInv, OnSchedule, Unmade, Instants
<1>5. ASSUME Next, ~Ticks,
             NEW j \in Jobs, CreateJob(j) \/ PauseJob(j) \/ ResumeJob(j) \/ CancelJob(j)
      PROVE  DueInv'
  <2>1. OnSchedule'
    BY <1>5, JobsTold
  <2>2. ASSUME NEW i \in Jobs, NEW t \in 0 .. MaxTime,
               job'[i].state = "absent" \/ (job'[i].next # None /\ job'[i].next <= t)
        PROVE  row'[<<i, t>>].status = "none"
    <3>1. row[<<i, t>>].status = "none"
      BY <1>5, <2>2, JobsTold DEF DueInv, Unmade
    <3> QED BY <1>3, <1>5, <3>1, UnmadeStays DEF DueInv
  <2>3. Unmade'
    BY <2>2 DEF Unmade
  <2> QED BY <1>1, <2>1, <2>3 DEF DueInv
<1>6. CASE Ticks
  <2>1. ASSUME NEW j \in Jobs, job'[j].state \in {"scheduled", "paused"}
        PROVE  job'[j].next \in Nat /\ (job'[j].next <= MaxTime => job'[j].next \in Instants(j))
    <3>1. CASE job'[j] = job[j]
      BY <2>1, <3>1 DEF DueInv, OnSchedule
    <3>2. CASE job'[j] # job[j]
      <4>1. job'[j].next = NextRun(j, now) /\ NextRun(j, now) # None
        BY <1>6, <2>1, <3>2, TickTold
      <4> QED BY <1>2, <4>1, NextRunInstant
    <3> QED BY <3>1, <3>2
  <2>2. ASSUME NEW j \in Jobs, NEW t \in 0 .. MaxTime,
               job'[j].state = "absent" \/ (job'[j].next # None /\ job'[j].next <= t)
        PROVE  row'[<<j, t>>].status = "none"
    <3>1. CASE /\ job'[j] = job[j]
               /\ row[<<j, t>>].status = "none" => row'[<<j, t>>].status = "none"
      BY <2>2, <3>1 DEF DueInv, Unmade
    <3>2. CASE /\ job[j].state = "scheduled" /\ job[j].next <= now
               /\ job'[j].next = NextRun(j, now)
               /\ job'[j].state # "absent"
               /\ t > now /\ row[<<j, t>>].status = "none" => row'[<<j, t>>].status = "none"
      <4>1. NextRun(j, now) # None /\ NextRun(j, now) <= t
        BY <2>2, <3>2
      <4>2. NextRun(j, now) \in Nat /\ NextRun(j, now) > now
        BY <1>2, <4>1, NextRunInstant
      <4>3. t > now
        BY <1>2, <4>1, <4>2
      <4>4. job[j].next \in Nat /\ job[j].next # None /\ job[j].next <= t
        BY <1>2, <3>2, <4>3 DEF DueInv, OnSchedule
      <4> QED BY <3>2, <4>3, <4>4 DEF DueInv, Unmade
    <3> QED BY <1>6, <3>1, <3>2, TickTold
  <2>3. OnSchedule' /\ Unmade'
    BY <2>1, <2>2 DEF OnSchedule, Unmade, Instants
  <2> QED BY <1>1, <2>3 DEF DueInv
<1>7. CASE /\ Next /\ ~Ticks
           /\ \A j \in Jobs : ~CreateJob(j) /\ ~PauseJob(j) /\ ~ResumeJob(j) /\ ~CancelJob(j)
  <2>1. job' = job
    BY <1>7, JobsRest
  <2>2. OnSchedule'
    BY <2>1 DEF DueInv, OnSchedule, Instants
  <2>3. Unmade'
    BY <1>3, <1>7, <2>1, UnmadeStays DEF DueInv, Unmade
  <2> QED BY <1>1, <2>2, <2>3 DEF DueInv
<1> QED BY <1>4, <1>5, <1>6, <1>7

\* A job that moves past an instant has its latest due one claimed.
LEMMA MovingFires ==
  ASSUME DueInv, [Next]_vars, NEW j \in Jobs, Schedule[j].policy # "skip"
  PROVE  Fired(j)
<1> SUFFICES ASSUME job[j].state # "absent", job'[j].next # job[j].next
             PROVE  \E t \in Due(j) :
                      (\A u \in Due(j) : u <= t) /\ row'[<<j, t>>].status = "claimed"
  BY DEF Fired
<1>1. Next
  BY DEF vars
<1>2. Ticks
  BY <1>1, JobsRest, JobsTold
<1>3. job[j].state = "scheduled" /\ job[j].next <= now
  BY <1>2, TickTold
<1>4. now \in 0 .. MaxTime /\ MaxTime \in Nat /\ Due(j) \subseteq Nat
  BY SchedulerAssumption, InstantsType DEF DueInv, SInv, TypeOK, Due
<1>5. job[j].next \in Due(j)
  <2>1. job[j].next \in Nat /\ job[j].next <= MaxTime
    BY <1>3, <1>4 DEF DueInv, OnSchedule
  <2> QED BY <1>3, <2>1 DEF DueInv, OnSchedule, Due
<1>6. Due(j) \in SUBSET (0 .. MaxTime)
  <2>1. ASSUME NEW t \in Due(j) PROVE t \in 0 .. MaxTime
    <3>1. t \in Nat /\ t <= now
      BY <1>4 DEF Due
    <3> QED BY <1>4, <3>1
  <2> QED BY <2>1
<1>7. PICK t \in Due(j) : \A u \in Due(j) : u <= t
  BY <1>5, <1>6, LatestOf
<1>8. row'[<<j, t>>].status = "claimed"
  BY <1>2, <1>6, <1>7, TickTold
<1> QED BY <1>7, <1>8

----------------------------------------------------------------------------
(***************************************************************************)
(* The theorems.                                                           *)
(***************************************************************************)
\* SInv is inductive: every state the scheduler reaches, whatever its jobs, its
\* attempts and the lives of its daemon, satisfies it.
THEOREM SchedulerInvariant == Spec => []SInv
<1>1. SInv /\ [Next]_vars => SInv'
  BY SInvStep
<1> QED BY <1>1, SInvInit, PTL DEF Spec

\* Every reachable state is well-typed, and exactly the active rows have an owner.
THEOREM SchedulerTypeCorrect == Spec => []TypeOK
<1>1. SInv => TypeOK
  BY DEF SInv
<1> QED BY <1>1, SchedulerInvariant, PTL

\* A successful occurrence names an agent run that completed, whatever attempts
\* were made before it and whatever lapsed, crashed or was cancelled meanwhile.
THEOREM SuccessIsCompletion == Spec => []SuccessNamesCompletedRun
<1>1. SInv => SuccessNamesCompletedRun
  BY DEF SInv
<1> QED BY <1>1, SchedulerInvariant, PTL

\* What was put into the channel outbox remains the result of its occurrence.
THEOREM DeliveryIsOfRecord == Spec => []DeliveredIsRecorded
<1>1. SInv => DeliveredIsRecorded
  BY DEF SInv
<1> QED BY <1>1, SchedulerInvariant, PTL

\* An occurrence is delivered once: the outbox never holds the results of two of its
\* attempts, whichever were retried and whichever tasks came late.
OneResultDelivered == \A s, t \in outbox : s[1] = t[1] => s = t

THEOREM DeliveredAtMostOnce == Spec => []OneResultDelivered
<1>1. SInv => OneResultDelivered
  BY DEF SInv, DeliveredIsRecorded, OneResultDelivered
<1> QED BY <1>1, SchedulerInvariant, PTL

\* create_retry, complete and the agent runs: attempts are counted forward, a success and
\* the agent run that it names stay, and an agent run that has ended is not submitted again
\* or cancelled, whatever a stale task, a recovery or a request to cancel does.
ResultsAreFinal ==
  [][/\ \A o \in Occurrences :
          /\ row'[o].attempt >= row[o].attempt
          /\ row[o].status = "succeeded" =>
               row'[o].status = "succeeded" /\ row'[o].run = row[o].run
     /\ \A t \in Tasks : agent[t] \notin {"absent", "active"} => agent'[t] = agent[t]]_vars

THEOREM ResultsStay == Spec => ResultsAreFinal
<1> DEFINE Stays ==
      /\ \A o \in Occurrences :
           /\ row'[o].attempt >= row[o].attempt
           /\ row[o].status = "succeeded" =>
                row'[o].status = "succeeded" /\ row'[o].run = row[o].run
      /\ \A t \in Tasks : agent[t] \notin {"absent", "active"} => agent'[t] = agent[t]
<1>1. SInv /\ [Next]_vars => [Stays]_vars
  BY SoundStep DEF Sound, RowsFollow, Follows, AgentsFollow
<1>2. [][Stays]_vars => ResultsAreFinal
  BY PTL DEF ResultsAreFinal
<1> HIDE DEF Stays
<1> QED BY <1>1, <1>2, SchedulerInvariant, PTL DEF Spec

\* A request to cancel an attempt stands: from then on the attempt cannot succeed
\* and nothing of it is enqueued, wherever its task, its agent run, its delivery
\* and the ticker were when the request came.
THEOREM CancellationStands == Spec => CancelStands
<1>1. ASSUME SInv, [Next]_vars, NEW o \in Occurrences, row[o].cancel
      PROVE  /\ row'[o].status = "succeeded" => row[o].status = "succeeded"
             /\ \A t \in outbox' \ outbox : t[1] # o
  <2>1. CASE UNCHANGED vars
    BY <2>1 DEF vars
  <2>2. CASE Next
    BY <1>1, <2>2, SchedulerAssumption, CancelledNeverSucceeds, OnlyUncancelledEnqueued
    DEF NoNewSuccess
  <2> QED BY <1>1, <2>1, <2>2
<1> DEFINE Stands ==
      \A o \in Occurrences : row[o].cancel =>
        /\ row'[o].status = "succeeded" => row[o].status = "succeeded"
        /\ \A t \in outbox' \ outbox : t[1] # o
<1>2. SInv /\ [Next]_vars => [Stands]_vars
  BY <1>1
<1>3. [][Stands]_vars => CancelStands
  BY PTL DEF CancelStands
<1> HIDE DEF Stands
<1> QED BY <1>2, <1>3, SchedulerInvariant, PTL DEF Spec

\* The invariant of catching up: besides SInv, a job that is scheduled or paused
\* stands at an instant of its schedule, and from there on it has no rows.
THEOREM CatchingUpInvariant == Spec => []DueInv
<1>1. ASSUME Init PROVE OnSchedule /\ Unmade
  BY <1>1 DEF Init, OnSchedule, Unmade, Occurrences, NoRow
<1>2. Init => DueInv
  BY <1>1, SInvInit DEF DueInv
<1>3. DueInv /\ [Next]_vars => DueInv'
  BY DueStep
<1> QED BY <1>2, <1>3, PTL DEF Spec

\* A job that catches up fires: whatever its schedule, the batch, the cap at startup
\* and the number of instants that fell due, it never moves past them without the
\* claim of the latest.
THEOREM CatchingUpFires == Spec => CatchUpFires
<1> DEFINE Fires == \A j \in Jobs : Schedule[j].policy # "skip" => Fired(j)
<1>1. DueInv /\ [Next]_vars => [Fires]_vars
  BY MovingFires
<1>2. [][Fires]_vars => CatchUpFires
  BY PTL DEF CatchUpFires
<1> HIDE DEF Fires
<1> QED BY <1>1, <1>2, CatchingUpInvariant, PTL DEF Spec
=============================================================================
