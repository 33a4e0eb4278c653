# A TLA+ model of polaris-agent

This directory holds a formal model of the durable core of polaris-agent: what the code in
`src/polaris` does with its SQLite rows, its asyncio tasks and its leases, what must be true of
them whatever crashes, expires, races or is sent twice, the TLC runs that look for a
counterexample on small instances, and the theorems that TLAPS proves for every size.

Contents: 1 the system, 2 the modules and how they correspond to the code, 3 the runs, 4 fairness,
5 what is proved and how, 6 where the code and its documents disagree, 7 behaviour worth knowing,
8 abstractions and what is not modelled, 9 the plan.

## 1. The system

One daemon process (`polarisd`) serves an HTTP API to the command line and the desktop
application. All handlers, the scheduler, the channel adapters and one task per agent run share one
asyncio event loop; all durable state is in one SQLite database in WAL mode, written in
`BEGIN IMMEDIATE` transactions, next to a directory of content-addressed artifacts. The daemon may
die at any moment; nothing but the database survives it. A supervisor starts it again. Nothing in
the code keeps a second daemon from opening the same database.

| Component | State it keeps | Operations | Interacts through |
|---|---|---|---|
| Journal (`journal/`) | runs, steps, leases, receipts, events, provider calls, reservations, approvals, artifacts | create and mark runs; create, claim, heartbeat, commit, fail, mark uncertain, cancel and reclaim steps; reserve and settle budget; start and complete provider calls; request and decide approvals | called by everything; one transaction per call |
| Agent runtime (`runtime/`) | a task per run: where it stands, the step it holds, the provider's reply | `execute`: approvals, recovery of uncertain steps, the loop of model steps and tool groups | journal, provider, tools |
| Agent service (`service.py`) | the tasks of the runs, the future of each | submit, start-up recovery, decide, resume, cancel, close; entry points of scheduler, channels, memory | journal, runtime, ensemble, scheduler, harness |
| Ensemble (`ensemble/`) | a parent run and child runs in the journal | fan-out of workers, verification, synthesis | journal, runtime of the children |
| Scheduler (`scheduler/`) | `jobs` and `job_runs`; a ticker task, a task per execution and per delivery | create, pause, resume, cancel jobs; tick; execute; retry; deliver | service (submit, wait, cancel), channel outbox |
| Channels (`channels/`, `harness/`) | inbox, conversations, outbox, adapter offsets | receive, process, notify, lease and send outbox messages | service, Telegram, Slack |
| Memory (`memory/`) | entries with revisions, tombstones, an audit trail, idempotency keys, a full-text index where SQLite has one | append, replace, remove, recall; memory tools with reconcile handlers | API, channel commands, agent runs (tools, snapshot at submission) |
| Tools, providers | none of their own | run a tool, send a request | called by the runtime, affect the outside |
| Backup (`backup/`) | the data directory, an external configuration file, a marker file | export; import with rollback; recovery by the next backup command | replaces the database under everything else |
| Configuration, secrets, CLI, desktop | files | offline or per request | database, API |

What is hard here, and what makes each component correct:

- **Journal.** Workers die while they hold a step; leases are time-outs, so the former holder may
  come back. Correct: a live lease is not taken from its owner; a step with an effect that must not
  be repeated is granted once; what is settled never changes; an external key names one run.
- **Budget.** Reservations and settlements are repeated after a crash. Correct: nothing is counted
  twice, no counter becomes negative, limits hold.
- **Runtime.** A crash can fall between the effect of a tool and its record, between a reply and its
  commit, between two transactions of a recovery. Correct: a reconcilable tool takes effect once, an
  opaque one only again after an operator agreed; recorded outcomes are reused; approval precedes
  execution; a run that ended stays quiet but for a write already under way; a run ends.
- **Scheduler.** Ticks come late, jobs are paused and cancelled meanwhile, a row's lease lapses while
  its task goes on waiting, a retry reuses the row, messages are enqueued and recorded in two steps.
  Correct: catching up never loses the occurrence it owes; a success names a completed agent run;
  what is delivered is the recorded result; cancellation stands; occurrences and deliveries end.
- **Channels.** Platforms redeliver, sending may succeed without an answer, a notification is several
  transactions long, a machine may sleep past its leases. Correct: nothing is sent again unless an operator says
  so; what a row says of the remote side is true; a message is completed together with its reply; results arrive.
- **Ensemble.** Workers run side by side, each in a child run with steps of its own; a crash, a failure or a cancellation
  meets them in different places, and the fan-out is put together again from what each has recorded. Correct: what completes is
  whole, within its slots and billed in full; nothing recorded is asked for again; nobody works on for a fan-out that ended; it ends.
- **Memory.** Clients and models change what they read earlier; a tool call may be cut off and judged from rows that others
  have changed since; an index may be missing for a session. Correct: no update is lost, a tool writes once, a verdict is true,
  a search finds what is there.
- **Telegram.** Asking with an offset makes Telegram forget; numbers may start again after a week; the bot may change.
  Correct: nothing is forgotten that is not stored, no update becomes two events, every update arrives.
- **Backup.** An import moves directories and files one by one, any of these operations may fail or be cut off, and so may the
  rollback and the recovery. Correct: nothing of the user is gone before the archive is in place, data and configuration end up
  together, an interrupted import does not stay interrupted.

`PROJECT.json` lists every component under "components" and, under "hazards", each place in the code
where one of these things can go wrong, with the properties that would notice.

## 2. Modules

```
StepOutcome  <=implements=  Journal
                               ^
                               | INSTANCE          Ledger     Approvals
                               +--------------------+------------+
                                                    |
                                               AgentRuntime   (UsesJournal, UsesLedger)
                                                    :
                                               seen from outside by
                              Scheduler,  Channels,  Ensemble,  MemoryStore

TelegramPoller   is one way into the inbox of Channels (its Ingest)
Restore          replaces the directory all the others keep their rows in
```

| Module | Models | State |
|---|---|---|
| `Journal` | `journal/journal.py`: runs, steps, leases, receipts | a function per column; "absent" is a row that does not exist; a clock |
| `StepOutcome` | the promise of the journal about a step: open, granted, result or in doubt | outcome and number of grants of each step |
| `Ledger` | `journal.py`: provider calls, `reserve_budget`, `settle_budget` | calls, reservations, the counters of runs |
| `Approvals` | `journal.py`: `request_approval`, `decide_approval` | a sequence of rows |
| `AgentRuntime` | `runtime/agent.py` and the part of `service.py` that drives one run | the three modules above, the task (`pc`, `cur`, `todo`, `reply`), the effects of tools and the writes that outlive their task |
| `Scheduler` | `scheduler/store.py`, `scheduler/engine.py`, their use in `service.py` | jobs, rows, tasks, deliveries, agent runs and outbox seen from outside |
| `Channels` | `channels/store.py`, `channels/processor.py`, `harness/channels.py`, their use in `service.py` | inbox, outbox, notifications; the pump and the monitor; runs, memory and the platform seen from outside |
| `Ensemble` | `ensemble/engine.py`, the service and the runtime as a fan-out and its children use them | parent and child rows, the model step of each child and stage with its holder, reservation and calls, results and artifacts, the place of each task |
| `MemoryStore` | `memory/store.py`, `memory/tools.py`, the runtime's recovery of a memory tool | entries, revisions with what their writer had seen, keys, index; what clients have read; one tool call |
| `TelegramPoller` | `channels/telegram.py` (polling), offsets and epochs in `channels/store.py` | Telegram's queue and numbers, the row of offsets, the events, the adapter |
| `Restore` | `backup/archive.py`: the import from the extracted replacement on, its rollback and recovery | what every path of the transaction holds, the marker, the operation at hand |
| `…Proofs` | theorems about the module they extend | |
| `MC…` | values for the constants | |

**One action is one transaction** together with the reads and decisions that lead to it, up to the
next await or the next transaction, so that a crash can fall between any two of them. A call that
raises is rolled back by SQLite; where the caller's reaction matters (a task that ends, a run that
is marked failed) the action says so, elsewhere it is a stuttering step. The clock read in front of a
transaction and the transaction itself are one instant.

**Journal.** `CreateRun`, `MarkRunStatus` (with `RunTransitions`, the table of the code), `CreateStep`,
`ClaimReadyStep`, `MarkExecuting`, `Heartbeat`, `CommitStep`, `FinishOwnedStep` (fail and
mark_uncertain), `CancelStep`, `ReclaimExpiredLeases`, `RecordReceipt`. Callers are arbitrary: any worker
name calls anything at any time. Sequence numbers may tie; the claim is then any first step.

**Ledger.** Sums over several resources at once, limits that may be NULL, a settlement above the
reservation (`overrun` is a history variable that says by how much).

**AgentRuntime.** `pc` names the place between two transactions: `execute` → `gate` (approvals) →
`uncertain` (recovery, one step of `todo` at a time) → `loop` (reconstruct) → model step or tool group →
`approve` → `claim` → `begin` → … → `commit`. A step is named by what its key is derived from, so planning the same
work again finds the same step. The journal's rows change only through the actions of `Journal`,
`Ledger` and `Approvals`; run `runtime_ends` checks that (`UsesJournal`, `UsesLedger`). Providers reply with any
set of tool calls or fail, tools take effect, raise or die with the daemon, operators decide, resume and cancel.
`Cancel` ends the task and with it the tool that it waits for, except a file write: `write_file` awaits a thread, which nobody stops.
`writing` holds the call whose thread runs on, and `WriteEnds` is the end of it, with the file replaced or not. Reconcilable tools
stand for `write_file` here; the terminal's process is killed before the cancellation goes on, memory tools contain no await, and the others only read.

**Scheduler.** A daemon life is a number and the owner name its engine draws. A row of `job_runs` is
the record `row[o]` of an occurrence `o = <<job, instant>>`; each attempt has a task
(`claimed → running → submitted → waiting`) and at most one agent run, named by the attempt. `Tick` is
the recovery of stale rows, the spawning of pending deliveries and the claims with the batch limit and the start-up cap, as
`tick` does them without an await. `TickFails` is a tick that raises before, between or after its transactions: `_run` has no
handler, so that the ticker has ended (`ticking`) until a daemon starts again. Leases are a flag: a lease lapses when nobody renews it, at any
moment the safety properties are concerned with.

**Channels.** One channel with its pump, which handles a message and sends one, in turn, and the monitor of
completions. The pump's place (`pump.at`) runs `inbox` → `handle` → `link` → `complete` or `fail` → `outbox` → `send` →
`answer` → `inbox`; `answer` is the time between the platform's acceptance and its answer, which the daemon cannot tell
from `send`. Handlers and the monitor's pass contain no await, so that nothing but a crash or the passing
of time comes between their transactions (`LoopFree`); while a request is out, everything else goes on. A row in
status processing or sending whose lease ran out is written "lapsed". The heartbeat is modelled with what asyncio does to the task: `cancelled`
is `task.cancelling() > 0`, and `LeaveContext` is the end of `_lease_heartbeat`. `delivered`, `retried` and `judged`
are history: what the platform accepted, and what operators decided.

**Ensemble.** `main` is the place of the fan-out's task, `place[t]` that of every other: a worker inside the fan-out (`<<w, "fan-out">>`), a worker's
child that an operator resumed by itself (`<<w, "solo">>`), a stage. Between two awaits a task holds the event loop (`Holding`, `LoopFree`),
so that only a crash or the passing of time comes between its transactions. A child has one current model step; a step is "held" while it is
claimed, by a living task or a dead one, and "lapsed" when its lease ran out. `Aborted` is `asyncio.TaskGroup`: the first failure
cancels the siblings, and a cancellation that meets a task in the exit of `_lease_heartbeat` is swallowed (`exiting`). `calls` counts
provider calls recorded, `spent` what the child's ledger counts; a crash between settling and committing makes them differ.

**MemoryStore.** An action is one transaction. `history[i][n].seen` and `.by` are history: the revision the writer presented, and who it was. A client keeps
in `view` what a search showed it, and may use it any time later. A session is opened with FTS5 or without; `Missing` is what
`_configure_fts` adds when an index is there again, and `blind` (history) names the entries that were changed without it. The tool
call goes `executing → applied → committed`; a crash makes it `uncertain`, `Reconcile` gives the verdict, and an
operator may send it round again.

**TelegramPoller.** `queue`, `confirmed`, `id` are Telegram's side: what it keeps, what it has forgotten because somebody asked with a higher
offset, and the numbers it gave. An answer is stored update by update, each with the offset in one transaction, so that
a crash may fall between two. `Probes`, `Offset`, `epochOffset`, `probing` are `_poll_offset` and the two fields of the adapter;
a poller that has ended asks no more, so what it remembers is dropped with it.

**Restore.** A step is one operation on the file system with the fsync behind it; `Done` says what it leaves, `After` which comes
next, `Torn` and `CutOff` what else is left when it fails or is killed. `Step`, `Fault` and `Crash` are therefore one action each
for all operations. `mode` tells the import, its rollback and a recovery apart, which share most operations. The contents of a path are what was
there before, what the archive brings, the `config.json` inside the old data ("inner"), or remains. `spoilt` is history:
a process left a disk that the next recovery takes for another one (`Misread`, section 7), or another command made a new data directory.

## 3. Runs

Bounds are named constants. Counters that only grow (clock, crashes, attempts, lives) are bounded in
guards; none of the bounds cuts an execution in the middle of an operation. Runs that are not asked about
deadlock have histories that come to an end (all runs terminal, all lives used).

| Run | Instance | Shows |
|---|---|---|
| `journal` | 2 runs, 2 steps (read-only, opaque), 2 workers, 1 receipt key, clock 2 | `UnsafeStepClaimedOnce`, `LiveLeaseRespected`, `SettledForever`; the journal implements `StepOutcome` (`KeepsStepPromise`) |
| `ledger` | 2 runs, 3 reservations of 1 or 2 tokens, settlements of 0, 1 or 3, one limit | `ReservedIsOutstanding`, `LimitRespected` |
| `runtime` | read-only, reconcilable and opaque tools, 2 iterations, 2 crashes, 7 provider calls | `ToolRunsApproved`, `EffectsBounded`, `CompletedRunIsSettled`, `OutcomesReused`, `EndedRunIsQuiet` |
| `runtime_ends` | an idempotent tool, 1 crash, token budget 2, usage above the reservation | `RunEndsUnlessOrphaned`; the runtime implements `Journal` and `Ledger` |
| `scheduler` | one occurrence with delivery, 3 lives, 3 attempts | `SuccessNamesCompletedRun`, `DeliveredIsRecorded`, `CancelStands`, `OccurrenceEnds`, `DeliveryDecided` |
| `catch_up` | a one-time and an interval job, three occurrences, batch 2, start-up cap 1 | `CatchUpFires` |
| `channels` | a run with a result of two chunks followed by a denied message, a run followed by `/memory add`, a gated run followed by its decision; 2 faults | `NoBlindResend`, `OutcomeHonest`, `NoticeComplete`, `ReplyIsCompletion`, `MessageSettled`, `ResultReturned` |
| `ensemble` | 2 workers with slots of two calls, 1 crash, 1 trouble (failure, cancellation, suspension, operator) | `CompletedIsWhole`, `CostIsHonest`, `NobodyWorksForEnded`, `FanoutEnds` |
| `ensemble_restart` | 2 workers with ample slots, nothing but 1 crash | violates `FailsForCause` (section 6) |
| `memory` | 2 entries of 3 revisions, 2 contents of which one is unsafe, 1 key, 1 client, 1 tool call, 3 sessions | `NoLostUpdate`, `SearchFinds`, `ToolWritesOnce`, `VerdictIsTrue` |
| `telegram` | 3 updates, 2 bots, numbers up to 3, 2 weeks, 3 lives, 2 conflicts in a row | `ForgottenIsStored`, `OneEventPerUpdate`, `UpdateArrives` |
| `restore` | every machine (with data or not, configuration inside, outside or missing), 3 crashes, 3 failed operations | `NothingLost`, `RestoreIsWhole`, `RecoveryEnds` |

Why the bounds suffice for what is asked:

- Two workers, one step of each kind and one clock tick past a lease give every order of claim, expiry,
  reclaim, second claim and late settlement. Rows of different steps interact only through the order of
  claims and a shared receipt key, for which two steps suffice.
- Three reservations and two runs give repetition, conflict and exhaustion of a limit.
- Two crashes of the runtime give a crash, and a crash while recovering from it; the third would meet the
  same choice with one recovery more. Two iterations give a repeated group and the limit of iterations; a reply with
  two calls gives a group that is interrupted between them. `MaxTime` and `MaxProviderCalls` are large
  enough not to be reached in the liveness run before the run ends.
- Three lives and three attempts of one occurrence give a stale task of one attempt, a retry, and a
  crash in each. Jobs share nothing but the limit of a tick, which `catch_up` exercises with two jobs.
- Two messages of a chat meet where the second changes what the first depends on: its memory snapshot, its approval, or only
  the order. Two faults (crash, suspension, failed send, operator retry, in any mixture) give an unclear send and its
  retry, a suspension and a crash while recovering from it; two chunks give a notification that is cut in half.

- Two workers give a failure, a crash or a swallowed cancellation of one in every place of the other; a third would repeat
  one of them. Slots of two calls are exhausted by one repeated call. One crash together with one trouble gives a restart
  that meets each of the others; two crashes repeat the restart, which starts from the same rows.
- Two entries and two contents give equal contents, a search that must tell entries apart, and a tool call that
  finds its content in an entry of somebody else. Three revisions allow a change on each side of the tool's. Three sessions give an index,
  none, and one again. Contents, entries and clients are interchangeable, which the run uses as symmetry (none of its properties is temporal).
- Three updates and two weeks give an answer cut in half by a crash, numbers used twice, and a second idle week; two
  bots a replacement; three lives a crash before and after each.
- Three crashes and three failures of a restore cut off the import, its rollback, the recovery, and the recovery after that.

Type invariants are stated as `TypeOK` in their modules; those of the modules with a proof module are theorems, and the runs leave
them out.

Every property of a passing run has a mutant in `PROJECT.json`: a change of one definition, as a plausible
bug would make it, that breaks the property in the same run.

## 4. Fairness

- `AgentRuntime!LiveSpec`: weak fairness of the task (the event loop runs what is ready) and of the start of
  the daemon (the supervisor), strong fairness of the clock while a lease is live, of resuming and of
  deciding: an operator who can act again and again eventually does. Crashes, failures, cancellation, heartbeats and reclaims by
  other runs get none. `Patient` operators wait for live leases before they resume: a run that is resumed earlier spins (section 7).
- `Scheduler!LiveSpec`: weak fairness of starting the daemon, of ticks while the ticker lives, of each task's next step, and of
  the lapse of a lease that no task renews. Agent runs owe no end, so `OccurrenceEnds` excepts a row whose live task waits for a
  running agent. A tick that raises ends the ticker, and nothing but a restart replaces it: a ticker that stays dead (`[]TickerDead`) is the
  exception of `OccurrenceEnds` and `DeliveryDecided`. Failures of ticks owe nothing and need not stop.
- `Channels!LiveSpec`: weak fairness of the pump, of a monitor's pass once begun, of the end of leases nobody works on and of
  starting the daemon; strong fairness of beginning a pass, since the event loop returns to it again and again. Platforms
  answer or the request times out, which is part of the pump. Operators, users and agent runs owe nothing; faults are
  bounded, so that the daemon is at last left alone.

- `Ensemble!FairSpec`: weak fairness of `Progress`: the event loop runs what is ready, the service manager starts the daemon, which takes the fan-out
  up or leaves it to an operator who resumes it, and leases of the dead run out. Failures, cancellations, suspensions, decisions
  on a child and its resumption owe nothing.
- `TelegramPoller!FairSpec`: weak fairness of polling (`poll_forever` retries after every error of Telegram, so one request gets through),
  of storing what came, and of starting the daemon.
- `Restore!Spec`: weak fairness of the running process, and of recovery: the code runs it only when somebody gives a backup command,
  so that `RecoveryEnds` is a promise to those who do.

## 5. Proofs

TLAPS checks the theorems below for every value of the constants that the ASSUMEs of the modules allow
(TLC evaluates those on every run).

- `JournalProofs`. `TypeCorrect`, and from it `LeasesCoherent`, `OneRunPerKeyHolds`, `CommittedReceiptsStand`,
  `LiveLeasesRespected`, `SettledIsForever`. `UnsafeClaimedOnce` needs a strengthening, `UnsafeInv`: an unsafe step that is
  absent or ready was never claimed (`ReadyUnclaimed`); the bound alone is not inductive, since it says nothing of a
  step that is about to be claimed. `JournalImplementsStepOutcome`: the refinement mapping sends
  initial states to initial states and every step to an abstract step or a stutter, one lemma per kind of action.
- `LedgerProofs`. `LInv`: types, finiteness of the outstanding units and `ReservedIsOutstanding`. It is needed for the type itself:
  that `reserved` does not become negative follows only from its being a sum that contains the settled reservation.
  `LimitsRespected` follows with arithmetic over it.
- `AgentRuntimeProofs`. First, that every step of the runtime is one operation of the journal and one of the ledger, or none
  (`RunUsesJournal`, `RunUsesLedger`). This makes the modules compose: the proofs of `Journal` and `Ledger` are instantiated
  with the runtime's variables (`JP`, `LP`), and their step lemmas are cited where the runtime needs what its database
  promises: types, that what is terminal stays so, that an unsafe step is granted once, that a settled reservation is no longer
  counted. The inductive invariant has five parts, each of which needs those before it.
  - `Inv1`: the task's own variables fit the point it has reached and the row of the step it is at (`CurFits`, `TodoFits`,
    `ReplyFits`), only unsafe steps are in doubt, a run that ended has no task past its start (`EndedIsIdle`).
  - `Inv2`: the order in which steps are made. The retries of a call are a chain without gaps in which all but the last were
    resolved by an operator or a reconciliation (`Chain`), a call follows the output of the one before it (`InOrder`), an
    iteration follows the whole of the former, and what each point of the task may presume of that. It carries `ToolsRunApproved` (a step that was handed out
    was approved, or is the retry that an approval made: `RunsApproved`, with `ClaimApproved` for the step about to be) and `RecordedIsReused`.
  - `Late`: a write that outlived its task belongs to a run that was cancelled, and to the last try of its call, which is left without an outcome.
  - `Inv3`: which try has spent an effect. When an opaque call took effect n times, a try at least n - 1 retries deep has spent it (`OpaqueSpent`);
    a reconcilable call takes effect once and in its last try (`ReconcilableSpent`), and a reconciliation that found no effect was right
    (`NotProvenNoEffect`); a try that a thread still writes for has spent nothing yet (`WritesUnspent`), so `EndedRunStaysQuiet` follows. Since every retry in `Chain` was approved by a request of its own, `EffectsAreBounded` is a count of these requests.
  - `Inv4`: provider calls and reservations hang on a model step that is open, so that a run without open steps has none (`CompletedIsSettled`).

  That an incomplete chain of tries has a first incomplete one needs the well-foundedness of the naturals, which is cited for a set (`WFMin`).
  Assumed of the constants: `AgentRuntimeAssumption`, and that `None` is none of the rows (`NoneAssumption`).
- `SchedulerProofs`. `SInv`: types; attempts not made yet left no trace and a task that has not submitted has no agent run
  (`Unsubmitted`, without which `Submit` could overwrite a completed run); a row names only agent runs of its own
  (`OwnRun`); and the two properties. Every action is shown to change rows only to rows that may follow
  (`Follows`: no success taken back, success only on a completed run), which is what carries
  `SuccessIsCompletion` and `DeliveryIsOfRecord`. `CancellationStands` is an action property over the same invariant: every transaction
  that completes a row reads the request again, and `Enqueue` names a run of the very row whose request it has read (`OwnRun`).
  `CatchingUpFires` needs `DueInv` besides: a scheduled or paused job stands at an instant of its schedule (`OnSchedule`, so that the set of its due
  instants is not empty when it is due) and has no rows from there on (`Unmade`, so that the insertion of the latest is not ignored). Due instants
  are bounded by the clock, hence one is the latest (well-foundedness, cited for a set); the latest is among the n latest that the policy asks for, and among
  those that the room left by the jobs in front allows, for every room above zero. `Unmade` is also why `Sweep` may count what jobs in front of
  another are due instead of what was inserted for them, as `claim_due_runs` does.
  Two results that no run states follow from the same steps (`SoundStep`): an occurrence is delivered once, whichever of its attempts were retried
  (`DeliveredAtMostOnce`), and attempts, successes and agent runs that ended are final (`ResultsStay`).
- `ChannelsProofs`. `CInv`: types; that the row being sent belongs to the pump and, before the platform accepted it, has an
  attempt left (`Underway`), and that rows not there yet were not sent (`AbsentUnsent`), without which `NoBlindResend` is not
  inductive: it allows a row that is about to be sent although its attempts are used up; that the chunks of the notification in progress are
  durable (`NoticeProgress`); and the properties. `StepKinds` sorts the steps into those that leave outbox rows to
  themselves, recover them, crash, or touch one row; only the last kind needs an argument. Nothing in the proof uses the
  bound on faults. `ChatsAreToldTheTruth`, which no run states, relates the chat to the rest of the program: what a completed message asked for (a run that is
  linked, an entry in the memory, a decision) was done and stays done, and a notice tells of what has happened. It rests on what the handler has done before
  the reply (`Handled`), on what the monitor has seen before the first of its chunks (`Telling`), and on no step undoing either (`DoneStays`).
- `ChannelsProofs`, last section, about `TelegramPoller` (whose names differ from those of `Channels` for its sake). `PInv`: types; `EventsTold`, `QueueTold` and
  `AdapterTold`, what rows, Telegram and the adapter say of one another (what the
  adapter remembers is the stored offset, or that it asks for everything; what is stored and still queued lies below
  the offset); and `Ahead`: a queued update that is neither stored nor unheard lies ahead of the offset while the adapter asks with one, and
  numbers fall behind the offset only after the week, where either the adapter notices or an update went unheard.
  `ForgottenIsStored` alone says nothing of the next request.
- `EnsembleProofs`. `EInv`: types; `Waited`, that tasks of the fan-out exist only while its main task waits for them, and that one only while the
  parent is open, from which `NobodyWorksForEnded` follows; `Behind`, what the main task has behind it wherever it stands (children, results, committed stages,
  written artifacts, a cost that is right); and, because a worker's child may at the same time be run by itself, who owns a step. `CostIsHonest` is the
  hard one: it needs that no call starts once cost.json is written, hence that a worker that has answered never claims a step again, hence that two tasks
  of one child do not both commit. One task holds the event loop (`OneHolds`), so no lease runs out between `Claim`, `Call` and the tasks that go on
  from there: a task that has claimed or settled still owns its step (`HoldersOwn`), and of a child that has given its final answer nobody does
  (`FinalIsLast`, `NoCallsBehind`). `Answers` ties a result to a completed child and that to a final answer. Two lemmas carry the actions of tasks: one that
  stops (`StopStep`) and one that goes on (`MoveStep`), whatever becomes of the step it holds (`HandsOf`). `Ensemble!TypeOK` is not proved, only its
  part without numbers (`Types`): that a sum of naturals is a natural is induction over data.

- `MemoryStoreProofs`. `MInv`: types; `Books` (the audit trail is complete and no update is lost, which need each other: that a
  revision's writer had seen the one before is a statement about positions in the trail); `KeysTold`; `IndexTold`, what a row of the index may say, from which
  `SearchesFind` follows; and `ToolTold`: what the tool wrote last, and that its entry has moved past the
  expected revision once it took effect, without which neither `ToolWritesOnce` nor `VerdictIsTrue` is inductive, since they say nothing of a call that is
  about to be repeated. Lemmas say what `Write` does to each part; each action is then a `Write` or leaves the rows alone.
- `RestoreProofs`. `IInv` says of every operation where the copy of what it may remove or overwrite is (`Moving`, `Configuring`,
  `Backward`, `Ending`), and of every disk between two processes what the marker means there (`Resting`). `NothingLost`
  alone is not inductive: it does not say that a rollback which clears the target still has the old data, nor that
  a kept copy is not a part of one. `StepKeeps` has one case per operation, `Interrupted` one per operation that fails or is cut off; the
  rest follows from what these leave. `RestoresAreWhole` needs more than `IInv`: which configuration goes with
  which data at each operation (`ConfigFollows`), that copies are removed only while the cleanup runs and in its order (`Cleaning`), and what a report
  promises (`Reported`). Its last section proves what `RecoveryEnds` rests on besides fairness: a recovery never comes to a marker with nothing beside it nor
  to an import whose config.json is missing (`RecoveriesGoOn`, which needs that without data to put back the archive's stays until it is in
  place, `Source`); every operation, also one that fails, leaves fewer to do (`ProcessesEnd`, with `Remaining` as the variant: a failure
  may start the rollback, and the rollback starts nothing); and a process that nothing disturbs removes the marker (`UndisturbedProcessesEndClean`).

Only model-checked: all liveness (`RunEndsUnlessOrphaned`, `OccurrenceEnds`, `DeliveryDecided`, `MessageSettled`, `ResultReturned`, `FanoutEnds`,
`UpdateArrives`, `RecoveryEnds`), since fairness and ENABLED are out of the prover's reach; of `RecoveryEnds` the rest is proved. Every invariant and every action property that a run checks is
stated by a theorem.

## 6. Where the code and its documents disagree

A run that TLC must find violated:

- `FailsForCause` (`ensemble_restart`). Start-up recovery is documented to skip a run with an active lease, and looks at the
  parent's steps only: a fan-out whose worker was cut off in a model step is taken up at once, `_execute_worker` raises because the child is "not recoverable
  until its lease expires", and the whole fan-out is marked failed for good. Nothing but a crash and a quick restart is needed.

Read while modelling, and stated by no run, because the code is the stricter of the two or the document is an outline:

- `docs/scheduler.md:111` says "Polaris marks the scheduled occurrence successful after it creates the Polaris run". The service gives the
  engine a `wait` (`service.py:139`), which returns when the run has completed and raises when it ended otherwise (`_wait_scheduled`);
  `_execute` completes the row behind it (`engine.py:235`). So an occurrence is successful once its run is completed, which is what
  `SuccessNamesCompletedRun` says; the sentence would hold of an engine without `wait`.
- The diagram at `docs/durability.md:34` has a leased step return to ready when its lease expires before execution. `reclaim_expired_leases` looks at the
  safety class and not at the status: a leased step that is reconcilable or opaque becomes uncertain like an executing one (`journal.py:1382`).
- The same diagram takes an uncertain step back to ready by an approved retry. The code leaves the step uncertain for good and makes
  another, under a key of its own (`RetryUncertain`).

## 7. Behaviour worth knowing

These follow from the code and are part of the models. A property that would deny one of them excepts it by name.

*Journal and runtime*

- Ownership of a step is checked by `worker_id`, whose default is the constant "agent-runtime": two processes with the default can both hold a
  lease that the journal accepts, and a stale attempt of one may settle the step that was granted to the other. `LiveLeaseRespected` tells names apart, not attempts.
- Cancelling a run does not stop the thread in which `write_file` replaces the file: it may be replaced after the run is marked cancelled.
  `EndedRunIsQuiet` excepts this one write, once, of a call whose step stays without an outcome. A fan-out that fails cancels its workers in
  the same way, which `Ensemble`, where tools have no effects, does not show.
- A run that is resumed while a dead attempt still holds its model step spins: the loop neither waits for the lease nor
  reclaims it, and has no await, so that it keeps the event loop to itself.

- A crash between `fail_step` and marking the run leaves a failed tool step in an open run (`Orphaned`); no later
  `execute` gets past it.
- A group whose first call was uncertain and resolved by a retry while a later call is missing returns "paused" although the
  run's row says running.
- After a crash between `settle_budget` and `commit_step`, `reserve_budget` answers with the settled reservation: the repeated
  provider call is made, and never charged to the run. A fan-out counts recorded calls instead, and may end because of it.

*Scheduler and channels*

- With the default grace of zero seconds, policy skip drops every occurrence that the tick does not meet at its very instant, also when
  the daemon never stops (docs/scheduler.md describes it for a daemon that was not running).
- A task of an earlier attempt shares its owner name with the attempt that retried the row in the same daemon, so
  it may complete the row; what holds nevertheless is `SuccessNamesCompletedRun`.
- A tick that raises (a locked or full database is enough) ends the ticker, since `_run` awaits `tick()` without a handler. Until the daemon is started again
  nothing more is claimed or recovered and no delivery left pending is taken up; what is under way goes on. `background_failures` reports it and nothing else happens. What the tick has
  committed before stays: rows may be claimed without a task, until a later daemon finds their leases lapsed. `OccurrenceEnds` and
  `DeliveryDecided` except a ticker that stays dead (`TickerDead`).
- A crash between submission and `set_polaris_run_id` leaves an agent run that no row names.
- A crash between submitting a chat message's run and linking it, while the user's memory changes before the message is handled
  again: the memory snapshot is part of the run's configuration, so `create_run` refuses the known key, the message ends as failed without a
  link, and nobody is told the result of the run. `ResultReturned` excepts a message that failed unlinked.
- A heartbeat that fails cancels the pump's task and nothing calls `uncancel()`; the next time the pump leaves a lease's context,
  `CancelledError` is raised and ends it (`PumpDead`). No message of the platform is handled or sent until the daemon is started again,
  and half a result stays unsent. A machine that sleeps longer than a lease while a message is being sent is enough.
  `MessageSettled` and `ResultReturned` are stated "while the pump lives" for this reason.
- Somebody who decides an approval that was decided by somebody else gets no reply: the message fails.
- Telegram: the adapter measures the week without updates from the last one it stored, later than Telegram does, and only once in its life
  (`_epoch_offset` hides later weeks). An update that is sent under a low number in between is not heard and is forgotten (`deaf`).
  A store that raises ends `poll_forever`, and so do conflicts in a row. A bot that is configured again within a day after another one
  delivers again what is still queued, under a new epoch (bots do not come back in the model).
- The limit of a tick cuts older occurrences of a job off for good; the latest is always claimed.

*Ensemble and memory*

- The children of a fan-out that failed or was cancelled stay running or created; nothing ends them.
- A worker's child that an operator resumes by itself while the model step of a dead task is held spins like a run, and keeps the fan-out
  from ending (`Spins`).
- A cancellation that reaches a task in the exit of its heartbeat is swallowed by `suppress(CancelledError)`; the task goes on to its next await.
- `memory_add` is recognised by its content: when the entry it made was changed or removed before recovery, reconciliation answers
  "not applied", and an approved retry adds the content again.
- Entries that are revised in a session without FTS5 keep their former text in the index of a later session.

*Backup* (the first four are what `spoilt` excepts)

- A rollback that is cut off, or fails, while it removes the archive's data leaves remains under the name of the data directory; the next
  recovery takes them for the import's and removes the old data, or finds no `config.json` and fails for ever.
- A rollback or a recovery that is cut off after the old data is back and before the marker is gone: the next recovery sees a data directory and
  a phase past "prepared", and copies the old data's inner `config.json` over the external configuration, or fails for ever if there is none.
- A recovery that adopts the replacement writes the phase after the rename; cut off in between, the next one leaves the external configuration
  as it was.
- Only backup commands read the marker. A daemon that is started while the data directory is moved away makes a new one, and the next recovery
  removes the old data for it.
- An import that fails on a machine without data reports a failure, and yet keeps or even installs the archive's data, with the
  old configuration or none (`RestoreIsWhole` names the case).

## 8. Abstractions

- Events, artifacts and message text are left out: written in the same transactions, never read for control.
- Hashes and derived keys are the values they are derived from. Receipt payloads are told apart by equality only.
- Cron, interval and one-time schedules are sets of instants; the clock of `Scheduler` is coarse.
- The list of at most 32 pending deliveries per tick is not cut off; enqueuing is one step with the reads in front of it, since
  the harness shares the event loop. One daemon at a time.
- `Channels` has one platform, whose ways of delivering (`TelegramPoller`, or Slack's ACKs) are one action, `Ingest`, that may repeat any
  message; a message the policy denies is one kind. Approving and denying are one decision. Commands that only read (`/status`, `/help`,
  `/cron`) are messages whose reply is all that happens, like `/memory add` without its effect. A reply has one chunk and a run one approval. Messages that the scheduler enqueues
  are in `Scheduler`.
- `Ensemble`: what workers say is left out; a reply asks for more, for a tool that needs approval, or is final. Limits in tokens and money work like the
  limit of calls and are left out, as are a change of the provider's model while a fan-out runs (`_durable_provider_step` would fail it) and the cancellation
  of a child by itself.
- `MemoryStore`: contents are whole contents, a search is for one of them, the scanner is a set. The API always demands an expected
  revision. `append_many` is several `Add`s in one transaction; export and the prompt that a run is given are reads.
- `Restore`: the archive (encryption, manifest, extraction) and the export, which changes no state, are left out, as are two backup commands at once and
  a daemon that keeps the database open during an import. A `.tmp` marker is invisible.
- Not modelled: providers and tools (their outcomes are chosen freely), daemon API, CLI, desktop, configuration, secrets,
  artifacts: no protocol between steps. Slack's adapter hands each event to `Ingest` before it acknowledges it. Cron expressions are sets of instants.

## 9. Plan

In order of importance; done: 1 to 9.

1. `Journal`, `StepOutcome` and their proofs.
2. `Ledger` and its proofs.
3. `Approvals`, `AgentRuntime` and its proofs.
4. `Scheduler` and its proofs.
5. `Channels` and its proofs.
6. `Ensemble` and its proofs.
7. `MemoryStore` and its proofs.
8. `TelegramPoller` and its proofs.
9. `Restore` and its proofs.
10. Cron matching as operators against a reference definition; Slack's acknowledgements.
