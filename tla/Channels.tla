------------------------------ MODULE Channels ------------------------------
(***************************************************************************)
(* One chat channel of the daemon: the inbox and outbox of ChannelStore,   *)
(* the pump that handles messages and sends replies (ChannelProcessor with *)
(* ChannelRouter as its handler), and the monitor that reports what became *)
(* of the agent runs (ChannelHarness).  The daemon may die at any moment   *)
(* and is started again; one daemon runs at a time.                        *)
(*                                                                         *)
(* An action is one transaction with the code around it, or one answer of  *)
(* the remote platform.  Handlers and the monitor's pass contain no await: *)
(* they hold the event loop, and only a crash or the passing of time comes *)
(* between their transactions.  A lease is live until it lapses: that of a *)
(* row nobody works on by itself, the others when the machine is suspended *)
(* for longer than a lease.                                                *)
(***************************************************************************)
EXTENDS Integers, Sequences, FiniteSets

CONSTANTS
  Messages,      \* messages of the chat: numbers, in the order of update_id
  Conversations, \* what the messages may be: kind, the run message a decision is about,
                 \* and the number of chunks of the run's final result
  MaxChunks,     \* bound: chunks
  MaxFaults,     \* bound: daemons that die, suspensions of the machine, sends that go wrong
                 \* and retries by operators
  None

\* A gated run pauses for an approval.  "denied": the sender or the chat is not allowed, or
\* the message is of a kind that the adapter ignores.
Kinds == {"run", "gated run", "remember", "decide", "denied"}

ASSUME BoundsAssumption ==
  /\ Messages \subseteq Nat
  /\ MaxChunks \in Nat \ {0}
  /\ MaxFaults \in Nat
  /\ None \notin Nat

ASSUME ConversationsAssumption ==
  /\ Conversations \subseteq [Messages -> [kind : Kinds, of : Messages \cup {None},
                                        chunks : 1 .. MaxChunks]]
  /\ \A c \in Conversations, m \in Messages :
       c[m].kind = "decide" => c[m].of \in Messages /\ c[c[m].of].kind = "gated run"

\* Idempotency keys: event id, suffix and chunk.
ReplyKey(m) == <<m, "reply", 1>>
Notices == Messages \X {"approval", "terminal"}
OutKeys == Messages \X {"reply", "approval", "terminal"} \X (1 .. MaxChunks)

VARIABLES
  asks,        \* what each message asks for
  inbox,       \* status of the inbox row of each message; "lapsed": processing, without a live lease
  linked,      \* messages whose row has a run_id
  run,         \* agent run with the message's downstream key: status, memory snapshot, approval
  memory,      \* remembered messages: the user's memory scope
  outbox,      \* status of each outbox row; "lapsed": sending, without a live lease
  order,       \* outbox rows in the order of created_at
  delivered,   \* how often the platform accepted each row's message
  retried,     \* how often an operator released each row for another attempt
  judged,      \* rows an operator marked as sent
  pump,        \* where the pump stands and what it works on
  cancelled,   \* the pump's task.cancelling() is not zero
  notice,      \* the notification the monitor is enqueuing
  notified,    \* rows of channel_notifications
  faults

storeVars == <<inbox, linked, outbox, order, judged, notified>>
worldVars == <<run, memory, delivered, retried>>
vars == <<asks, storeVars, worldVars, pump, cancelled, notice, faults>>

At(place, on) == [at |-> place, on |-> on]
IsAt(place, on) == pump.at = place /\ pump.on = on

Fault == faults < MaxFaults /\ faults' = faults + 1

\* A request for approval fits into one message.
Size(m, what) == IF what = "terminal" THEN asks[m].chunks ELSE 1
NoticeKeys(m, what) == {<<m, what, c>> : c \in 1 .. Size(m, what)}

StartsRun(m) == asks[m].kind \in {"run", "gated run"}
Down == At("down", None)

Handling == {"handle", "link", "complete", "fail"}
Sending  == {"send", "answer"}

\* The daemon runs and its event loop is free to start something else.
LoopFree == pump.at \notin Handling \cup {"down"} /\ notice = None

Init ==
  /\ asks \in Conversations
  /\ inbox = [m \in Messages |-> "absent"]
  /\ linked = {}
  /\ run = [m \in Messages |-> [status |-> "absent", memory |-> {}, approval |-> "none"]]
  /\ memory = {}
  /\ outbox = [k \in OutKeys |-> "absent"]
  /\ order = <<>>
  /\ delivered = [k \in OutKeys |-> 0]
  /\ retried = [k \in OutKeys |-> 0]
  /\ judged = {}
  /\ pump = Down
  /\ cancelled = FALSE
  /\ notice = None
  /\ notified = {}
  /\ faults = 0

----------------------------------------------------------------------------
(***************************************************************************)
(* Ingestion.  Messages arrive in order, and may arrive again: a platform  *)
(* repeats what the daemon has not confirmed, by the offset of a later     *)
(* poll or by an ACK.                                                      *)
(***************************************************************************)
\* The user decides on an approval only after it has been requested.
Arrives(m) ==
  /\ \A n \in Messages : n < m => inbox[n] # "absent"
  /\ asks[m].kind = "decide" => run[asks[m].of].approval # "none"

\* The decision of normalize_telegram_update and its policy.
Allowed(m) == asks[m].kind # "denied"

FirstStatus(m) == IF Allowed(m) THEN "received" ELSE "completed"

\* Mutant: a message that comes again replaces its row.
IngestReplacing(m) ==
  /\ LoopFree /\ Arrives(m)
  /\ inbox' = [inbox EXCEPT ![m] = FirstStatus(m)]
  /\ UNCHANGED <<asks, linked, outbox, order, judged, notified, worldVars, pump, cancelled,
                 notice, faults>>

\* ingest_telegram_update, ingest_envelope: INSERT ... ON CONFLICT DO NOTHING.
Ingest(m) ==
  /\ LoopFree /\ Arrives(m)
  /\ inbox' = IF inbox[m] # "absent" THEN inbox
              ELSE [inbox EXCEPT ![m] = FirstStatus(m)]
  /\ UNCHANGED <<asks, linked, outbox, order, judged, notified, worldVars, pump, cancelled,
                 notice, faults>>

----------------------------------------------------------------------------
(***************************************************************************)
(* Rows whose lease ran out, and the outbox.                               *)
(***************************************************************************)
\* Mutants: outbox rows are treated like inbox rows; rows are left alone.
RecoveredForResend == [k \in OutKeys |-> IF outbox[k] = "lapsed" THEN "pending" ELSE outbox[k]]
RecoveredNever     == inbox

RecoveredInbox  == [m \in Messages |-> IF inbox[m] = "lapsed" THEN "received" ELSE inbox[m]]
RecoveredOutbox == [k \in OutKeys |-> IF outbox[k] = "lapsed" THEN "unknown" ELSE outbox[k]]

\* _enqueue_outbox_locked: nothing happens when the key is there already.
Enqueue(k) ==
  IF outbox[k] # "absent" THEN UNCHANGED <<outbox, order>>
  ELSE outbox' = [outbox EXCEPT ![k] = "pending"] /\ order' = Append(order, k)

Older(j, k) ==
  \E a, b \in DOMAIN order : a < b /\ order[a] = j /\ order[b] = k

\* Leaving _lease_heartbeat without a failure of its own: a cancellation of the
\* task that was requested earlier is raised now, and ends the pump.
LeaveContext(place) == pump' = IF cancelled THEN At("dead", None) ELSE At(place, None)

----------------------------------------------------------------------------
(***************************************************************************)
(* process_inbox_once, with ChannelRouter.handle.                          *)
(***************************************************************************)
inboxFrame == <<asks, judged, notified, delivered, retried, cancelled, notice, faults>>

ClaimInbox(m) ==
  /\ LoopFree /\ pump.at = "inbox"
  /\ RecoveredInbox[m] = "received"
  /\ \A n \in Messages : n < m => RecoveredInbox[n] # "received"
  /\ inbox' = [RecoveredInbox EXCEPT ![m] = "processing"]
  /\ pump' = At("handle", m)
  /\ UNCHANGED <<linked, run, memory, outbox, order, inboxFrame>>

InboxEmpty ==
  /\ LoopFree /\ pump.at = "inbox"
  /\ \A m \in Messages : RecoveredInbox[m] # "received"
  /\ pump' = At("outbox", None)
  /\ UNCHANGED <<storeVars, run, memory, inboxFrame>>

\* submit_single with the downstream key as external key.  The run's configuration
\* holds the memory snapshot; create_run refuses a known key with another one.
SubmitRun(m) ==
  /\ IsAt("handle", m) /\ StartsRun(m)
  /\ IF run[m].status = "absent"
     THEN /\ run' = [run EXCEPT ![m] = [@ EXCEPT !.status = "running", !.memory = memory]]
          /\ pump' = At("link", m)
     ELSE /\ pump' = At(IF run[m].memory = memory THEN "link" ELSE "fail", m)
          /\ UNCHANGED run
  /\ UNCHANGED <<storeVars, memory, inboxFrame>>

\* Mutant: the row keeps no run_id.
LinkNothing(m) ==
  /\ IsAt("link", m)
  /\ pump' = At(IF inbox[m] = "processing" THEN "complete" ELSE "fail", m)
  /\ UNCHANGED <<inbox, linked, run, memory, outbox, order, inboxFrame>>

\* link_inbox_run
LinkRun(m) ==
  /\ IsAt("link", m)
  /\ IF inbox[m] = "processing"
     THEN linked' = linked \cup {m} /\ pump' = At("complete", m)
     ELSE pump' = At("fail", m) /\ UNCHANGED linked
  /\ UNCHANGED <<inbox, run, memory, outbox, order, inboxFrame>>

\* memory_add, idempotent by the event id.
Remember(m) ==
  /\ IsAt("handle", m) /\ asks[m].kind = "remember"
  /\ memory' = memory \cup {m}
  /\ pump' = At("complete", m)
  /\ UNCHANGED <<storeVars, run, inboxFrame>>

\* decide_approval: repeating one's own decision is accepted, deciding after
\* somebody else is not.
Decide(m) ==
  /\ IsAt("handle", m) /\ asks[m].kind = "decide"
  /\ LET r == asks[m].of IN
     IF run[r].approval \in {"pending", "remote"}
     THEN run' = [run EXCEPT ![r].approval = "remote"] /\ pump' = At("complete", m)
     ELSE pump' = At("fail", m) /\ UNCHANGED run
  /\ UNCHANGED <<storeVars, memory, inboxFrame>>

\* complete_inbox_with_outbox: the reply and the status in one transaction.
CompleteInbox(m) ==
  /\ IsAt("complete", m)
  /\ IF inbox[m] = "processing"
     THEN inbox' = [inbox EXCEPT ![m] = "completed"] /\ Enqueue(ReplyKey(m)) /\ LeaveContext("outbox")
     ELSE pump' = At("fail", m) /\ UNCHANGED <<inbox, outbox, order>>
  /\ UNCHANGED <<linked, run, memory, inboxFrame>>

\* fail_inbox, which itself raises when the lease is gone; either way _pump
\* catches the exception and starts over.
FailInbox(m) ==
  /\ IsAt("fail", m)
  /\ inbox' = IF inbox[m] = "processing" THEN [inbox EXCEPT ![m] = "failed"] ELSE inbox
  /\ LeaveContext("inbox")
  /\ UNCHANGED <<linked, run, memory, outbox, order, inboxFrame>>

HandleInbox(m) ==
  \/ ClaimInbox(m) \/ SubmitRun(m) \/ LinkRun(m) \/ Remember(m) \/ Decide(m)
  \/ CompleteInbox(m) \/ FailInbox(m)

----------------------------------------------------------------------------
(***************************************************************************)
(* send_outbox_once.  While the request is out, heartbeats renew the lease *)
(* and everything else in the daemon goes on.                              *)
(***************************************************************************)
outboxFrame == <<asks, inbox, linked, order, notified, run, memory, retried, notice>>

ClaimOutbox(k) ==
  /\ LoopFree /\ pump.at = "outbox"
  /\ outbox[k] = "pending"
  /\ \A j \in OutKeys : outbox[j] = "pending" => ~Older(j, k)
  /\ outbox' = [RecoveredOutbox EXCEPT ![k] = "sending"]
  /\ pump' = At("send", k)
  /\ UNCHANGED <<judged, delivered, cancelled, faults, outboxFrame>>

OutboxEmpty ==
  /\ LoopFree /\ pump.at = "outbox"
  /\ \A k \in OutKeys : outbox[k] # "pending"
  /\ outbox' = RecoveredOutbox
  /\ pump' = At("inbox", None)
  /\ UNCHANGED <<judged, delivered, cancelled, faults, outboxFrame>>

\* The platform accepts the message; its answer is still on the way.
RemoteAccepts(k) ==
  /\ IsAt("send", k)
  /\ delivered' = [delivered EXCEPT ![k] = @ + 1]
  /\ pump' = At("answer", k)
  /\ UNCHANGED <<outbox, judged, cancelled, faults, outboxFrame>>

\* _finish_outbox; without a live lease it raises and the row stays as it is.
FinishOutbox(k, status) ==
  /\ outbox' = IF outbox[k] = "sending" THEN [outbox EXCEPT ![k] = status] ELSE outbox
  /\ LeaveContext("inbox")
  /\ UNCHANGED <<judged, delivered, cancelled, outboxFrame>>

SendSucceeds(k) == LoopFree /\ IsAt("answer", k) /\ FinishOutbox(k, "sent") /\ UNCHANGED faults

\* A definite refusal: a 4xx answer, after the retries of 429.
SendRefused(k) == LoopFree /\ IsAt("send", k) /\ Fault /\ FinishOutbox(k, "failed")

\* Mutant: no answer counts as a refusal.
UnclearIsRefused(k) ==
  LoopFree /\ (IsAt("send", k) \/ IsAt("answer", k)) /\ Fault /\ FinishOutbox(k, "failed")

\* A transport error, a 5xx or no valid answer, whether or not the platform accepted.
SendUnclear(k) ==
  LoopFree /\ (IsAt("send", k) \/ IsAt("answer", k)) /\ Fault /\ FinishOutbox(k, "unknown")

\* A request that is abandoned may still reach the platform.
MayStillArrive ==
  \/ UNCHANGED delivered
  \/ pump.at = "send" /\ delivered' = [delivered EXCEPT ![pump.on] = @ + 1]

\* heartbeat_outbox finds the lease gone, and cancels the task of the pump to stop
\* the send.  The failure replaces the CancelledError, so _pump goes on; nothing
\* calls task.uncancel().
HeartbeatFails(k) ==
  /\ LoopFree /\ (IsAt("send", k) \/ IsAt("answer", k))
  /\ outbox[k] = "lapsed"
  /\ cancelled' = TRUE
  /\ pump' = At("inbox", None)
  /\ MayStillArrive
  /\ UNCHANGED <<outbox, judged, faults, outboxFrame>>

Send(k) ==
  \/ ClaimOutbox(k) \/ RemoteAccepts(k)
  \/ SendSucceeds(k) \/ SendRefused(k) \/ SendUnclear(k) \/ HeartbeatFails(k)

----------------------------------------------------------------------------
(***************************************************************************)
(* _enqueue_completion_notifications_once: a chunk per transaction, then   *)
(* the row that says all of them are durable.                              *)
(***************************************************************************)
monitorFrame == <<asks, inbox, linked, judged, worldVars, pump, cancelled, faults>>

Due(m, what) ==
  /\ m \in linked
  /\ \/ what = "terminal" /\ run[m].status = "done"
     \/ what = "approval" /\ run[m].status = "paused" /\ run[m].approval = "pending"

Notify(m, what) ==
  /\ LoopFree
  /\ Due(m, what) /\ <<m, what>> \notin notified
  /\ Enqueue(<<m, what, 1>>)
  /\ notice' = [of |-> m, what |-> what, done |-> 1]
  /\ UNCHANGED <<notified, monitorFrame>>

NotifyChunk ==
  /\ notice # None /\ notice.done < Size(notice.of, notice.what)
  /\ Enqueue(<<notice.of, notice.what, notice.done + 1>>)
  /\ notice' = [notice EXCEPT !.done = @ + 1]
  /\ UNCHANGED <<notified, monitorFrame>>

\* Mutant: recorded as soon as there is a chunk.
RecordEarly ==
  /\ notice # None
  /\ notified' = notified \cup {<<notice.of, notice.what>>}
  /\ notice' = IF notice.done = Size(notice.of, notice.what) THEN None ELSE notice
  /\ UNCHANGED <<outbox, order, monitorFrame>>

RecordNotification ==
  /\ notice # None /\ notice.done = Size(notice.of, notice.what)
  /\ notified' = notified \cup {<<notice.of, notice.what>>}
  /\ notice' = None
  /\ UNCHANGED <<outbox, order, monitorFrame>>

----------------------------------------------------------------------------
(***************************************************************************)
(* Operators, through the API of the daemon.                               *)
(***************************************************************************)
operatorFrame == <<asks, inbox, linked, order, notified, run, memory, delivered, pump, cancelled,
                   notice>>

\* resolve_outbox, which the service calls with sent = True only.
MarkSent(k) ==
  /\ LoopFree
  /\ outbox[k] = "unknown"
  /\ outbox' = [outbox EXCEPT ![k] = "sent"]
  /\ judged' = judged \cup {k}
  /\ UNCHANGED <<retried, faults, operatorFrame>>

RetryOutbox(k) ==
  /\ LoopFree
  /\ outbox[k] \in {"unknown", "failed"} /\ Fault
  /\ outbox' = [outbox EXCEPT ![k] = "pending"]
  /\ retried' = [retried EXCEPT ![k] = @ + 1]
  /\ UNCHANGED <<judged, operatorFrame>>

(***************************************************************************)
(* Agent runs, as the channel sees them (module AgentRuntime).             *)
(***************************************************************************)
RunMoves(m) ==
  /\ LoopFree
  /\ \/ asks[m].kind = "gated run" /\ run[m].status = "running" /\ run[m].approval = "none"
        /\ run' = [run EXCEPT ![m] = [@ EXCEPT !.status = "paused", !.approval = "pending"]]
     \/ run[m].approval = "pending" /\ run' = [run EXCEPT ![m].approval = "local"]
     \/ run[m].status = "paused" /\ run[m].approval \in {"remote", "local"}
        /\ run' = [run EXCEPT ![m].status = "running"]
     \/ run[m].status = "running" /\ (asks[m].kind = "gated run" => run[m].approval # "none")
        /\ run' = [run EXCEPT ![m].status = "done"]
  /\ UNCHANGED <<asks, storeVars, memory, delivered, retried, pump, cancelled, notice, faults>>

----------------------------------------------------------------------------
(***************************************************************************)
(* The daemon and time.                                                    *)
(***************************************************************************)
\* startup: recover_inbox_leases, recover_outbox_leases, then the pump.
Start ==
  /\ pump = Down
  /\ inbox' = RecoveredInbox
  /\ outbox' = RecoveredOutbox
  /\ pump' = At("inbox", None)
  /\ UNCHANGED <<asks, linked, order, judged, notified, worldVars, cancelled, notice, faults>>

Crash ==
  /\ pump # Down /\ Fault
  /\ pump' = Down
  /\ cancelled' = FALSE
  /\ notice' = None
  /\ MayStillArrive
  /\ UNCHANGED <<asks, storeVars, run, memory, retried>>

timeFrame == <<asks, linked, order, judged, notified, worldVars, pump, cancelled, notice>>

\* The lease of a row that nobody works on runs out.
LapseInbox(m) ==
  /\ inbox[m] = "processing" /\ ~(pump.at \in Handling /\ pump.on = m)
  /\ inbox' = [inbox EXCEPT ![m] = "lapsed"]
  /\ UNCHANGED <<outbox, faults, timeFrame>>

LapseOutbox(k) ==
  /\ outbox[k] = "sending" /\ ~(pump.at \in Sending /\ pump.on = k)
  /\ outbox' = [outbox EXCEPT ![k] = "lapsed"]
  /\ UNCHANGED <<inbox, faults, timeFrame>>

Suspend ==
  /\ Fault
  /\ inbox' = [m \in Messages |-> IF inbox[m] = "processing" THEN "lapsed" ELSE inbox[m]]
  /\ outbox' = [k \in OutKeys |-> IF outbox[k] = "sending" THEN "lapsed" ELSE outbox[k]]
  /\ UNCHANGED timeFrame

----------------------------------------------------------------------------
Pump ==
  \/ \E m \in Messages : HandleInbox(m)
  \/ \E k \in OutKeys : Send(k)
  \/ InboxEmpty \/ OutboxEmpty

Lapse ==
  \/ \E m \in Messages : LapseInbox(m)
  \/ \E k \in OutKeys : LapseOutbox(k)

NotifySome == \E n \in Notices : Notify(n[1], n[2])

Next ==
  \/ \E m \in Messages : Ingest(m) \/ RunMoves(m)
  \/ Pump
  \/ NotifySome \/ NotifyChunk \/ RecordNotification
  \/ \E k \in OutKeys : MarkSent(k) \/ RetryOutbox(k)
  \/ Start \/ Crash
  \/ Lapse \/ Suspend

Spec == Init /\ [][Next]_vars

\* The event loop runs the pump and, again and again, the monitor; requests end; the
\* lease of a row nobody works on ends; the supervisor starts the daemon.  Nothing
\* obliges an operator, an agent run or the user.
Fairness ==
  /\ WF_vars(Pump)
  /\ SF_vars(NotifySome) /\ WF_vars(NotifyChunk \/ RecordNotification)
  /\ WF_vars(Lapse)
  /\ WF_vars(Start)

LiveSpec == Spec /\ Fairness

----------------------------------------------------------------------------
InboxStatus  == {"absent", "received", "processing", "lapsed", "completed", "failed"}
OutboxStatus == {"absent", "pending", "sending", "lapsed", "sent", "failed", "unknown"}

AgentRuns    == [status : {"absent", "running", "paused", "done"}, memory : SUBSET Messages,
                 approval : {"none", "pending", "remote", "local"}]

TypeOK ==
  /\ asks \in Conversations
  /\ inbox \in [Messages -> InboxStatus]
  /\ linked \subseteq Messages
  /\ run \in [Messages -> AgentRuns]
  /\ memory \subseteq Messages
  /\ outbox \in [OutKeys -> OutboxStatus]
  /\ order \in Seq(OutKeys)
  /\ delivered \in [OutKeys -> Nat] /\ retried \in [OutKeys -> Nat]
  /\ judged \subseteq OutKeys
  /\ \/ pump.at \in Handling /\ pump.on \in Messages
     \/ pump.at \in Sending /\ pump.on \in OutKeys
     \/ pump.at \in {"down", "dead", "inbox", "outbox"} /\ pump.on = None
  /\ cancelled \in BOOLEAN
  /\ notice \in [of : Messages, what : {"approval", "terminal"}, done : 1 .. MaxChunks] \cup {None}
  /\ notified \subseteq Notices
  /\ faults \in Nat

\* Nothing is sent again unless an operator says so: the platform accepts a
\* message at most once more than an operator released it, whatever crashes, lapses
\* or goes unanswered.
NoBlindResend == \A k \in OutKeys : delivered[k] <= retried[k] + 1

\* What an outbox row says of the remote side is true: a row that the code marked
\* as sent was accepted, and the last attempt of a pending or failed one was not.
OutcomeHonest ==
  \A k \in OutKeys :
    /\ outbox[k] = "sent" /\ k \notin judged => delivered[k] > 0
    /\ outbox[k] \in {"pending", "failed"} => delivered[k] <= retried[k]

\* A recorded notification is complete: all its chunks are durable, so that the
\* monitor may pass over it for good.
NoticeComplete ==
  \A n \in notified : \A k \in NoticeKeys(n[1], n[2]) : outbox[k] # "absent"

\* A message is completed exactly when its reply is durable: neither a crash
\* between handling and reply nor a redelivered message separates them.
ReplyIsCompletion ==
  \A m \in Messages : asks[m].kind # "denied" =>
    (inbox[m] = "completed" <=> outbox[ReplyKey(m)] # "absent")

PumpDead == pump.at = "dead"

\* Every message that was ingested is answered or given up, across crashes and
\* lapsed leases, while the pump lives.
MessageSettled ==
  \A m \in Messages :
    inbox[m] # "absent" ~> inbox[m] \in {"completed", "failed"} \/ PumpDead

Attempted(k) == outbox[k] \in {"sent", "failed", "unknown"}
Returned(m)  == \A k \in NoticeKeys(m, "terminal") : Attempted(k)

\* The result of every run that a message started is sent to its chat, except that
\* of a message that failed before it was linked to its run, and while the pump lives.
ResultReturned ==
  \A m \in Messages :
    run[m].status = "done" ~> Returned(m) \/ (inbox[m] = "failed" /\ m \notin linked) \/ PumpDead
=============================================================================
