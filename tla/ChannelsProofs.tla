--------------------------- MODULE ChannelsProofs ---------------------------
(***************************************************************************)
(* What holds of a channel for any messages, number of chunks and number   *)
(* of faults; and of the polling of Telegram for any updates, bots,        *)
(* numbers, weeks, lives and conflicts.                                    *)
(***************************************************************************)
EXTENDS Channels, TelegramPoller, TLAPS

\* The row that is being sent belongs to the pump, and before the platform
\* has accepted it there is an attempt left.
Underway ==
  /\ pump.at \in Sending => outbox[pump.on] \in {"sending", "lapsed"}
  /\ pump.at = "send" => delivered[pump.on] <= retried[pump.on]
  /\ pump.at = "answer" => delivered[pump.on] > 0

\* A row that is not there yet was not sent.
AbsentUnsent == \A k \in OutKeys : outbox[k] = "absent" => delivered[k] <= retried[k]

Attempts == NoBlindResend /\ OutcomeHonest /\ Underway /\ AbsentUnsent

\* The chunks the monitor has enqueued so far are durable.
NoticeProgress ==
  notice # None => \A c \in 1 .. notice.done : outbox[<<notice.of, notice.what, c>>] # "absent"

CInv == TypeOK /\ Attempts /\ NoticeProgress /\ NoticeComplete /\ ReplyIsCompletion

----------------------------------------------------------------------------
(***************************************************************************)
(* Types.                                                                  *)
(***************************************************************************)
\* What a conversation says of a message.
LEMMA AsksType ==
  ASSUME TypeOK, NEW m \in Messages
  PROVE  /\ asks[m].kind \in Kinds
         /\ asks[m].chunks \in 1 .. MaxChunks
         /\ asks[m].kind = "decide" => asks[m].of \in Messages
         /\ \A what : Size(m, what) \in 1 .. MaxChunks
<1>1. asks \in Conversations
  BY DEF TypeOK
<1>2. asks[m] \in [kind : Kinds, of : Messages \cup {None}, chunks : 1 .. MaxChunks]
  BY <1>1, ConversationsAssumption DEF ConversationsAssumption
<1>3. asks[m].kind = "decide" => asks[m].of \in Messages
  BY <1>1, ConversationsAssumption DEF ConversationsAssumption
<1>4. 1 \in 1 .. MaxChunks
  BY BoundsAssumption DEF BoundsAssumption
<1> QED
  BY <1>2, <1>3, <1>4 DEF Size

\* An outbox key is in the outbox: that of a reply, and those of a notice.
LEMMA KeyTypes ==
  ASSUME NEW m \in Messages, NEW what \in {"approval", "terminal"}, NEW c \in 1 .. MaxChunks
  PROVE  /\ ReplyKey(m) \in OutKeys
         /\ <<m, what, c>> \in OutKeys
         /\ <<m, what>> \in Notices
         /\ \A n \in Messages : <<m, what, c>> # ReplyKey(n)
BY BoundsAssumption DEF BoundsAssumption, ReplyKey, OutKeys, Notices

\* A notice names a message and what happened to its run.
LEMMA NoticeTypes ==
  ASSUME NEW n \in Notices
  PROVE  n[1] \in Messages /\ n[2] \in {"approval", "terminal"} /\ n = <<n[1], n[2]>>
BY DEF Notices

\* Enqueuing keeps types, and what is enqueued stays.
LEMMA EnqueueFacts ==
  ASSUME TypeOK, NEW k \in OutKeys, Enqueue(k)
  PROVE  /\ outbox' \in [OutKeys -> OutboxStatus]
         /\ order' \in Seq(OutKeys)
         /\ outbox'[k] # "absent"
         /\ \A j \in OutKeys : j # k \/ outbox[k] # "absent" => outbox'[j] = outbox[j]
         /\ outbox[k] = "absent" => outbox'[k] = "pending"
<1>1. outbox \in [OutKeys -> OutboxStatus] /\ order \in Seq(OutKeys)
  BY DEF TypeOK
<1>2. CASE outbox[k] # "absent"
  BY <1>1, <1>2 DEF Enqueue
<1>3. CASE outbox[k] = "absent"
  <2>1. outbox' = [outbox EXCEPT ![k] = "pending"] /\ order' = Append(order, k)
    BY <1>3 DEF Enqueue
  <2>2. order' \in Seq(OutKeys)
    BY <1>1, <2>1
  <2> QED
    BY <1>1, <1>3, <2>1, <2>2 DEF OutboxStatus
<1> QED
  BY <1>2, <1>3

\* Recovery touches lapsed rows only.
LEMMA RecoveryFacts ==
  ASSUME TypeOK
  PROVE  /\ RecoveredInbox \in [Messages -> InboxStatus]
         /\ RecoveredOutbox \in [OutKeys -> OutboxStatus]
         /\ \A m \in Messages : RecoveredInbox[m] = IF inbox[m] = "lapsed" THEN "received" ELSE inbox[m]
         /\ \A k \in OutKeys : RecoveredOutbox[k] = IF outbox[k] = "lapsed" THEN "unknown" ELSE outbox[k]
BY DEF TypeOK, RecoveredInbox, RecoveredOutbox, InboxStatus, OutboxStatus

\* The key of a reply, for any number of chunks.
LEMMA ReplyKeyType ==
  ASSUME NEW m \in Messages
  PROVE  ReplyKey(m) \in OutKeys
BY BoundsAssumption DEF BoundsAssumption, ReplyKey, OutKeys

\* A notice that is not finished has a next chunk.
LEMMA NextChunk ==
  ASSUME TypeOK, notice # None
  PROVE  /\ notice \in [of : Messages, what : {"approval", "terminal"}, done : 1 .. MaxChunks]
         /\ notice.done < Size(notice.of, notice.what) => notice.done + 1 \in 1 .. MaxChunks
<1>1. notice \in [of : Messages, what : {"approval", "terminal"}, done : 1 .. MaxChunks]
  BY DEF TypeOK
<1>2. Size(notice.of, notice.what) \in 1 .. MaxChunks
  BY <1>1, AsksType
<1>3. MaxChunks \in Nat
  BY BoundsAssumption DEF BoundsAssumption
<1> QED
  BY <1>1, <1>2, <1>3

\* An agent run in a new status, with a decision or a memory of its own.
LEMMA AgentRunUpdate ==
  ASSUME NEW r \in AgentRuns, NEW status \in {"running", "paused", "done"},
         NEW approval \in {"pending", "remote", "local"}, NEW known \in SUBSET Messages
  PROVE  /\ [r EXCEPT !.status = status] \in AgentRuns
         /\ [r EXCEPT !.approval = approval] \in AgentRuns
         /\ [r EXCEPT !.status = status, !.approval = approval] \in AgentRuns
         /\ [r EXCEPT !.status = status, !.memory = known] \in AgentRuns
BY DEF AgentRuns

\* Every step keeps the types.
LEMMA TypeStep == TypeOK /\ [Next]_vars => TypeOK'
<1> SUFFICES ASSUME TypeOK, [Next]_vars PROVE TypeOK'
  OBVIOUS
<1> USE DEF vars, storeVars, worldVars, inboxFrame, outboxFrame, monitorFrame, operatorFrame,
            timeFrame, At, IsAt
<1>1. ASSUME NEW m \in Messages, Ingest(m) PROVE TypeOK'
  BY <1>1 DEF TypeOK, Ingest, FirstStatus, Allowed, InboxStatus
<1>2. ASSUME NEW m \in Messages, RunMoves(m) PROVE TypeOK'
  <2>1. run' \in [Messages -> AgentRuns]
    <3>1. run \in [Messages -> AgentRuns]
      BY DEF TypeOK
    <3>2. CASE run' = [run EXCEPT ![m] = [@ EXCEPT !.status = "paused", !.approval = "pending"]]
      <4>1. [run[m] EXCEPT !.status = "paused", !.approval = "pending"] \in AgentRuns
        BY <3>1, AgentRunUpdate, Zenon
      <4> QED
        BY <3>1, <3>2, <4>1, Zenon
    <3>3. CASE run' = [run EXCEPT ![m].approval = "local"]
      BY <3>1, <3>3 DEF AgentRuns
    <3>4. CASE run' = [run EXCEPT ![m].status = "running"]
      BY <3>1, <3>4 DEF AgentRuns
    <3>5. CASE run' = [run EXCEPT ![m].status = "done"]
      BY <3>1, <3>5 DEF AgentRuns
    <3> QED
      BY <1>2, <3>2, <3>3, <3>4, <3>5 DEF RunMoves
  <2> QED
    BY <1>2, <2>1 DEF TypeOK, RunMoves
<1>3. ASSUME NEW m \in Messages, HandleInbox(m) PROVE TypeOK'
  <2>1. CASE ClaimInbox(m)
    BY <2>1, RecoveryFacts DEF TypeOK, ClaimInbox, InboxStatus, Handling
  <2>2. CASE SubmitRun(m)
    <3>1. run' \in [Messages -> AgentRuns]
      <4>1. run \in [Messages -> AgentRuns] /\ memory \in SUBSET Messages
        BY DEF TypeOK
      <4>2. [run[m] EXCEPT !.status = "running", !.memory = memory] \in AgentRuns
        BY <4>1, AgentRunUpdate, Zenon
      <4> QED
        BY <2>2, <4>1, <4>2, Zenon DEF SubmitRun
    <3>2. pump'.at \in Handling /\ pump'.on \in Messages
      BY <2>2 DEF SubmitRun, Handling
    <3> QED
      BY <2>2, <3>1, <3>2 DEF TypeOK, SubmitRun
  <2>3. CASE LinkRun(m)
    BY <2>3 DEF TypeOK, LinkRun, Handling
  <2>4. CASE Remember(m)
    BY <2>4 DEF TypeOK, Remember, Handling
  <2>5. CASE Decide(m)
    <3>1. asks[m].of \in Messages
      BY <2>5, AsksType DEF Decide
    <3> QED
      <4>1. run' \in [Messages -> AgentRuns]
        <5>1. run \in [Messages -> AgentRuns]
          BY DEF TypeOK
        <5>2. [run[asks[m].of] EXCEPT !.approval = "remote"] \in AgentRuns
          BY <3>1, <5>1, AgentRunUpdate, Zenon
        <5> QED
          BY <2>5, <3>1, <5>1, <5>2, Zenon DEF Decide
      <4>2. pump'.at \in Handling /\ pump'.on \in Messages
        BY <2>5 DEF Decide, Handling
      <4> QED
        BY <2>5, <4>1, <4>2 DEF TypeOK, Decide
  <2>6. CASE CompleteInbox(m)
    <3>1. CASE inbox[m] = "processing"
      <4>1. outbox' \in [OutKeys -> OutboxStatus] /\ order' \in Seq(OutKeys)
        BY <2>6, <3>1, EnqueueFacts, ReplyKeyType DEF CompleteInbox
      <4> QED
        <5>1. inbox' \in [Messages -> InboxStatus]
          BY <2>6, <3>1 DEF TypeOK, CompleteInbox, InboxStatus
        <5>2. pump'.at \in {"dead", "outbox"} /\ pump'.on = None
          BY <2>6, <3>1 DEF CompleteInbox, LeaveContext
        <5> QED
          BY <2>6, <4>1, <5>1, <5>2 DEF TypeOK, CompleteInbox
    <3>2. CASE inbox[m] # "processing"
      BY <2>6, <3>2 DEF TypeOK, CompleteInbox, Handling
    <3> QED
      BY <3>1, <3>2
  <2>7. CASE FailInbox(m)
    BY <2>7 DEF TypeOK, FailInbox, LeaveContext, InboxStatus
  <2> QED
    BY <1>3, <2>1, <2>2, <2>3, <2>4, <2>5, <2>6, <2>7 DEF HandleInbox
<1>4. ASSUME NEW k \in OutKeys, Send(k) PROVE TypeOK'
  <2>1. CASE ClaimOutbox(k)
    BY <2>1, RecoveryFacts DEF TypeOK, ClaimOutbox, OutboxStatus, Sending
  <2>2. CASE RemoteAccepts(k)
    BY <2>2 DEF TypeOK, RemoteAccepts, Sending
  <2>3. ASSUME NEW status \in {"sent", "failed", "unknown"}, FinishOutbox(k, status),
               faults' \in Nat
        PROVE  TypeOK'
    BY <2>3 DEF TypeOK, FinishOutbox, LeaveContext, OutboxStatus
  <2>4. CASE SendSucceeds(k)
    BY <2>3, <2>4 DEF SendSucceeds, TypeOK
  <2>5. CASE SendRefused(k)
    BY <2>3, <2>5 DEF SendRefused, TypeOK, Fault
  <2>6. CASE SendUnclear(k)
    BY <2>3, <2>6 DEF SendUnclear, TypeOK, Fault
  <2>7. CASE HeartbeatFails(k)
    BY <2>7 DEF TypeOK, HeartbeatFails, MayStillArrive
  <2> QED
    BY <1>4, <2>1, <2>2, <2>4, <2>5, <2>6, <2>7 DEF Send
<1>5. CASE InboxEmpty
  BY <1>5 DEF TypeOK, InboxEmpty
<1>6. CASE OutboxEmpty
  BY <1>6, RecoveryFacts DEF TypeOK, OutboxEmpty
<1>7. ASSUME NEW n \in Notices, Notify(n[1], n[2]) PROVE TypeOK'
  <2>1. n[1] \in Messages /\ n[2] \in {"approval", "terminal"} /\ 1 \in 1 .. MaxChunks
    BY NoticeTypes, BoundsAssumption DEF BoundsAssumption
  <2>2. outbox' \in [OutKeys -> OutboxStatus] /\ order' \in Seq(OutKeys)
    BY <1>7, <2>1, KeyTypes, EnqueueFacts DEF Notify
  <2> QED
    BY <1>7, <2>1, <2>2 DEF TypeOK, Notify
<1>8. CASE NotifyChunk
  <2>1. /\ notice.of \in Messages /\ notice.what \in {"approval", "terminal"}
        /\ notice.done + 1 \in 1 .. MaxChunks
    BY <1>8, NextChunk DEF NotifyChunk
  <2>2. outbox' \in [OutKeys -> OutboxStatus] /\ order' \in Seq(OutKeys)
    BY <1>8, <2>1, KeyTypes, EnqueueFacts DEF NotifyChunk
  <2> QED
    BY <1>8, <2>1, <2>2 DEF TypeOK, NotifyChunk
<1>9. CASE RecordNotification
  BY <1>9 DEF TypeOK, RecordNotification, Notices
<1>10. ASSUME NEW k \in OutKeys, MarkSent(k) \/ RetryOutbox(k) PROVE TypeOK'
  <2>1. CASE MarkSent(k)
    BY <2>1 DEF TypeOK, MarkSent, OutboxStatus
  <2>2. CASE RetryOutbox(k)
    BY <2>2 DEF TypeOK, RetryOutbox, OutboxStatus, Fault
  <2> QED
    BY <1>10, <2>1, <2>2
<1>11. CASE Start
  BY <1>11, RecoveryFacts DEF TypeOK, Start
<1>12. CASE Crash
  <2>1. delivered' \in [OutKeys -> Nat]
    BY <1>12 DEF TypeOK, Crash, MayStillArrive, Sending, Handling
  <2> QED
    <3>1. pump'.at = "down" /\ pump'.on = None /\ notice' = None /\ cancelled' = FALSE
      BY <1>12 DEF Crash, Down
    <3>2. faults' \in Nat
      BY <1>12 DEF TypeOK, Crash, Fault
    <3>3. UNCHANGED <<asks, inbox, linked, outbox, order, judged, notified, run, memory, retried>>
      BY <1>12 DEF Crash
    <3> QED
      BY <2>1, <3>1, <3>2, <3>3 DEF TypeOK
<1>13. ASSUME NEW m \in Messages, LapseInbox(m) PROVE TypeOK'
  BY <1>13 DEF TypeOK, LapseInbox, InboxStatus
<1>14. ASSUME NEW k \in OutKeys, LapseOutbox(k) PROVE TypeOK'
  BY <1>14 DEF TypeOK, LapseOutbox, OutboxStatus
<1>15. CASE Suspend
  BY <1>15 DEF TypeOK, Suspend, InboxStatus, OutboxStatus, Fault
<1>16. CASE UNCHANGED vars
  BY <1>16 DEF TypeOK
<1> QED
  BY <1>1, <1>2, <1>3, <1>4, <1>5, <1>6, <1>7, <1>8, <1>9, <1>10, <1>11, <1>12, <1>13, <1>14,
     <1>15, <1>16 DEF Next, Pump, NotifySome, Lapse
----------------------------------------------------------------------------
(***************************************************************************)
(* Outbox rows.                                                            *)
(***************************************************************************)
\* Steps that neither send nor decide anything about a row: at most, rows appear
\* and leases lapse.
Untouching ==
  /\ UNCHANGED <<delivered, retried, judged>>
  /\ pump' = pump \/ pump'.at \notin Sending
  /\ \A k \in OutKeys : \/ outbox'[k] = outbox[k]
                        \/ outbox[k] = "absent" /\ outbox'[k] = "pending"
                        \/ outbox[k] = "sending" /\ outbox'[k] = "lapsed"

\* Steps that only recover rows whose lease ran out, while nothing is sent.
Recovers ==
  /\ UNCHANGED <<delivered, retried, judged>>
  /\ pump'.at \notin Sending
  /\ outbox' = RecoveredOutbox

Touches(k) == Send(k) \/ MarkSent(k) \/ RetryOutbox(k)

\* Ingestion, handling, notification, agent runs and time are quiet.
LEMMA StepKinds ==
  ASSUME TypeOK, [Next]_vars
  PROVE  Untouching \/ Recovers \/ Crash \/ \E k \in OutKeys : Touches(k)
<1> USE DEF vars, storeVars, worldVars, inboxFrame, outboxFrame, monitorFrame, operatorFrame,
            timeFrame, At, IsAt, Sending
<1>1. ASSUME NEW m \in Messages, Ingest(m) \/ RunMoves(m) PROVE Untouching
  BY <1>1 DEF Untouching, Ingest, RunMoves
<1>2. ASSUME NEW m \in Messages, HandleInbox(m) PROVE Untouching
  <2>1. CASE CompleteInbox(m)
    <3>1. UNCHANGED <<delivered, retried, judged>> /\ pump'.at \notin Sending
      BY <2>1 DEF CompleteInbox, LeaveContext
    <3>2. CASE inbox[m] = "processing"
      <4>1. Enqueue(ReplyKey(m))
        BY <2>1, <3>2 DEF CompleteInbox
      <4> QED
        BY <3>1, <4>1, EnqueueFacts, ReplyKeyType DEF Untouching
    <3>3. CASE inbox[m] # "processing"
      BY <2>1, <3>1, <3>3 DEF CompleteInbox, Untouching
    <3> QED
      BY <3>2, <3>3
  <2>2. CASE ~CompleteInbox(m)
    BY <1>2, <2>2 DEF Untouching, HandleInbox, ClaimInbox, SubmitRun, LinkRun, Remember, Decide,
                      FailInbox, LeaveContext
  <2> QED
    BY <2>1, <2>2
<1>3. CASE InboxEmpty
  BY <1>3 DEF Untouching, InboxEmpty
<1>4. ASSUME NEW n \in Notices, Notify(n[1], n[2]) PROVE Untouching
  <2>1. n[1] \in Messages /\ n[2] \in {"approval", "terminal"} /\ 1 \in 1 .. MaxChunks
    BY NoticeTypes, BoundsAssumption DEF BoundsAssumption
  <2> QED
    BY <1>4, <2>1, KeyTypes, EnqueueFacts DEF Notify, Untouching
<1>5. CASE NotifyChunk
  <2>1. /\ notice.of \in Messages /\ notice.what \in {"approval", "terminal"}
        /\ notice.done + 1 \in 1 .. MaxChunks
    BY <1>5, NextChunk DEF NotifyChunk
  <2> QED
    BY <1>5, <2>1, KeyTypes, EnqueueFacts DEF NotifyChunk, Untouching
<1>6. CASE RecordNotification
  BY <1>6 DEF RecordNotification, Untouching
<1>7. CASE OutboxEmpty \/ Start
  BY <1>7 DEF OutboxEmpty, Start, Recovers
<1>8. ASSUME NEW m \in Messages, LapseInbox(m) PROVE Untouching
  BY <1>8 DEF LapseInbox, Untouching
<1>9. ASSUME NEW k \in OutKeys, LapseOutbox(k) PROVE Untouching
  BY <1>9 DEF LapseOutbox, Untouching, TypeOK
<1>10. CASE Suspend
  BY <1>10 DEF Suspend, Untouching
<1>11. CASE UNCHANGED vars
  BY <1>11 DEF Untouching
<1> QED
  BY <1>1, <1>2, <1>3, <1>4, <1>5, <1>6, <1>7, <1>8, <1>9, <1>10, <1>11
     DEF Next, Pump, NotifySome, Lapse, Touches

\* A row of the outbox never disappears.
LEMMA RowsStay ==
  ASSUME TypeOK, [Next]_vars
  PROVE  \A k \in OutKeys : outbox[k] # "absent" => outbox'[k] # "absent"
<1>1. CASE Untouching
  BY <1>1 DEF Untouching
<1>2. CASE Recovers
  BY <1>2, RecoveryFacts DEF Recovers
<1>3. CASE Crash
  BY <1>3 DEF Crash, storeVars
<1>4. ASSUME NEW k \in OutKeys, Touches(k)
      PROVE  \A j \in OutKeys : outbox[j] # "absent" => outbox'[j] # "absent"
  <2>1. CASE ClaimOutbox(k)
    BY <2>1, RecoveryFacts DEF ClaimOutbox
  <2>2. CASE ~ClaimOutbox(k)
    BY <1>4, <2>2 DEF Touches, Send, RemoteAccepts, SendSucceeds, SendRefused, SendUnclear,
                      HeartbeatFails, FinishOutbox, MarkSent, RetryOutbox, TypeOK
  <2> QED
    BY <2>1, <2>2
<1> QED
  BY <1>1, <1>2, <1>3, <1>4, StepKinds
\* Attempts of a row never exceed what it was released for.
LEMMA AttemptStep == TypeOK /\ Attempts /\ [Next]_vars => Attempts'
<1> SUFFICES ASSUME TypeOK, Attempts, [Next]_vars PROVE Attempts'
  OBVIOUS
<1> USE DEF Attempts, NoBlindResend, OutcomeHonest, Underway, AbsentUnsent
<1>1. /\ outbox \in [OutKeys -> OutboxStatus]
      /\ delivered \in [OutKeys -> Nat] /\ retried \in [OutKeys -> Nat]
      /\ pump.at \in Sending => pump.on \in OutKeys
  BY DEF TypeOK, Sending, Handling
<1>2. CASE Untouching
  BY <1>1, <1>2 DEF Untouching, Sending
<1>3. CASE Recovers
  BY <1>1, <1>3, RecoveryFacts DEF Recovers, Sending
<1>4. CASE Crash
  BY <1>1, <1>4 DEF Crash, MayStillArrive, storeVars, Down, At, Sending
<1>5. ASSUME NEW k \in OutKeys, Touches(k) PROVE Attempts'
  <2> USE DEF outboxFrame, operatorFrame, At, IsAt, Sending
  <2>1. CASE ClaimOutbox(k)
    BY <1>1, <2>1, RecoveryFacts DEF ClaimOutbox
  <2>2. CASE RemoteAccepts(k)
    BY <1>1, <2>2 DEF RemoteAccepts
  <2>3. CASE SendSucceeds(k)
    BY <1>1, <2>3 DEF SendSucceeds, FinishOutbox, LeaveContext
  <2>4. CASE SendRefused(k)
    BY <1>1, <2>4 DEF SendRefused, FinishOutbox, LeaveContext
  <2>5. CASE SendUnclear(k)
    BY <1>1, <2>5 DEF SendUnclear, FinishOutbox, LeaveContext
  <2>6. CASE HeartbeatFails(k)
    BY <1>1, <2>6 DEF HeartbeatFails, MayStillArrive
  <2>7. CASE MarkSent(k)
    BY <1>1, <2>7 DEF MarkSent
  <2>8. CASE RetryOutbox(k)
    BY <1>1, <2>8 DEF RetryOutbox
  <2> QED
    BY <1>5, <2>1, <2>2, <2>3, <2>4, <2>5, <2>6, <2>7, <2>8 DEF Touches, Send
<1> QED
  BY <1>2, <1>3, <1>4, <1>5, StepKinds

----------------------------------------------------------------------------
(***************************************************************************)
(* Notifications and replies.                                              *)
(***************************************************************************)
\* Only the monitor's own steps change what it has done.
LEMMA MonitorSteps ==
  ASSUME [Next]_vars
  PROVE  \/ \E n \in Notices : Notify(n[1], n[2])
         \/ NotifyChunk
         \/ RecordNotification
         \/ UNCHANGED <<asks, notified>> /\ (notice' = notice \/ notice' = None)
BY Zenon DEF Next, Pump, NotifySome, Lapse, HandleInbox, Send, Ingest, FirstStatus, Allowed, RunMoves,
       ClaimInbox, SubmitRun, LinkRun, Remember, Decide, CompleteInbox, FailInbox, InboxEmpty,
       OutboxEmpty, ClaimOutbox, RemoteAccepts, SendSucceeds, SendRefused, SendUnclear, FinishOutbox, HeartbeatFails,
       MarkSent, RetryOutbox, Start, Crash, LapseInbox, LapseOutbox, Suspend, vars, storeVars,
       worldVars, inboxFrame, outboxFrame, operatorFrame, timeFrame

\* The monitor records a notification after the last of its chunks.
LEMMA NoticeStep ==
  TypeOK /\ NoticeProgress /\ NoticeComplete /\ [Next]_vars => NoticeProgress' /\ NoticeComplete'
<1> SUFFICES ASSUME TypeOK, NoticeProgress, NoticeComplete, [Next]_vars
             PROVE  NoticeProgress' /\ NoticeComplete'
  OBVIOUS
<1>1. \A k \in OutKeys : outbox[k] # "absent" => outbox'[k] # "absent"
  BY RowsStay
<1>2. ASSUME NEW n \in Notices
      PROVE  NoticeKeys(n[1], n[2]) \subseteq OutKeys
  <2>1. n[1] \in Messages /\ n[2] \in {"approval", "terminal"}
    BY NoticeTypes
  <2>2. Size(n[1], n[2]) \in 1 .. MaxChunks
    BY <2>1, AsksType
  <2>3. ASSUME NEW c \in 1 .. Size(n[1], n[2]) PROVE <<n[1], n[2], c>> \in OutKeys
    <3>1. c \in 1 .. MaxChunks
      BY <2>2, BoundsAssumption DEF BoundsAssumption
    <3> QED
      BY <2>1, <3>1, KeyTypes
  <2> QED
    BY <2>3 DEF NoticeKeys
<1>3. notified \subseteq Notices
  BY DEF TypeOK
<1>4. ASSUME UNCHANGED <<asks, notified>> PROVE NoticeComplete'
  <2>1. \A m, what : NoticeKeys(m, what)' = NoticeKeys(m, what)
    BY <1>4 DEF NoticeKeys, Size
  <2> QED
    BY <1>1, <1>2, <1>3, <1>4, <2>1 DEF NoticeComplete
<1>5. ASSUME NEW n \in Notices, Notify(n[1], n[2]) PROVE NoticeProgress' /\ NoticeComplete'
  <2>1. n[1] \in Messages /\ n[2] \in {"approval", "terminal"} /\ 1 \in 1 .. MaxChunks
    BY NoticeTypes, BoundsAssumption DEF BoundsAssumption
  <2>2. outbox'[<<n[1], n[2], 1>>] # "absent"
    BY <1>5, <2>1, KeyTypes, EnqueueFacts DEF Notify
  <2> QED
    BY <1>4, <1>5, <2>2 DEF Notify, NoticeProgress, monitorFrame
<1>6. CASE NotifyChunk
  <2>1. /\ notice.of \in Messages /\ notice.what \in {"approval", "terminal"}
        /\ notice.done \in 1 .. MaxChunks /\ notice.done + 1 \in 1 .. MaxChunks
    BY <1>6, NextChunk DEF NotifyChunk
  <2>2. outbox'[<<notice.of, notice.what, notice.done + 1>>] # "absent"
    BY <1>6, <2>1, KeyTypes, EnqueueFacts DEF NotifyChunk
  <2>3. /\ notice'.of = notice.of /\ notice'.what = notice.what
        /\ notice'.done = notice.done + 1
    BY <1>6, NextChunk DEF NotifyChunk
  <2>4. \A c \in 1 .. notice.done : outbox'[<<notice.of, notice.what, c>>] # "absent"
    <3>1. ASSUME NEW c \in 1 .. notice.done PROVE outbox'[<<notice.of, notice.what, c>>] # "absent"
      <4>1. c \in 1 .. MaxChunks
        BY <2>1, BoundsAssumption DEF BoundsAssumption
      <4>2. <<notice.of, notice.what, c>> \in OutKeys
        BY <2>1, <4>1, KeyTypes
      <4> QED
        BY <1>1, <1>6, <4>2 DEF NotifyChunk, NoticeProgress
    <3> QED
      BY <3>1
  <2>5. \A c \in 1 .. notice'.done : c \in 1 .. notice.done \/ c = notice.done + 1
    BY <2>1, <2>3
  <2> QED
    BY <1>4, <1>6, <2>2, <2>3, <2>4, <2>5 DEF NotifyChunk, NoticeProgress, monitorFrame
<1>7. CASE RecordNotification
  <2>1. \A k \in NoticeKeys(notice.of, notice.what) : outbox[k] # "absent"
    BY <1>7 DEF RecordNotification, NoticeProgress, NoticeKeys
  <2>2. \A n \in notified' : \A k \in NoticeKeys(n[1], n[2]) : outbox[k] # "absent"
    BY <1>7, <2>1 DEF RecordNotification, NoticeComplete
  <2>3. \A m, what : NoticeKeys(m, what)' = NoticeKeys(m, what)
    BY <1>7 DEF RecordNotification, monitorFrame, NoticeKeys, Size
  <2> QED
    BY <1>7, <2>2, <2>3 DEF RecordNotification, NoticeProgress, NoticeComplete
<1>8. ASSUME UNCHANGED <<asks, notified>>, notice' = notice \/ notice' = None
      PROVE  NoticeProgress'
  <2>1. SUFFICES ASSUME notice # None, notice' = notice, NEW c \in 1 .. notice.done
                 PROVE  outbox'[<<notice.of, notice.what, c>>] # "absent"
    BY <1>8 DEF NoticeProgress
  <2>2. notice \in [of : Messages, what : {"approval", "terminal"}, done : 1 .. MaxChunks]
    BY <2>1, NextChunk
  <2>3. c \in 1 .. MaxChunks
    BY <2>1, <2>2, BoundsAssumption DEF BoundsAssumption
  <2>4. <<notice.of, notice.what, c>> \in OutKeys
    BY <2>2, <2>3, KeyTypes
  <2> QED
    BY <1>1, <2>1, <2>4 DEF NoticeProgress
<1> QED
  BY <1>4, <1>5, <1>6, <1>7, <1>8, MonitorSteps, Zenon

\* A reply appears when its message is completed, and in no other way.
LEMMA ReplyStep == TypeOK /\ ReplyIsCompletion /\ [Next]_vars => ReplyIsCompletion'
<1> SUFFICES ASSUME TypeOK, ReplyIsCompletion, [Next]_vars,
                    NEW m \in Messages, asks'[m].kind # "denied"
             PROVE  inbox'[m] = "completed" <=> outbox'[ReplyKey(m)] # "absent"
  BY DEF ReplyIsCompletion
<1> USE DEF vars, storeVars, worldVars, inboxFrame, outboxFrame, monitorFrame, operatorFrame,
            timeFrame, At, IsAt
<1>1. ReplyKey(m) \in OutKeys
  BY ReplyKeyType
<1>2. ASSUME asks' = asks, inbox'[m] = "completed" <=> inbox[m] = "completed",
             outbox'[ReplyKey(m)] = "absent" <=> outbox[ReplyKey(m)] = "absent"
      PROVE  inbox'[m] = "completed" <=> outbox'[ReplyKey(m)] # "absent"
  BY <1>2 DEF ReplyIsCompletion
<1>3. asks' = asks
  BY DEF Next, Pump, NotifySome, Lapse, HandleInbox, Send, Ingest, FirstStatus, Allowed, RunMoves,
         ClaimInbox, SubmitRun, LinkRun, Remember, Decide, CompleteInbox, FailInbox, InboxEmpty,
         OutboxEmpty, ClaimOutbox, RemoteAccepts, SendSucceeds, SendRefused, SendUnclear, FinishOutbox, HeartbeatFails,
         MarkSent, RetryOutbox, Start, Crash, LapseInbox, LapseOutbox, Suspend, Notify, NotifyChunk,
         RecordNotification
<1> DEFINE Same == /\ inbox'[m] = "completed" <=> inbox[m] = "completed"
                   /\ outbox'[ReplyKey(m)] = "absent" <=> outbox[ReplyKey(m)] = "absent"
<1>4. ASSUME NEW n \in Messages, Ingest(n) \/ RunMoves(n) PROVE Same
  BY <1>3, <1>4 DEF Ingest, FirstStatus, Allowed, RunMoves, TypeOK
<1>5. ASSUME NEW n \in Messages, HandleInbox(n)
      PROVE  inbox'[m] = "completed" <=> outbox'[ReplyKey(m)] # "absent"
  <2>1. CASE CompleteInbox(n)
    <3>1. CASE inbox[n] = "processing"
      <4>1. Enqueue(ReplyKey(n)) /\ inbox' = [inbox EXCEPT ![n] = "completed"]
        BY <2>1, <3>1 DEF CompleteInbox
      <4>2. CASE n = m
        BY <1>1, <4>1, <4>2, EnqueueFacts DEF TypeOK
      <4>3. CASE n # m
        <5>1. ReplyKey(n) \in OutKeys /\ ReplyKey(n) # ReplyKey(m)
          BY <4>3, ReplyKeyType DEF ReplyKey
        <5> QED
          BY <1>1, <1>2, <1>3, <4>1, <4>3, <5>1, EnqueueFacts DEF TypeOK
      <4> QED
        BY <4>2, <4>3
    <3>2. CASE inbox[n] # "processing"
      BY <1>2, <1>3, <2>1, <3>2 DEF CompleteInbox
    <3> QED
      BY <3>1, <3>2
  <2>2. CASE ClaimInbox(n)
    BY <1>2, <1>3, <2>2, RecoveryFacts DEF ClaimInbox
  <2>3. CASE FailInbox(n)
    BY <1>2, <1>3, <2>3 DEF FailInbox, TypeOK
  <2>4. CASE SubmitRun(n) \/ LinkRun(n) \/ Remember(n) \/ Decide(n)
    BY <1>2, <1>3, <2>4 DEF SubmitRun, LinkRun, Remember, Decide
  <2> QED
    BY <1>5, <2>1, <2>2, <2>3, <2>4 DEF HandleInbox
<1>6. ASSUME NEW k \in OutKeys, Send(k) \/ MarkSent(k) \/ RetryOutbox(k) PROVE Same
  <2>1. inbox' = inbox
    BY <1>6 DEF Send, ClaimOutbox, RemoteAccepts, SendSucceeds, SendRefused, SendUnclear,
                FinishOutbox, HeartbeatFails, MarkSent, RetryOutbox
  <2>2. CASE ClaimOutbox(k)
    BY <1>1, <2>1, <2>2, RecoveryFacts DEF ClaimOutbox
  <2>3. CASE ~ClaimOutbox(k)
    BY <1>1, <1>6, <2>1, <2>3 DEF Send, RemoteAccepts, SendSucceeds, SendRefused, SendUnclear,
             FinishOutbox, HeartbeatFails, MarkSent, RetryOutbox, TypeOK
  <2> QED
    BY <2>2, <2>3
<1>7. ASSUME InboxEmpty \/ RecordNotification \/ Crash \/ UNCHANGED vars PROVE Same
  BY <1>7 DEF InboxEmpty, RecordNotification, Crash
<1>8. ASSUME OutboxEmpty \/ Start PROVE Same
  BY <1>1, <1>8, RecoveryFacts DEF OutboxEmpty, Start
<1>9. ASSUME NEW n \in Notices, Notify(n[1], n[2]) PROVE Same
  <2>1. n[1] \in Messages /\ n[2] \in {"approval", "terminal"} /\ 1 \in 1 .. MaxChunks
    BY NoticeTypes, BoundsAssumption DEF BoundsAssumption
  <2>2. <<n[1], n[2], 1>> \in OutKeys /\ <<n[1], n[2], 1>> # ReplyKey(m)
    BY <2>1, KeyTypes
  <2> QED
    BY <1>1, <1>9, <2>2, EnqueueFacts DEF Notify
<1>10. ASSUME NotifyChunk PROVE Same
  <2>1. /\ notice.of \in Messages /\ notice.what \in {"approval", "terminal"}
        /\ notice.done + 1 \in 1 .. MaxChunks
    BY <1>10, NextChunk DEF NotifyChunk
  <2>2. /\ <<notice.of, notice.what, notice.done + 1>> \in OutKeys
        /\ <<notice.of, notice.what, notice.done + 1>> # ReplyKey(m)
    BY <2>1, KeyTypes
  <2> QED
    BY <1>1, <1>10, <2>2, EnqueueFacts DEF NotifyChunk
<1>11. ASSUME NEW n \in Messages, LapseInbox(n) PROVE Same
  BY <1>11 DEF LapseInbox, TypeOK
<1>12. ASSUME NEW k \in OutKeys, LapseOutbox(k) PROVE Same
  BY <1>1, <1>12 DEF LapseOutbox, TypeOK
<1>13. ASSUME Suspend PROVE Same
  BY <1>1, <1>13 DEF Suspend
<1> QED
  BY <1>2, <1>3, <1>4, <1>5, <1>6, <1>7, <1>8, <1>9, <1>10, <1>11, <1>12, <1>13
     DEF Next, Pump, NotifySome, Lapse

----------------------------------------------------------------------------
(***************************************************************************)
(* The theorems.                                                           *)
(***************************************************************************)
\* A new daemon on a new database.
LEMMA InitialState == Init => CInv
<1> SUFFICES ASSUME Init PROVE CInv
  OBVIOUS
<1>1. TypeOK
  <2>1. run \in [Messages -> AgentRuns]
    BY DEF Init, AgentRuns
  <2>2. order \in Seq(OutKeys)
    BY DEF Init
  <2> QED
    BY <2>1, <2>2 DEF Init, TypeOK, InboxStatus, OutboxStatus, Down, At
<1>2. Attempts
  BY DEF Init, Attempts, NoBlindResend, OutcomeHonest, Underway, AbsentUnsent, Down, At, Sending
<1>3. NoticeProgress /\ NoticeComplete
  BY DEF Init, NoticeProgress, NoticeComplete
<1>4. ReplyIsCompletion
  BY ReplyKeyType DEF Init, ReplyIsCompletion
<1> QED
  BY <1>1, <1>2, <1>3, <1>4 DEF CInv

\* The inductive invariant of a channel, whatever crashes, lapses, arrives twice or
\* goes unanswered.
THEOREM ChannelInvariant == Spec => []CInv
<1>1. CInv /\ [Next]_vars => CInv'
  BY TypeStep, AttemptStep, NoticeStep, ReplyStep DEF CInv
<1> QED
  BY <1>1, InitialState, PTL DEF Spec

\* Every reachable state of a channel is well-typed.
THEOREM ChannelTypeCorrect == Spec => []TypeOK
<1>1. CInv => TypeOK
  BY DEF CInv
<1> QED
  BY <1>1, ChannelInvariant, PTL

\* send_outbox_once with the recovery of its leases: a message reaches the platform at
\* most once more than an operator released it.
THEOREM NeverResentBlindly == Spec => []NoBlindResend
<1>1. CInv => NoBlindResend
  BY DEF CInv, Attempts
<1> QED
  BY <1>1, ChannelInvariant, PTL

\* What a row says of the remote side is true.
THEOREM OutcomesAreHonest == Spec => []OutcomeHonest
<1>1. CInv => OutcomeHonest
  BY DEF CInv, Attempts
<1> QED
  BY <1>1, ChannelInvariant, PTL

\* The monitor passes over a notification only when all its chunks are durable.
THEOREM NoticesAreComplete == Spec => []NoticeComplete
<1>1. CInv => NoticeComplete
  BY DEF CInv
<1> QED
  BY <1>1, ChannelInvariant, PTL

\* A message is completed exactly when its reply is durable.
THEOREM RepliesAreCompletions == Spec => []ReplyIsCompletion
<1>1. CInv => ReplyIsCompletion
  BY DEF CInv
<1> QED
  BY <1>1, ChannelInvariant, PTL

----------------------------------------------------------------------------
(***************************************************************************)
(* What a chat is told is so: a reply or a notice is enqueued after what   *)
(* it tells of, and that is never undone.                                  *)
(***************************************************************************)
\* What a message asks for is done.
EffectOf(m) ==
  /\ StartsRun(m) => m \in linked /\ run[m].status # "absent"
  /\ asks[m].kind = "remember" => m \in memory
  /\ asks[m].kind = "decide" => run[asks[m].of].approval = "remote"

\* What a notice of this kind tells of the run of a message is true.
Happened(m, what) ==
  /\ m \in linked
  /\ what = "terminal" => run[m].status = "done"
  /\ what = "approval" => run[m].approval # "none"

\* complete_inbox_with_outbox: what a completed message asked for was done, and is still
\* so, whatever died between the claim of its row and the reply.
CompletedHadEffect == \A m \in Messages : inbox[m] = "completed" => EffectOf(m)

\* _enqueue_completion_notifications_once: a chat hears of the end of a run, or of an
\* approval, only when there is one, and only of a run that its message is linked to.
NoticesAreTrue ==
  \A m \in Messages, what \in {"approval", "terminal"}, c \in 1 .. MaxChunks :
    outbox[<<m, what, c>>] # "absent" => Happened(m, what)

\* The handler before the reply, and the monitor between two chunks.
Handled ==
  /\ pump.at = "link" => StartsRun(pump.on) /\ run[pump.on].status # "absent"
  /\ pump.at = "complete" => EffectOf(pump.on)
Telling == notice # None => Happened(notice.of, notice.what)

\* No step undoes what a handler did.
LEMMA EffectsStay ==
  ASSUME TypeOK, [Next]_vars
  PROVE  /\ asks' = asks /\ linked \subseteq linked' /\ memory \subseteq memory'
         /\ \A m \in Messages : /\ run[m].status # "absent" => run'[m].status # "absent"
                                /\ run[m].status = "done" => run'[m].status = "done"
                                /\ run[m].approval = "remote" => run'[m].approval = "remote"
                                /\ run[m].approval # "none" => run'[m].approval # "none"
<1> DEFINE Kept == UNCHANGED <<asks, linked, run, memory>>
<1> DEFINE Stay(m) == /\ run[m].status # "absent" => run'[m].status # "absent"
                      /\ run[m].status = "done" => run'[m].status = "done"
                      /\ run[m].approval = "remote" => run'[m].approval = "remote"
                      /\ run[m].approval # "none" => run'[m].approval # "none"
<1>1. run \in [Messages -> AgentRuns]
  BY DEF TypeOK
<1>2. ASSUME NEW n \in Messages, SubmitRun(n)
      PROVE  UNCHANGED <<asks, linked, memory>> /\ \A m \in Messages : Stay(m)
  <2>1. UNCHANGED <<asks, linked, memory>>
    BY <1>2 DEF SubmitRun, storeVars, inboxFrame
  <2>2. CASE run[n].status = "absent"
    <3>1. run' = [run EXCEPT ![n] = [@ EXCEPT !.status = "running", !.memory = memory]]
      BY <1>2, <2>2 DEF SubmitRun
    <3>2. run'[n].status = "running" /\ run'[n].approval = run[n].approval
      BY <1>1, <3>1 DEF AgentRuns
    <3>3. \A m \in Messages \ {n} : run'[m] = run[m]
      BY <1>1, <3>1
    <3>4. QED
      BY <2>1, <2>2, <3>2, <3>3
  <2>3. CASE run[n].status # "absent"
    BY <1>2, <2>1, <2>3 DEF SubmitRun
  <2>4. QED
    BY <2>2, <2>3
<1>3. ASSUME NEW n \in Messages, LinkRun(n) \/ Remember(n)
      PROVE  UNCHANGED <<asks, run>> /\ linked \subseteq linked' /\ memory \subseteq memory'
  BY <1>3 DEF LinkRun, Remember, storeVars, inboxFrame
<1>4. ASSUME NEW n \in Messages, Decide(n)
      PROVE  UNCHANGED <<asks, linked, memory>> /\ \A m \in Messages : Stay(m)
  <2>1. UNCHANGED <<asks, linked, memory>>
    BY <1>4 DEF Decide, storeVars, inboxFrame
  <2>2. asks[n].of \in Messages
    BY <1>4, AsksType DEF Decide
  <2>3. CASE run' = [run EXCEPT ![asks[n].of].approval = "remote"]
    BY <1>1, <2>1, <2>2, <2>3 DEF AgentRuns
  <2>4. QED
    BY <1>4, <2>1, <2>3 DEF Decide
<1>5. ASSUME NEW n \in Messages, RunMoves(n)
      PROVE  UNCHANGED <<asks, linked, memory>> /\ \A m \in Messages : Stay(m)
  <2>1. UNCHANGED <<asks, linked, memory>>
    BY <1>5 DEF RunMoves, storeVars
  <2>2. /\ \A m \in Messages \ {n} : run'[m] = run[m]
        /\ Stay(n)
    <3>1. CASE /\ run[n].status = "running" /\ run[n].approval = "none"
               /\ run' = [run EXCEPT ![n] = [@ EXCEPT !.status = "paused", !.approval = "pending"]]
      <4>1. run'[n].status = "paused" /\ run'[n].approval = "pending"
        BY <1>1, <3>1 DEF AgentRuns
      <4>2. QED
        BY <1>1, <3>1, <4>1
    <3>2. CASE run[n].approval = "pending" /\ run' = [run EXCEPT ![n].approval = "local"]
      BY <1>1, <3>2 DEF AgentRuns
    <3>3. CASE run[n].status = "paused" /\ run' = [run EXCEPT ![n].status = "running"]
      BY <1>1, <3>3 DEF AgentRuns
    <3>4. CASE run[n].status = "running" /\ run' = [run EXCEPT ![n].status = "done"]
      BY <1>1, <3>4 DEF AgentRuns
    <3>5. QED
      BY <1>5, <3>1, <3>2, <3>3, <3>4 DEF RunMoves
  <2>3. QED
    BY <2>1, <2>2
<1>6. \/ \E n \in Messages : SubmitRun(n) \/ LinkRun(n) \/ Remember(n) \/ Decide(n) \/ RunMoves(n)
      \/ Kept
  BY Zenon DEF Next, Pump, NotifySome, Lapse, HandleInbox, Send, Ingest,
       ClaimInbox, CompleteInbox, FailInbox, InboxEmpty, OutboxEmpty, ClaimOutbox, RemoteAccepts,
       SendSucceeds, SendRefused, SendUnclear, FinishOutbox, HeartbeatFails, MarkSent, RetryOutbox,
       Start, Crash, LapseInbox, LapseOutbox, Suspend, Notify, NotifyChunk, RecordNotification,
       vars, storeVars, worldVars, inboxFrame, outboxFrame, monitorFrame, operatorFrame, timeFrame
<1>7. QED
  BY <1>2, <1>3, <1>4, <1>5, <1>6

\* What was done stays done, and what was told stays true.
LEMMA DoneStays ==
  ASSUME TypeOK, [Next]_vars, NEW m \in Messages
  PROVE  /\ EffectOf(m) => EffectOf(m)'
         /\ \A what : Happened(m, what) => Happened(m, what)'
<1>1. asks' = asks /\ linked \subseteq linked' /\ memory \subseteq memory'
  BY EffectsStay
<1>2. EffectOf(m) => EffectOf(m)'
  <2>1. asks[m].kind = "decide" => asks[m].of \in Messages
    BY AsksType
  <2>2. QED
    BY <1>1, <2>1, EffectsStay DEF EffectOf, StartsRun
<1>3. \A what : Happened(m, what) => Happened(m, what)'
  BY <1>1, EffectsStay DEF Happened
<1>4. QED
  BY <1>2, <1>3

\* A handler gets to the reply by doing what the message asks for.
LEMMA HandledStep == TypeOK /\ Handled /\ [Next]_vars => Handled'
<1> SUFFICES ASSUME TypeOK, Handled, [Next]_vars PROVE Handled'
  OBVIOUS
<1> USE DEF At, IsAt
<1>1. ASSUME pump' = pump \/ pump'.at \notin {"link", "complete"} PROVE Handled'
  <2>1. pump.at \in {"link", "complete"} => pump.on \in Messages
    BY DEF TypeOK, Sending
  <2>2. CASE pump' = pump /\ pump.at \in {"link", "complete"}
    BY <2>1, <2>2, EffectsStay, DoneStays DEF Handled, StartsRun
  <2>3. CASE pump'.at \notin {"link", "complete"}
    BY <2>3 DEF Handled
  <2>4. QED
    BY <1>1, <2>2, <2>3
<1>2. ASSUME NEW m \in Messages, SubmitRun(m) PROVE Handled'
  <2>1. StartsRun(m) /\ StartsRun(m)'
    BY <1>2, EffectsStay DEF SubmitRun, StartsRun
  <2>2. run'[m].status # "absent"
    <3>1. CASE run[m].status = "absent"
      <4>1. run' = [run EXCEPT ![m] = [@ EXCEPT !.status = "running", !.memory = memory]]
        BY <1>2, <3>1 DEF SubmitRun
      <4>2. run[m] \in AgentRuns /\ run \in [Messages -> AgentRuns]
        BY DEF TypeOK
      <4>3. run'[m].status = "running"
        BY <4>1, <4>2 DEF AgentRuns
      <4>4. QED
        BY <4>3
    <3>2. CASE run[m].status # "absent"
      BY <3>2, EffectsStay
    <3>3. QED
      BY <3>1, <3>2
  <2>3. pump' \in {At("link", m), At("fail", m)}
    BY <1>2 DEF SubmitRun
  <2>4. QED
    BY <2>1, <2>2, <2>3 DEF Handled
<1>3. ASSUME NEW m \in Messages, LinkRun(m) PROVE Handled'
  <2>1. StartsRun(m) /\ run[m].status # "absent" /\ UNCHANGED <<asks, run>>
    BY <1>3 DEF LinkRun, Handled, inboxFrame
  <2>2. CASE inbox[m] = "processing"
    <3>1. m \in linked' /\ pump' = At("complete", m)
      BY <1>3, <2>2 DEF LinkRun
    <3>2. QED
      BY <2>1, <3>1 DEF Handled, EffectOf, StartsRun
  <2>3. CASE inbox[m] # "processing"
    BY <1>1, <1>3, <2>3 DEF LinkRun
  <2>4. QED
    BY <2>2, <2>3
<1>4. ASSUME NEW m \in Messages, Remember(m) PROVE Handled'
  BY <1>4 DEF Remember, Handled, EffectOf, StartsRun, inboxFrame
<1>5. ASSUME NEW m \in Messages, Decide(m) PROVE Handled'
  <2>1. asks' = asks /\ asks[m].kind = "decide" /\ asks[m].of \in Messages
    BY <1>5, AsksType DEF Decide, inboxFrame
  <2>2. CASE run[asks[m].of].approval \in {"pending", "remote"}
    <3>1. run' = [run EXCEPT ![asks[m].of].approval = "remote"] /\ pump' = At("complete", m)
      BY <1>5, <2>2 DEF Decide
    <3>2. run'[asks[m].of].approval = "remote"
      BY <2>1, <3>1 DEF TypeOK, AgentRuns
    <3>3. QED
      BY <2>1, <3>1, <3>2 DEF Handled, EffectOf, StartsRun
  <2>3. CASE run[asks[m].of].approval \notin {"pending", "remote"}
    BY <1>1, <1>5, <2>3 DEF Decide
  <2>4. QED
    BY <2>2, <2>3
<1>6. \/ \E m \in Messages : SubmitRun(m) \/ LinkRun(m) \/ Remember(m) \/ Decide(m)
      \/ pump' = pump \/ pump'.at \notin {"link", "complete"}
  <2> DEFINE Off == pump'.at \notin {"link", "complete"}
  <2>1. LeaveContext("inbox") \/ LeaveContext("outbox") => Off
    BY DEF LeaveContext
  <2>2. ASSUME NEW m \in Messages, ClaimInbox(m) \/ CompleteInbox(m) \/ FailInbox(m) PROVE Off
    BY <2>1, <2>2 DEF ClaimInbox, CompleteInbox, FailInbox
  <2>3. ASSUME NEW k \in OutKeys, Send(k) PROVE Off
    BY <2>1, <2>3 DEF Send, ClaimOutbox, RemoteAccepts, SendSucceeds, SendRefused, SendUnclear,
                      FinishOutbox, HeartbeatFails
  <2>4. InboxEmpty \/ OutboxEmpty \/ Start \/ Crash => Off
    BY DEF InboxEmpty, OutboxEmpty, Start, Crash, Down
  <2>5. \/ \E m \in Messages : HandleInbox(m)
        \/ \E k \in OutKeys : Send(k)
        \/ InboxEmpty \/ OutboxEmpty \/ Start \/ Crash
        \/ pump' = pump
    BY Zenon DEF Next, Pump, NotifySome, Lapse, Ingest, RunMoves, MarkSent, RetryOutbox,
         LapseInbox, LapseOutbox, Suspend, Notify, NotifyChunk, RecordNotification,
         vars, monitorFrame, operatorFrame, timeFrame
  <2>6. QED
    BY <2>2, <2>3, <2>4, <2>5 DEF HandleInbox
<1>7. QED
  BY <1>1, <1>2, <1>3, <1>4, <1>5, <1>6

\* A row is completed with the reply, or at once when its message asks for nothing.
LEMMA CompletedStep ==
  TypeOK /\ Handled /\ CompletedHadEffect /\ [Next]_vars => CompletedHadEffect'
<1> SUFFICES ASSUME TypeOK, Handled, CompletedHadEffect, [Next]_vars,
                    NEW m \in Messages, inbox'[m] = "completed"
             PROVE  EffectOf(m)'
  BY DEF CompletedHadEffect
<1>1. CASE EffectOf(m)
  BY <1>1, DoneStays
<1>2. CASE ~EffectOf(m)
  <2>1. inbox[m] # "completed"
    BY <1>2 DEF CompletedHadEffect
  <2>2. asks[m].kind # "denied"
    BY <1>2 DEF EffectOf, StartsRun
  <2>3. ~CompleteInbox(m)
    BY <1>2 DEF CompleteInbox, Handled, IsAt
  <2>4. ASSUME NEW n \in Messages, HandleInbox(n) \/ Ingest(n) \/ RunMoves(n) \/ LapseInbox(n)
        PROVE  inbox'[m] # "completed"
    <3>1. CASE ClaimInbox(n)
      BY <2>1, <3>1, RecoveryFacts DEF ClaimInbox
    <3>2. CASE CompleteInbox(n)
      BY <2>1, <2>3, <3>2 DEF CompleteInbox, TypeOK
    <3>3. CASE Ingest(n)
      BY <2>1, <2>2, <3>3 DEF Ingest, FirstStatus, Allowed, TypeOK
    <3>4. CASE FailInbox(n) \/ LapseInbox(n)
      BY <2>1, <3>4 DEF FailInbox, LapseInbox, TypeOK
    <3>5. CASE SubmitRun(n) \/ LinkRun(n) \/ Remember(n) \/ Decide(n) \/ RunMoves(n)
      BY <2>1, <3>5 DEF SubmitRun, LinkRun, Remember, Decide, RunMoves, storeVars
    <3>6. QED
      BY <2>4, <3>1, <3>2, <3>3, <3>4, <3>5 DEF HandleInbox
  <2>5. CASE Start
    BY <2>1, <2>5, RecoveryFacts DEF Start
  <2>6. CASE Suspend
    BY <2>1, <2>6 DEF Suspend
  <2>7. inbox' = inbox \/ Start \/ Suspend
          \/ \E n \in Messages : HandleInbox(n) \/ Ingest(n) \/ RunMoves(n) \/ LapseInbox(n)
    BY Zenon DEF Next, Pump, NotifySome, Lapse, Send, InboxEmpty, OutboxEmpty, ClaimOutbox,
         RemoteAccepts, SendSucceeds, SendRefused, SendUnclear, FinishOutbox, HeartbeatFails,
         MarkSent, RetryOutbox, Crash, LapseOutbox, Notify, NotifyChunk, RecordNotification,
         vars, storeVars, outboxFrame, monitorFrame, operatorFrame
  <2>8. QED
    BY <2>1, <2>4, <2>5, <2>6, <2>7
<1>3. QED
  BY <1>1, <1>2

\* A row of a notice appears only by the hand of the monitor.
LEMMA NoticeRows ==
  ASSUME TypeOK, [Next]_vars, NEW k \in OutKeys, outbox[k] = "absent", outbox'[k] # "absent"
  PROVE  \/ k[2] = "reply"
         \/ k[1] \in Messages /\ Due(k[1], k[2])
         \/ notice # None /\ k[1] = notice.of /\ k[2] = notice.what
<1>1. ASSUME NEW m \in Messages, CompleteInbox(m) PROVE k[2] = "reply"
  <2>1. CASE inbox[m] = "processing"
    <3>1. Enqueue(ReplyKey(m)) /\ ReplyKey(m) \in OutKeys
      BY <1>1, <2>1, ReplyKeyType DEF CompleteInbox
    <3>2. k = ReplyKey(m)
      BY <3>1, EnqueueFacts
    <3>3. QED
      BY <3>2 DEF ReplyKey
  <2>2. QED
    BY <1>1, <2>1 DEF CompleteInbox
<1>2. ASSUME NEW n \in Notices, Notify(n[1], n[2])
      PROVE  k[1] \in Messages /\ Due(k[1], k[2])
  <2>1. n[1] \in Messages /\ n[2] \in {"approval", "terminal"} /\ 1 \in 1 .. MaxChunks
    BY NoticeTypes, BoundsAssumption DEF BoundsAssumption
  <2>2. <<n[1], n[2], 1>> \in OutKeys /\ Enqueue(<<n[1], n[2], 1>>) /\ Due(n[1], n[2])
    BY <1>2, <2>1, KeyTypes DEF Notify
  <2>3. k = <<n[1], n[2], 1>>
    BY <2>2, EnqueueFacts
  <2>4. QED
    BY <2>1, <2>2, <2>3
<1>3. ASSUME NotifyChunk PROVE notice # None /\ k[1] = notice.of /\ k[2] = notice.what
  <2>1. /\ notice.of \in Messages /\ notice.what \in {"approval", "terminal"}
        /\ notice.done + 1 \in 1 .. MaxChunks
    BY <1>3, NextChunk DEF NotifyChunk
  <2>2. /\ <<notice.of, notice.what, notice.done + 1>> \in OutKeys
        /\ Enqueue(<<notice.of, notice.what, notice.done + 1>>)
    BY <1>3, <2>1, KeyTypes DEF NotifyChunk
  <2>3. k = <<notice.of, notice.what, notice.done + 1>>
    BY <2>2, EnqueueFacts
  <2>4. QED
    BY <1>3, <2>3 DEF NotifyChunk
<1>4. \/ \E m \in Messages : CompleteInbox(m)
      \/ \E n \in Notices : Notify(n[1], n[2])
      \/ NotifyChunk
      \/ UNCHANGED outbox \/ outbox' = RecoveredOutbox \/ Suspend
      \/ \E j \in OutKeys : Touches(j) \/ LapseOutbox(j)
  BY Zenon DEF Next, Pump, NotifySome, Lapse, HandleInbox, Touches, Ingest, RunMoves, ClaimInbox,
       SubmitRun, LinkRun, Remember, Decide, FailInbox, InboxEmpty, OutboxEmpty,
       Start, Crash, LapseInbox, RecordNotification, vars, storeVars, worldVars, inboxFrame,
       outboxFrame, monitorFrame, timeFrame
<1>6. outbox' # RecoveredOutbox
  BY RecoveryFacts
<1>7. ~Suspend
  BY DEF Suspend
<1>8. ASSUME NEW j \in OutKeys PROVE ~Touches(j) /\ ~LapseOutbox(j)
  <2>1. ~ClaimOutbox(j)
    BY RecoveryFacts DEF ClaimOutbox
  <2>2. ~LapseOutbox(j)
    BY DEF LapseOutbox, TypeOK
  <2>3. ~MarkSent(j) /\ ~RetryOutbox(j)
    BY DEF MarkSent, RetryOutbox, TypeOK
  <2>4. ~Send(j)
    BY <2>1 DEF Send, RemoteAccepts, SendSucceeds, SendRefused, SendUnclear, HeartbeatFails,
                FinishOutbox, TypeOK
  <2>5. QED
    BY <2>2, <2>3, <2>4 DEF Touches
<1>9. QED
  BY <1>1, <1>2, <1>3, <1>4, <1>6, <1>7, <1>8

\* What is due is true, and so is what the monitor goes on with.
LEMMA TellingStep ==
  TypeOK /\ Telling /\ NoticesAreTrue /\ [Next]_vars => Telling' /\ NoticesAreTrue'
<1> SUFFICES ASSUME TypeOK, Telling, NoticesAreTrue, [Next]_vars PROVE Telling' /\ NoticesAreTrue'
  OBVIOUS
<1>1. \A m \in Messages : \A what \in {"approval", "terminal"} : Due(m, what) => Happened(m, what)
  BY DEF Due, Happened
<1>2. Telling'
  <2>1. notice # None => notice.of \in Messages
    BY NextChunk
  <2>2. ASSUME NEW n \in Notices, Notify(n[1], n[2]) PROVE Telling'
    <3>1. n[1] \in Messages /\ n[2] \in {"approval", "terminal"} /\ Happened(n[1], n[2])
      BY <1>1, <2>2, NoticeTypes DEF Notify
    <3>2. notice' = [of |-> n[1], what |-> n[2], done |-> 1]
      BY <2>2 DEF Notify
    <3>3. Happened(n[1], n[2])'
      BY <3>1, DoneStays
    <3>4. QED
      BY <3>2, <3>3 DEF Telling, Happened
  <2>3. CASE NotifyChunk
    <3>1. notice # None /\ notice'.of = notice.of /\ notice'.what = notice.what
      BY <2>3, NextChunk DEF NotifyChunk
    <3>2. QED
      BY <2>1, <3>1, DoneStays DEF Telling, Happened
  <2>4. CASE notice' = notice \/ notice' = None
    BY <2>1, <2>4, DoneStays DEF Telling, Happened
  <2>5. QED
    BY <2>2, <2>3, <2>4, MonitorSteps DEF RecordNotification
<1>3. NoticesAreTrue'
  <2>1. SUFFICES ASSUME NEW m \in Messages, NEW what \in {"approval", "terminal"},
                        NEW c \in 1 .. MaxChunks, outbox'[<<m, what, c>>] # "absent"
                 PROVE  Happened(m, what)'
    BY DEF NoticesAreTrue
  <2>2. <<m, what, c>> \in OutKeys
    BY KeyTypes
  <2>3. CASE outbox[<<m, what, c>>] # "absent"
    BY <2>3, DoneStays DEF NoticesAreTrue
  <2>4. CASE outbox[<<m, what, c>>] = "absent"
    <3>1. Due(m, what) \/ (notice # None /\ m = notice.of /\ what = notice.what)
      BY <2>1, <2>2, <2>4, NoticeRows
    <3>2. Happened(m, what)
      BY <1>1, <3>1 DEF Telling
    <3>3. QED
      BY <3>2, DoneStays
  <2>5. QED
    BY <2>3, <2>4
<1>4. QED
  BY <1>2, <1>3

\* A chat is answered and told only what is so, whatever crashes, lapses or is repeated.
THEOREM ChatsAreToldTheTruth == Spec => [](CompletedHadEffect /\ NoticesAreTrue)
<1> DEFINE TInv == Handled /\ CompletedHadEffect /\ Telling /\ NoticesAreTrue
<1>1. ASSUME Init PROVE TInv
  <2>1. \A m \in Messages : inbox[m] = "absent"
    BY <1>1 DEF Init
  <2>2. \A k \in OutKeys : outbox[k] = "absent"
    BY <1>1 DEF Init
  <2>3. notice = None /\ pump.at = "down"
    BY <1>1 DEF Init, Down, At
  <2>4. Handled /\ Telling
    BY <2>3 DEF Handled, Telling
  <2>5. CompletedHadEffect
    BY <2>1 DEF CompletedHadEffect
  <2>6. NoticesAreTrue
    BY <2>2, KeyTypes DEF NoticesAreTrue
  <2>7. QED
    BY <2>4, <2>5, <2>6
<1>2. TypeOK /\ TInv /\ [Next]_vars => TInv'
  BY HandledStep, CompletedStep, TellingStep
<1>3. QED
  BY <1>1, <1>2, ChannelTypeCorrect, PTL DEF Spec

----------------------------------------------------------------------------
(***************************************************************************)
(* TelegramPoller, one way into the inbox.  Telegram is made to forget     *)
(* only what is stored because nothing that it keeps falls behind the      *)
(* offset unless it is stored, was not heard, or everything is asked for   *)
(* (Ahead); and an update becomes one event because what is stored lies    *)
(* behind the offset as long as Telegram keeps it (QueueTold).             *)
(***************************************************************************)
\* An update that may be forgotten.
Known(m) == Stored(m) \/ m \in deaf

\* Events keep the number of their update; those of the epoch are below the offset.
EventsTold ==
  \A e \in events :
    /\ id[e.update] = e.id /\ e.id > 0
    /\ e.epoch <= row.epoch
    /\ e.epoch = row.epoch => e.id < row.offset

\* Telegram keeps updates of the bot that polls, under numbers of their own.
QueueTold ==
  /\ \A m \in queue :
       /\ BotOf[m] = row.bot /\ id[m] > 0 /\ id[m] <= lastId[row.bot]
       /\ row.bot \notin silence
       /\ Stored(m) => id[m] < row.offset /\ quiet = "no"
  /\ \A m, o \in queue : id[m] = id[o] => m = o
  /\ batch \subseteq queue
  /\ batch # {} <=> poller \in {"fetched", "storing"}

\* What the adapter remembers is the stored offset, or that it asks for everything.
AdapterTold ==
  /\ poller = "ready" => /\ epochOffset \in {0, row.offset}
                         /\ probing => Probes
  /\ poller = "fetched" => Probes
  /\ poller \in {"down", "ended"} => epochOffset = 0
  /\ poller # "ended" => conflicts < MaxConflicts
  /\ ~row.dated => row.offset = 0
  /\ row.bot = 0 => row.offset = 0 /\ poller = "down"

\* Numbers fall behind the offset only while they start again and nobody has noticed; what
\* is asked for lies ahead of it.
Ahead ==
  /\ \A m \in queue : Known(m) \/ Probes \/ id[m] >= row.offset
  /\ row.bot \in Bots \ silence /\ lastId[row.bot] + 1 < row.offset =>
       /\ poller # "storing"
       /\ Probes \/ \E d \in deaf : BotOf[d] = row.bot
  /\ poller = "storing" => \A m \in batch : id[m] >= row.offset
  /\ batch # {} => \A q \in queue \ batch : Known(q) \/ \A m \in batch : id[q] > id[m]

Books == ForgottenIsStored /\ OneEventPerUpdate

PInv == PollerTypeOK /\ EventsTold /\ QueueTold /\ AdapterTold /\ Ahead /\ Books

\* An update that is sent.
LEMMA SendUpdateKeeps ==
  ASSUME PInv, NEW m \in Updates, SendUpdate(m)
  PROVE  PInv'
<1> USE PollerAssumption DEF PInv
<1> DEFINE b == BotOf[m]
<1>a. /\ b \in Bots /\ b = row.bot /\ id[m] = 0 /\ queue' = queue \cup {m}
      /\ silence' = silence \ {b}
      /\ UNCHANGED <<row, quiet, events, poller, batch, epochOffset, probing, conflicts>>
  BY DEF PollerTypeOK, SendUpdate, adapter
<1>b. PICK n \in Numbers(b) :
        /\ id' = [id EXCEPT ![m] = n]
        /\ lastId' = [lastId EXCEPT ![b] = n]
        /\ deaf' = IF /\ ~Probes /\ n < Offset
                      /\ b \in silence \/ \E d \in deaf : BotOf[d] = b
                   THEN deaf \cup {m} ELSE deaf
  BY DEF SendUpdate
<1>c. /\ n \in Nat /\ n > 0 /\ n \in 0 .. MaxId
      /\ b \notin silence => n = lastId[b] + 1
  BY <1>a DEF Numbers, PollerTypeOK
<1>d. /\ id'[m] = n /\ lastId'[b] = n /\ \A o \in Updates : o # m => id'[o] = id[o]
      /\ \A o \in Updates : id[o] \in Nat
      /\ lastId[b] \in Nat /\ row.offset \in Nat /\ epochOffset \in Nat
  BY <1>a, <1>b DEF PollerTypeOK
<1>e. m \notin queue /\ ~Stored(m)
  BY <1>a DEF QueueTold, EventsTold, Stored
<1>f. \A q \in queue : b \notin silence /\ id[q] < n /\ id'[q] = id[q] /\ q \in Updates
  BY <1>a, <1>c, <1>d, <1>e DEF QueueTold, PollerTypeOK
<1>g. /\ \A o : Stored(o)' <=> Stored(o)
      /\ Probes' <=> Probes
  BY <1>a DEF Stored, Probes
<1>1. PollerTypeOK'
  <2>1. id' \in [Updates -> 0 .. MaxId] /\ lastId' \in [Bots -> 0 .. MaxId]
    BY <1>b, <1>c DEF PollerTypeOK
  <2>2. queue' \subseteq Updates /\ deaf' \subseteq Updates /\ silence' \subseteq Bots
    BY <1>a, <1>b DEF PollerTypeOK
  <2>3. UNCHANGED <<confirmed, weeks, row, quiet, events, adapter, lives>>
    BY DEF SendUpdate
  <2>4. QED
    BY <2>1, <2>2, <2>3 DEF PollerTypeOK, adapter
<1>2. EventsTold'
  BY DEF EventsTold, SendUpdate
<1>3. QueueTold'
  <2>1. ASSUME NEW q \in queue'
        PROVE  /\ BotOf[q] = row.bot /\ id'[q] > 0 /\ id'[q] <= lastId'[row.bot]
               /\ row.bot \notin silence'
               /\ Stored(q) => id'[q] < row.offset /\ quiet = "no"
    <3>1. CASE q = m
      BY <3>1, <1>a, <1>c, <1>d, <1>e
    <3>2. CASE q \in queue
      BY <3>2, <1>a, <1>c, <1>d, <1>f DEF QueueTold
    <3>3. QED
      BY <3>1, <3>2, <1>a
  <2>2. \A q, o \in queue' : id'[q] = id'[o] => q = o
    BY <1>a, <1>c, <1>d, <1>f DEF QueueTold
  <2>3. batch' \subseteq queue' /\ (batch' # {} <=> poller' \in {"fetched", "storing"})
    BY <1>a DEF QueueTold
  <2>4. QED
    BY <2>1, <2>2, <2>3, <1>a, <1>g DEF QueueTold
<1>4. AdapterTold'
  BY DEF AdapterTold, SendUpdate, adapter, Probes
<1>5. Ahead'
  <2>1. deaf \subseteq deaf' /\ \A o : Known(o) => Known(o)'
    BY <1>b, <1>g DEF Known
  <2>2. poller = "storing" => batch # {} /\ b \notin silence
    BY <1>f DEF QueueTold
  <2>3. poller # "storing" => Probes \/ Offset = row.offset
    BY DEF AdapterTold, Offset, Probes, PollerTypeOK
  <2>4. m \in deaf' \/ Probes \/ n >= row.offset
    <3>1. CASE b \in silence
      BY <3>1, <2>2, <2>3, <1>b, <1>c, <1>d
    <3>2. CASE b \notin silence /\ n < row.offset
      <4>1. lastId[b] + 1 < row.offset
        BY <3>2, <1>c
      <4>2. poller # "storing" /\ (Probes \/ \E d \in deaf : BotOf[d] = b)
        BY <4>1, <3>2, <1>a DEF Ahead
      <4>3. QED
        BY <4>2, <3>2, <2>3, <1>b
    <3>3. QED
      BY <3>1, <3>2, <1>c, <1>d
  <2>5. \A q \in queue' : Known(q)' \/ Probes' \/ id'[q] >= row'.offset
    BY <2>1, <2>4, <1>a, <1>d, <1>f, <1>g DEF Ahead, Known
  <2>6. n + 1 < row.offset => /\ poller # "storing"
                              /\ Probes \/ \E d \in deaf' : BotOf[d] = b
    <3>1. CASE b \in silence
      BY <3>1, <2>2, <2>4, <1>a, <1>b, <1>c, <1>d, <2>3
    <3>2. CASE b \notin silence
      BY <3>2, <2>1, <1>a, <1>c, <1>d DEF Ahead
    <3>3. QED
      BY <3>1, <3>2
  <2>7. poller' = "storing" => \A q \in batch' : id'[q] >= row'.offset
    BY <1>a, <1>f DEF Ahead, QueueTold
  <2>8. batch' # {} => \A q \in queue' \ batch' : Known(q)' \/ \A o \in batch' : id'[q] > id'[o]
    BY <2>1, <1>a, <1>d, <1>f DEF Ahead, QueueTold
  <2>9. QED
    BY <2>5, <2>6, <2>7, <2>8, <1>a, <1>d, <1>g DEF Ahead
<1>6. Books'
  BY DEF Books, ForgottenIsStored, OneEventPerUpdate, SendUpdate, Stored
<1>7. QED
  BY <1>1, <1>2, <1>3, <1>4, <1>5, <1>6

\* A start of the daemon.
LEMMA ConnectKeeps ==
  ASSUME PInv, NEW b \in Bots, Connect(b)
  PROVE  PInv'
<1> USE PollerAssumption DEF PInv
<1>a. /\ row' = Bound(b) /\ quiet' = IF row'.dated THEN quiet ELSE "no"
      /\ poller' = "ready" /\ batch' = {} /\ epochOffset' = 0 /\ probing' = FALSE
      /\ conflicts' = 0 /\ queue' = {m \in queue : BotOf[m] = b}
      /\ UNCHANGED <<id, confirmed, lastId, silence, weeks, deaf, events>>
  BY DEF Connect
<1>b. /\ row.offset \in Nat /\ row.epoch \in Nat /\ row.dated \in BOOLEAN
      /\ DOMAIN row = {"offset", "epoch", "bot", "dated"}
      /\ row \in [offset : Nat, epoch : Nat, bot : Bots \cup {0}, dated : BOOLEAN]
  BY DEF PollerTypeOK
<1>c. row.bot \in {0, b} =>
        /\ row'.offset = row.offset /\ row'.epoch = row.epoch
        /\ row'.bot = b /\ row'.dated = row.dated
        /\ row' \in [offset : Nat, epoch : Nat, bot : Bots \cup {0}, dated : BOOLEAN]
  <2>1. SUFFICES ASSUME row.bot \in {0, b}
                 PROVE  /\ row'.offset = row.offset /\ row'.epoch = row.epoch
                        /\ row'.bot = b /\ row'.dated = row.dated
                        /\ row' \in [offset : Nat, epoch : Nat, bot : Bots \cup {0},
                                     dated : BOOLEAN]
    OBVIOUS
  <2>2. row' = [row EXCEPT !.bot = b]
    BY <2>1, <1>a DEF Bound
  <2> HIDE DEF PInv
  <2>3. QED
    BY <2>2, <1>b
<1>d. row.bot \notin {0, b} =>
        /\ row' = [offset |-> 0, epoch |-> row.epoch + 1, bot |-> b, dated |-> FALSE]
        /\ row'.offset = 0 /\ row'.epoch = row.epoch + 1
        /\ row'.bot = b /\ row'.dated = FALSE
  BY <1>a DEF Bound
<1>1. PollerTypeOK'
  <2>1. row' \in [offset : Nat, epoch : Nat, bot : Bots \cup {0}, dated : BOOLEAN]
    <3>1. CASE row.bot \in {0, b}
      BY <3>1, <1>c
    <3>2. CASE row.bot \notin {0, b}
      <4>1. row.epoch + 1 \in Nat /\ 0 \in Nat /\ b \in Bots \cup {0}
        BY <1>b
      <4> HIDE DEF PInv
      <4>2. QED
        BY <4>1, <3>2, <1>d
    <3>3. QED
      BY <3>1, <3>2
  <2>2. queue' \subseteq Updates /\ quiet' \in {"no", "soon", "yes"}
    BY <1>a DEF PollerTypeOK
  <2>3. lives' \in 0 .. MaxLives
    BY DEF PollerTypeOK, Connect
  <2>4. 0 \in 0 .. MaxConflicts
    OBVIOUS
  <2>5. QED
    BY <2>1, <2>2, <2>3, <2>4, <1>a DEF PollerTypeOK
<1>2. EventsTold'
  <2>1. SUFFICES ASSUME NEW e \in events
                 PROVE  /\ id[e.update] = e.id /\ e.id > 0
                        /\ e.epoch <= row'.epoch
                        /\ e.epoch = row'.epoch => e.id < row'.offset
    BY <1>a DEF EventsTold
  <2>2. /\ id[e.update] = e.id /\ e.id > 0 /\ e.epoch <= row.epoch
        /\ e.epoch = row.epoch => e.id < row.offset
    BY DEF EventsTold
  <2>3. e.epoch \in Nat
    BY DEF PollerTypeOK
  <2> HIDE DEF PInv
  <2>4. QED
    BY <2>2, <2>3, <1>b, <1>c, <1>d
<1>3. QueueTold'
  BY DEF QueueTold, Connect, Bound, Stored
<1>4. AdapterTold'
  <2>1. MaxConflicts > 0
    OBVIOUS
  <2>2. ~row'.dated => row'.offset = 0
    BY <1>c, <1>d DEF AdapterTold
  <2>3. row'.bot # 0
    <3>1. b \in 1 .. Cardinality(Bots)
      BY Zenon
    <3>2. QED
      BY <3>1, <1>c, <1>d
  <2>4. QED
    BY <2>1, <2>2, <2>3, <1>a DEF AdapterTold
<1>5. Ahead'
  <2>1. \A m : Known(m)' <=> Known(m)
    BY <1>a DEF Known, Stored
  <2>2. row.bot \in {0, b} /\ row.dated /\ Probes => Probes'
    <3> HIDE DEF PInv
    <3>1. QED
      BY <1>a, <1>c DEF Probes
  <2>3. row.bot \notin {0, b} => row'.offset = 0
    BY <1>d
  <2>4. ~row.dated => row'.offset = 0
    BY <1>c, <1>d DEF AdapterTold
  <2>5. ASSUME NEW m \in queue' PROVE Known(m)' \/ Probes' \/ id'[m] >= row'.offset
    <3>1. m \in queue /\ id[m] \in Nat /\ id'[m] = id[m]
      BY <2>5, <1>a DEF PollerTypeOK
    <3>2. Known(m) \/ Probes \/ id[m] >= row.offset
      BY <3>1 DEF Ahead
    <3> HIDE DEF PInv
    <3>3. QED
      BY <3>1, <3>2, <2>1, <2>2, <2>3, <2>4, <1>b, <1>c
  <2>6. ASSUME row'.bot \in Bots \ silence', lastId'[row'.bot] + 1 < row'.offset
        PROVE  Probes' \/ \E d \in deaf' : BotOf[d] = row'.bot
    <3>1. lastId[b] \in Nat
      BY DEF PollerTypeOK
    <3>2. row.bot = b /\ row.dated
      <4>0. row.bot = 0 => row.offset = 0
        BY DEF AdapterTold
      <4> HIDE DEF PInv
      <4>1. row'.bot = b /\ lastId'[b] = lastId[b]
        BY <1>a, <1>c, <1>d
      <4>2. row'.offset # 0
        BY <4>1, <3>1, <2>6
      <4>3. QED
        BY <4>0, <4>2, <2>3, <2>4, <1>c
    <3>3. Probes \/ \E d \in deaf : BotOf[d] = row.bot
      <4>1. row'.bot = row.bot /\ row'.offset = row.offset
        BY <3>2, <1>c
      <4>2. row.bot \in Bots \ silence /\ lastId[row.bot] + 1 < row.offset
        BY <4>1, <2>6, <1>a
      <4>3. QED
        BY <4>2 DEF Ahead
    <3> HIDE DEF PInv
    <3>4. QED
      BY <3>2, <3>3, <2>2, <1>a, <1>c
  <2>7. QED
    BY <2>5, <2>6, <1>a DEF Ahead
<1>6. Books'
  BY DEF Books, ForgottenIsStored, OneEventPerUpdate, Connect, Stored
<1>7. QED
  BY <1>1, <1>2, <1>3, <1>4, <1>5, <1>6

\* A week without updates.
LEMMA WeekKeeps ==
  ASSUME PInv, Week
  PROVE  PInv'
<1> USE PollerAssumption DEF PInv
<1>1. PollerTypeOK'
  BY DEF PollerTypeOK, Week, adapter
<1>2. EventsTold'
  BY DEF EventsTold, Week
<1>3. QueueTold'
  BY DEF QueueTold, Week, adapter
<1>4. AdapterTold'
  BY DEF AdapterTold, Week, adapter, Probes
<1>5. Ahead'
  BY DEF Ahead, Week, adapter
<1>6. Books'
  BY DEF Books, ForgottenIsStored, OneEventPerUpdate, Week, Stored
<1>7. QED
  BY <1>1, <1>2, <1>3, <1>4, <1>5, <1>6

\* The week of the adapter.
LEMMA QuietKeeps ==
  ASSUME PInv, Quiet
  PROVE  PInv'
<1> USE PollerAssumption DEF PInv
<1>1. PollerTypeOK'
  BY DEF PollerTypeOK, Quiet, telegram, adapter
<1>2. EventsTold'
  BY DEF EventsTold, Quiet, telegram
<1>3. QueueTold'
  BY DEF QueueTold, Quiet, telegram, adapter, Stored
<1>4. AdapterTold'
  BY DEF AdapterTold, Quiet, adapter, Probes
<1>5. Ahead'
  BY DEF Ahead, Quiet, telegram, adapter, Probes, Known, Stored
<1>6. Books'
  BY DEF Books, ForgottenIsStored, OneEventPerUpdate, Quiet, telegram, Stored
<1>7. QED
  BY <1>1, <1>2, <1>3, <1>4, <1>5, <1>6

\* A crash.
LEMMA PollerDiesKeeps ==
  ASSUME PInv, PollerDies
  PROVE  PInv'
<1> USE PollerAssumption DEF PInv
<1>1. PollerTypeOK'
  <2>1. poller' = "down" /\ batch' = {} /\ epochOffset' = 0 /\ probing' = FALSE /\ conflicts' = 0
    BY DEF PollerDies
  <2>2. UNCHANGED <<telegram, row, quiet, events, lives>>
    BY DEF PollerDies
  <2>3. 0 \in 0 .. MaxConflicts
    OBVIOUS
  <2>4. QED
    BY <2>1, <2>2, <2>3 DEF PollerTypeOK, telegram
<1>2. EventsTold'
  BY DEF EventsTold, PollerDies, telegram
<1>3. QueueTold'
  BY DEF QueueTold, PollerDies, telegram, Stored
<1>4. AdapterTold'
  BY DEF AdapterTold, PollerDies
<1>5. Ahead'
  BY DEF Ahead, PollerDies, telegram, Probes, Known, Stored
<1>6. Books'
  BY DEF Books, ForgottenIsStored, OneEventPerUpdate, PollerDies, telegram, Stored
<1>7. QED
  BY <1>1, <1>2, <1>3, <1>4, <1>5, <1>6

\* A request with its answer.
LEMMA PollKeeps ==
  ASSUME PInv, Poll
  PROVE  PInv'
<1> USE PollerAssumption DEF PInv
<1>a. /\ poller = "ready" /\ batch' = queue' /\ probing' = (probing \/ Probes)
      /\ queue' = queue \ {m \in queue : id[m] < PollOffset}
      /\ confirmed' = confirmed \cup {m \in queue : id[m] < PollOffset}
      /\ UNCHANGED <<id, lastId, silence, deaf, row, quiet, events, epochOffset>>
  BY DEF Poll, Confirm
<1>b. poller' = "storing" => queue' # {} /\ ~probing'
  BY DEF Poll
<1>c. /\ Probes' <=> Probes
      /\ \A o : (Known(o)' <=> Known(o)) /\ (Stored(o)' <=> Stored(o))
  BY <1>a DEF Probes, Known, Stored
<1>d. /\ row.offset \in Nat /\ \A q \in queue : id[q] \in Nat
      /\ Probes => PollOffset = 0
      /\ ~Probes => PollOffset = row.offset
  BY <1>a DEF PollerTypeOK, AdapterTold, PollOffset, Offset, Probes
<1>1. PollerTypeOK'
  <2>1. queue' \subseteq Updates /\ batch' \subseteq Updates /\ confirmed' \subseteq Updates
    BY DEF PollerTypeOK, Poll, Confirm
  <2>2. poller' \in {"ready", "fetched", "storing"} /\ probing' \in BOOLEAN
    BY DEF PollerTypeOK, Poll, Probes
  <2>3. /\ conflicts' = 0
        /\ UNCHANGED <<id, lastId, silence, weeks, deaf, row, quiet, events, epochOffset, lives>>
    BY DEF Poll, Confirm
  <2>4. 0 \in 0 .. MaxConflicts
    OBVIOUS
  <2>5. QED
    BY <2>1, <2>2, <2>3, <2>4 DEF PollerTypeOK
<1>2. EventsTold'
  BY DEF EventsTold, Poll, Confirm
<1>3. QueueTold'
  BY DEF QueueTold, Poll, Confirm, Stored
<1>4. AdapterTold'
  BY DEF PollerTypeOK, AdapterTold, Poll, Probes
<1>5. Ahead'
  <2>1. \A q \in queue' : Known(q)' \/ Probes' \/ id'[q] >= row'.offset
    BY <1>a, <1>c DEF Ahead
  <2>2. poller' = "storing" => \A q \in queue' : id[q] >= row.offset
    <3> HIDE DEF PInv
    <3>1. poller' = "storing" => ~Probes
      BY <1>a, <1>b, Zenon
    <3>2. QED
      BY <3>1, <1>a, <1>d
  <2>3. ASSUME row.bot \in Bots \ silence, lastId[row.bot] + 1 < row.offset
        PROVE  poller' # "storing" /\ (Probes \/ \E d \in deaf : BotOf[d] = row.bot)
    <3>1. Probes \/ \E d \in deaf : BotOf[d] = row.bot
      BY <2>3 DEF Ahead
    <3>2. lastId[row.bot] \in Nat /\ \A q \in queue : id[q] <= lastId[row.bot]
      BY <2>3 DEF PollerTypeOK, QueueTold
    <3> HIDE DEF PInv
    <3>3. \A q \in queue : ~(id[q] >= row.offset)
      BY <2>3, <3>2, <1>d
    <3>4. poller' # "storing"
      BY <3>3, <2>2, <1>a, <1>b
    <3>5. QED
      BY <3>1, <3>4
  <2>4. QED
    BY <2>1, <2>2, <2>3, <1>a, <1>c DEF Ahead
<1>6. Books'
  <2>1. \A q \in queue : id[q] < PollOffset => Known(q)
    <3>1. \A q \in queue : Known(q) \/ Probes \/ id[q] >= row.offset
      BY DEF Ahead
    <3> HIDE DEF PInv
    <3>2. QED
      BY <3>1, <1>d
  <2>2. ForgottenIsStored'
    BY <2>1, <1>a, <1>c DEF Books, ForgottenIsStored, Known
  <2>3. OneEventPerUpdate'
    BY <1>a DEF Books, OneEventPerUpdate
  <2>4. QED
    BY <2>2, <2>3 DEF Books
<1>7. QED
  BY <1>1, <1>2, <1>3, <1>4, <1>5, <1>6

\* A request without one.
LEMMA PollFailsKeeps ==
  ASSUME PInv, PollFails
  PROVE  PInv'
<1> USE PollerAssumption DEF PInv
<1>1. PollerTypeOK'
  <2>1. queue' \subseteq Updates /\ confirmed' \subseteq Updates /\ probing' \in BOOLEAN
    BY DEF PollerTypeOK, PollFails, Confirm, Probes
  <2>2. /\ conflicts' = 0
        /\ UNCHANGED <<id, lastId, silence, weeks, deaf, row, quiet, events, poller, batch,
                       epochOffset, lives>>
    BY DEF PollFails, Confirm
  <2>3. 0 \in 0 .. MaxConflicts
    OBVIOUS
  <2>4. QED
    BY <2>1, <2>2, <2>3 DEF PollerTypeOK
<1>2. EventsTold'
  BY DEF EventsTold, PollFails, Confirm
<1>3. QueueTold'
  BY DEF QueueTold, PollFails, Confirm, Stored
<1>4. AdapterTold'
  BY DEF PollerTypeOK, AdapterTold, PollFails, Probes
<1>5. Ahead'
  BY DEF Ahead, PollFails, Confirm, Probes, Known, Stored
<1>6. Books'
  BY DEF PollerTypeOK, AdapterTold, Ahead, Books, ForgottenIsStored, OneEventPerUpdate, PollFails,
     Confirm, PollOffset, Offset, Known, Stored
<1>7. QED
  BY <1>1, <1>2, <1>3, <1>4, <1>5, <1>6

\* Another poller.
LEMMA ConflictKeeps ==
  ASSUME PInv, Conflict
  PROVE  PInv'
<1> USE PollerAssumption DEF PInv
<1>1. PollerTypeOK'
  <2>1. conflicts' \in 0 .. MaxConflicts
    BY DEF PollerTypeOK, AdapterTold, Conflict
  <2>2. poller' \in {"ready", "ended"} /\ batch' \subseteq Updates /\ epochOffset' \in Nat
    BY DEF PollerTypeOK, Conflict, End
  <2>3. probing' \in BOOLEAN
    BY DEF PollerTypeOK, Conflict, End
  <2>4. UNCHANGED <<telegram, row, quiet, events, lives>>
    BY DEF Conflict
  <2>5. QED
    BY <2>1, <2>2, <2>3, <2>4 DEF PollerTypeOK, telegram
<1>2. EventsTold'
  BY DEF EventsTold, Conflict, telegram
<1>3. QueueTold'
  BY DEF QueueTold, Conflict, End, telegram, Stored
<1>4. AdapterTold'
  BY DEF PollerTypeOK, AdapterTold, Conflict, End, Probes
<1>5. Ahead'
  BY DEF Ahead, Conflict, End, telegram, Probes, Known, Stored
<1>6. Books'
  BY DEF Books, ForgottenIsStored, OneEventPerUpdate, Conflict, telegram, Stored
<1>7. QED
  BY <1>1, <1>2, <1>3, <1>4, <1>5, <1>6

\* An error of the store.
LEMMA StoreFailsKeeps ==
  ASSUME PInv, StoreFails
  PROVE  PInv'
<1> USE PollerAssumption DEF PInv
<1>1. PollerTypeOK'
  <2>1. poller' = "ended" /\ batch' = {} /\ epochOffset' = 0 /\ probing' = FALSE
    BY DEF StoreFails, End
  <2>2. UNCHANGED <<telegram, row, quiet, events, conflicts, lives>>
    BY DEF StoreFails
  <2>3. QED
    BY <2>1, <2>2 DEF PollerTypeOK, telegram
<1>2. EventsTold'
  BY DEF EventsTold, StoreFails, telegram
<1>3. QueueTold'
  BY DEF QueueTold, StoreFails, End, telegram, Stored
<1>4. AdapterTold'
  BY DEF AdapterTold, StoreFails, End
<1>5. Ahead'
  BY DEF Ahead, StoreFails, End, telegram, Probes, Known, Stored
<1>6. Books'
  BY DEF Books, ForgottenIsStored, OneEventPerUpdate, StoreFails, telegram, Stored
<1>7. QED
  BY <1>1, <1>2, <1>3, <1>4, <1>5, <1>6

\* A new epoch.
LEMMA BeginEpochKeeps ==
  ASSUME PInv, BeginEpoch
  PROVE  PInv'
<1> USE PollerAssumption DEF PInv
<1>1. PollerTypeOK'
  <2>1. PICK m \in batch : row' = [row EXCEPT !.offset = id[m], !.epoch = @ + 1, !.dated = TRUE]
    BY Zenon DEF BeginEpoch, NextEpoch
  <2>2. id[m] \in Nat /\ row.epoch + 1 \in Nat /\ row.bot \in Bots \cup {0}
    BY DEF PollerTypeOK
  <2>3. row' = [offset |-> id[m], epoch |-> row.epoch + 1, bot |-> row.bot, dated |-> TRUE]
    BY <2>1 DEF PollerTypeOK
  <2>4. row' \in [offset : Nat, epoch : Nat, bot : Bots \cup {0}, dated : BOOLEAN]
    BY <2>2, <2>3
  <2>5. QED
    BY <2>4 DEF PollerTypeOK, BeginEpoch, telegram
<1>2. EventsTold'
  <2>1. row'.epoch = row.epoch + 1 /\ row.epoch \in Nat
    BY DEF BeginEpoch, NextEpoch, PollerTypeOK
  <2>2. UNCHANGED <<id, events>>
    BY DEF BeginEpoch, telegram
  <2>3. \A e \in events : /\ id[e.update] = e.id /\ e.id > 0
                           /\ e.epoch \in Nat /\ e.epoch <= row.epoch
    BY DEF EventsTold, PollerTypeOK
  <2> HIDE DEF PInv
  <2>4. \A e \in events : e.epoch <= row'.epoch /\ e.epoch # row'.epoch
    BY <2>1, <2>3
  <2>5. QED
    BY <2>2, <2>3, <2>4 DEF EventsTold
<1>3. QueueTold'
  BY DEF QueueTold, AdapterTold, BeginEpoch, NextEpoch, telegram, Probes, Stored
<1>4. AdapterTold'
  BY DEF AdapterTold, BeginEpoch, NextEpoch
<1>5. Ahead'
  <2>1. PICK m \in batch : (\A o \in batch : id[m] <= id[o]) /\ row' = NextEpoch(id[m])
    BY DEF BeginEpoch
  <2>2. row'.offset = id[m] /\ row'.bot = row.bot
    BY <2>1 DEF NextEpoch, PollerTypeOK
  <2>3. UNCHANGED <<id, queue, lastId, silence, deaf, events, batch>>
    BY DEF BeginEpoch, telegram
  <2>4. /\ m \in queue /\ \A q \in queue : id[q] \in Nat
        /\ lastId[row.bot] \in Nat \/ row.bot \notin Bots
    BY <2>1 DEF QueueTold, PollerTypeOK
  <2>5. \A q \in queue \ batch : Known(q) \/ \A o \in batch : id[q] > id[o]
    BY <2>1 DEF Ahead
  <2>6. \A q \in queue : Known(q) \/ id[q] >= id[m]
    BY <2>1, <2>4, <2>5
  <2>7. row.bot \notin Bots \/ ~(lastId[row.bot] + 1 < id[m])
    BY <2>4 DEF QueueTold
  <2>8. \A o : Known(o)' <=> Known(o)
    BY <2>3 DEF Known, Stored
  <2>9. QED
    BY <2>1, <2>2, <2>3, <2>5, <2>6, <2>7, <2>8 DEF Ahead
<1>6. Books'
  BY DEF Books, ForgottenIsStored, OneEventPerUpdate, BeginEpoch, telegram, Stored
<1>7. QED
  BY <1>1, <1>2, <1>3, <1>4, <1>5, <1>6

\* An update that is stored.
LEMMA IngestUpdateKeeps ==
  ASSUME PInv, IngestUpdate
  PROVE  PInv'
<1> USE PollerAssumption DEF PInv
<1>a. PICK m \in batch :
        /\ \A o \in batch : id[m] <= id[o]
        /\ events' = IF \E e \in events : e.epoch = row.epoch /\ e.id = id[m] THEN events
                     ELSE events \cup {[epoch |-> row.epoch, id |-> id[m], update |-> m]}
        /\ row' = [row EXCEPT !.offset = Advanced(id[m]), !.dated = TRUE]
        /\ batch' = batch \ {m}
        /\ epochOffset' \in {epochOffset, id[m] + 1, 0}
  BY Zenon DEF IngestUpdate
<1>b. /\ m \in queue /\ m \in Updates /\ \A o \in Updates : id[o] \in Nat
      /\ row.offset \in Nat /\ row.epoch \in Nat /\ id[m] >= row.offset
      /\ poller = "storing"
  BY DEF QueueTold, PollerTypeOK, Ahead, IngestUpdate
<1>r. row' = [offset |-> id[m] + 1, epoch |-> row.epoch, bot |-> row.bot, dated |-> TRUE]
  <2>1. Advanced(id[m]) = id[m] + 1
    BY <1>b DEF Advanced
  <2>2. QED
    BY <2>1, <1>a DEF PollerTypeOK
<1>c. /\ row'.offset = id[m] + 1 /\ row'.offset > row.offset
      /\ row'.bot = row.bot /\ row'.epoch = row.epoch /\ row'.dated
  <2> HIDE DEF PInv
  <2>1. QED
    BY <1>b, <1>r
<1>d. events' = events \cup {[epoch |-> row.epoch, id |-> id[m], update |-> m]}
  BY <1>a, <1>b DEF EventsTold
<1>e. UNCHANGED <<id, queue, confirmed, lastId, silence, deaf>>
  BY DEF IngestUpdate, telegram
<1>1. PollerTypeOK'
  <2>1. row.bot \in Bots \cup {0}
    BY DEF PollerTypeOK
  <2>2. row' \in [offset : Nat, epoch : Nat, bot : Bots \cup {0}, dated : BOOLEAN]
    <3> HIDE DEF PInv
    <3>1. QED
      BY <2>1, <1>b, <1>r
  <2>3. events' \subseteq [epoch : Nat, id : Nat, update : Updates]
    BY <1>b, <1>d DEF PollerTypeOK
  <2>4. batch' \subseteq Updates /\ epochOffset' \in Nat
    BY <1>a, <1>b DEF PollerTypeOK
  <2>5. QED
    BY <2>2, <2>3, <2>4 DEF PollerTypeOK, IngestUpdate, telegram
<1>2. EventsTold'
  <2>1. SUFFICES ASSUME NEW e \in events'
                 PROVE  /\ id[e.update] = e.id /\ e.id > 0
                        /\ e.epoch <= row.epoch
                        /\ e.epoch = row.epoch => e.id < id[m] + 1
    BY <1>c, <1>e DEF EventsTold
  <2>2. CASE e \in events
    <3>1. e.id \in Nat /\ id[e.update] = e.id /\ e.id > 0 /\ e.epoch <= row.epoch
      BY <2>2 DEF PollerTypeOK, EventsTold
    <3>2. e.epoch = row.epoch => e.id < row.offset
      BY <2>2 DEF EventsTold
    <3> HIDE DEF PInv
    <3>3. QED
      BY <3>1, <3>2, <1>b
  <2>3. CASE e = [epoch |-> row.epoch, id |-> id[m], update |-> m]
    <3>1. e.epoch = row.epoch /\ e.id = id[m] /\ e.update = m
      BY <2>3
    <3>2. id[m] > 0 /\ id[m] \in Nat
      BY <1>b DEF QueueTold
    <3> HIDE DEF PInv
    <3>3. QED
      BY <3>1, <3>2, <1>b
  <2>4. QED
    BY <2>1, <2>2, <2>3, <1>d
<1>3. QueueTold'
  <2>1. batch' \subseteq queue /\ (batch' # {} <=> poller' \in {"fetched", "storing"})
    BY <1>a, <1>b DEF QueueTold, IngestUpdate
  <2>2. quiet' = "no"
    BY DEF IngestUpdate
  <2>3. ASSUME NEW q \in queue, Stored(q)' PROVE id[q] < row'.offset
    <3>1. CASE q = m
      BY <3>1, <1>b, <1>c
    <3>2. CASE Stored(q)
      <4>1. id[q] < row.offset /\ id[q] \in Nat
        BY <3>2 DEF QueueTold, PollerTypeOK
      <4> HIDE DEF PInv
      <4>2. QED
        BY <4>1, <1>b, <1>c
    <3>3. QED
      BY <2>3, <3>1, <3>2, <1>d DEF Stored
  <2>4. \A q \in queue : /\ BotOf[q] = row.bot /\ id[q] > 0 /\ id[q] <= lastId[row.bot]
                         /\ row.bot \notin silence
    BY DEF QueueTold
  <2>5. \A q, o \in queue : id[q] = id[o] => q = o
    BY DEF QueueTold
  <2> HIDE DEF PInv
  <2>6. QED
    BY <2>1, <2>2, <2>3, <2>4, <2>5, <1>c, <1>e DEF QueueTold
<1>4. AdapterTold'
  <2>1. poller' \in {"storing", "ready"} /\ conflicts' = conflicts
    BY <1>b DEF IngestUpdate
  <2>2. poller' = "ready" => epochOffset' \in {0, id[m] + 1} /\ ~probing'
    BY <1>a DEF IngestUpdate
  <2>3. conflicts < MaxConflicts /\ row.bot # 0
    BY <1>b DEF AdapterTold
  <2> HIDE DEF PInv
  <2>4. QED
    BY <2>1, <2>2, <2>3, <1>c DEF AdapterTold
<1>5. Ahead'
  <2>1. Known(m)' /\ \A o : Known(o) => Known(o)'
    <3>1. [epoch |-> row.epoch, id |-> id[m], update |-> m].update = m
      OBVIOUS
    <3>2. \E e \in events' : e.update = m
      BY <3>1, <1>d
    <3>3. events \subseteq events'
      BY <1>d
    <3>4. QED
      BY <3>2, <3>3, <1>e DEF Known, Stored
  <2>2. \A q \in batch \ {m} : id[q] > id[m]
    <3>1. \A q \in batch \ {m} : q \in queue /\ id[q] # id[m] /\ id[q] \in Nat
      BY <1>b DEF QueueTold, PollerTypeOK
    <3>2. QED
      BY <3>1, <1>a, <1>b
  <2>3. \A q \in queue \ batch : Known(q) \/ \A o \in batch : id[q] > id[o]
    BY <1>b DEF Ahead
  <2>4. \A q \in queue : Known(q)' \/ id[q] >= row'.offset
    <3>1. \A q \in queue : id[q] \in Nat
      BY <1>b DEF PollerTypeOK
    <3>2. \A q \in queue : q = m \/ Known(q) \/ id[q] > id[m]
      BY <2>2, <2>3, <1>a
    <3>3. QED
      BY <3>1, <3>2, <2>1, <1>b, <1>c
  <2>5. ~(lastId[row.bot] + 1 < row'.offset) \/ row.bot \notin Bots
    BY <1>b, <1>c DEF QueueTold, PollerTypeOK
  <2>6. \A q \in batch' : id[q] >= row'.offset
    BY <2>2, <1>a, <1>b, <1>c DEF PollerTypeOK
  <2>7. \A q \in queue \ batch' : Known(q)' \/ \A o \in batch' : id[q] > id[o]
    BY <2>1, <2>3, <1>a
  <2>8. QED
    BY <2>4, <2>5, <2>6, <2>7, <1>c, <1>e DEF Ahead
<1>6. Books'
  <2>1. ~Stored(m)
    BY <1>b DEF QueueTold, PollerTypeOK
  <2>2. OneEventPerUpdate'
    BY <2>1, <1>d DEF Books, OneEventPerUpdate, Stored
  <2>3. events \subseteq events'
    BY <1>d
  <2>4. ForgottenIsStored'
    BY <2>3, <1>e DEF Books, ForgottenIsStored, Stored
  <2>5. QED
    BY <2>2, <2>4 DEF Books
<1>7. QED
  BY <1>1, <1>2, <1>3, <1>4, <1>5, <1>6

LEMMA PollerStarts == PollerInit => PInv
<1> SUFFICES ASSUME PollerInit
             PROVE  PInv
  OBVIOUS
<1>1. PollerTypeOK
  <2>1. row \in [offset : Nat, epoch : Nat, bot : Bots \cup {0}, dated : BOOLEAN]
    BY DEF PollerInit
  <2>2. 0 \in 0 .. MaxId /\ 0 \in 0 .. MaxWeeks /\ 0 \in 0 .. MaxConflicts /\ 0 \in 0 .. MaxLives
    BY PollerAssumption
  <2>3. id \in [Updates -> 0 .. MaxId] /\ lastId \in [Bots -> 0 .. MaxId]
    BY <2>2 DEF PollerInit
  <2>4. QED
    BY <2>1, <2>2, <2>3 DEF PollerInit, PollerTypeOK
<1>2. EventsTold /\ QueueTold /\ AdapterTold /\ Ahead
  BY PollerAssumption DEF PollerInit, EventsTold, QueueTold, AdapterTold, Ahead, Probes
<1>3. Books
  BY DEF PollerInit, Books, ForgottenIsStored, OneEventPerUpdate
<1>4. QED
  BY <1>1, <1>2, <1>3 DEF PInv

LEMMA PollerStep ==
  ASSUME PInv, [PollerNext]_pollerVars
  PROVE  PInv'
<1>1. CASE UNCHANGED pollerVars
  BY <1>1 DEF pollerVars, telegram, adapter, PInv, PollerTypeOK, EventsTold, QueueTold, AdapterTold,
     Ahead, Books, ForgottenIsStored, OneEventPerUpdate, Known, Stored, Probes
<1>2. CASE PollerNext
  BY <1>2, SendUpdateKeeps, ConnectKeeps, WeekKeeps, QuietKeeps, PollerDiesKeeps, PollKeeps,
     PollFailsKeeps, ConflictKeeps, StoreFailsKeeps, BeginEpochKeeps, IngestUpdateKeeps
  DEF PollerNext
<1>3. QED
  BY <1>1, <1>2

THEOREM PollingInvariant == PollerSpec => []PInv
<1>1. PollerInit => PInv
  BY PollerStarts
<1>2. PInv /\ [PollerNext]_pollerVars => PInv'
  BY PollerStep
<1>3. QED
  BY <1>1, <1>2, PTL DEF PollerSpec

\* poll_once and poll_forever (channels/telegram.py) make Telegram forget an update only
\* when the store holds an event of its own for it, whatever the number of crashes, lost
\* answers, weeks without updates and bots, unless its number started again unnoticed.
THEOREM ForgottenUpdatesAreStored == PollerSpec => []ForgottenIsStored
<1>1. PInv => ForgottenIsStored
  BY DEF PInv, Books
<1>2. QED
  BY <1>1, PollingInvariant, PTL

\* ingest_telegram_update (channels/store.py) makes one event of an update, however often
\* Telegram delivers it and in whichever epoch its number comes again.
THEOREM OneEventEach == PollerSpec => []OneEventPerUpdate
<1>1. PInv => OneEventPerUpdate
  BY DEF PInv, Books
<1>2. QED
  BY <1>1, PollingInvariant, PTL
=============================================================================
