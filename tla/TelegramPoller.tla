--------------------------- MODULE TelegramPoller ---------------------------
(***************************************************************************)
(* How updates of Telegram reach the channel store: TelegramAdapter with   *)
(* its offsets and epochs (poll_once, poll_forever), the row of            *)
(* telegram_offsets, and the events that ingest_telegram_update keeps.     *)
(*                                                                         *)
(* Telegram itself is external: it numbers the updates of a bot one after  *)
(* the other, forgets those below the offset of a request, keeps none for  *)
(* more than a day, and may number anew after a week without updates.  The *)
(* adapter counts that week from the last update it has stored, so that it *)
(* notices later than Telegram, and while it runs only once.               *)
(*                                                                         *)
(* No name is one of Channels, so that one module proves things of both.   *)
(***************************************************************************)
EXTENDS Integers, FiniteSets

CONSTANTS
  Updates,      \* updates, of which each is for one bot
  BotOf,         \* BotOf[m]
  Bots,          \* bots in the order in which the configuration names them; none comes back
  MaxId,         \* bound: numbers of updates
  MaxWeeks,      \* bound: weeks without updates
  MaxLives,      \* bound: starts of the daemon
  MaxConflicts   \* conflicting pollers in a row that end the polling

ASSUME PollerAssumption ==
  /\ Bots = 1 .. Cardinality(Bots)
  /\ BotOf \in [Updates -> Bots]
  /\ MaxId \in Nat /\ MaxWeeks \in Nat /\ MaxLives \in Nat /\ MaxConflicts \in Nat \ {0}

VARIABLES
  id,          \* number of an update; 0 until it is sent
  queue,       \* updates that Telegram keeps
  confirmed,   \* updates that Telegram has forgotten because of an offset
  lastId,      \* the last number that each bot was given
  silence,     \* bots without an update for a week
  weeks,
  row,         \* telegram_offsets: offset, epoch, bot, and whether last_activity_at is set
  quiet,       \* whether a week has passed since last_activity_at, or else since the adapter
               \* was made: "no", "soon" or "yes"
  events,      \* channel_inbox: epoch and number, with the update that was stored under them
  poller,      \* "down", "ready", "fetched", "storing" or "ended"
  batch,       \* what the last request has brought and is not stored yet
  epochOffset, \* _epoch_offset, 0 for None
  probing,     \* _probing_update_epoch
  conflicts,
  lives,
  deaf         \* updates sent under numbers below the offset before the week was noticed

telegram == <<id, queue, confirmed, lastId, silence, weeks, deaf>>
adapter   == <<poller, batch, epochOffset, probing, conflicts>>
pollerVars     == <<telegram, row, quiet, events, adapter, lives>>

Stored(m) == \E e \in events : e.update = m

PollerInit ==
  /\ id = [m \in Updates |-> 0]
  /\ queue = {} /\ confirmed = {} /\ deaf = {}
  /\ lastId = [b \in Bots |-> 0]
  /\ silence = {} /\ weeks = 0
  /\ row = [offset |-> 0, epoch |-> 0, bot |-> 0, dated |-> FALSE]
  /\ quiet = "no"
  /\ events = {}
  /\ poller = "down" /\ batch = {} /\ epochOffset = 0 /\ probing = FALSE /\ conflicts = 0
  /\ lives = 0

----------------------------------------------------------------------------
(***************************************************************************)
(* The offset of the next request.                                         *)
(***************************************************************************)
\* Mutant: an adapter that has not polled yet does without the offset.
ProbesAtFirst == epochOffset = 0

Probes == epochOffset = 0 /\ quiet = "yes"

Offset == IF epochOffset # 0 THEN epochOffset ELSE row.offset

\* Mutant: the stored offset is asked for however old it is.
PollOffsetStored == Offset

\* _poll_offset; 0 asks for everything, like no offset at all.
PollOffset == IF Probes THEN 0 ELSE Offset

----------------------------------------------------------------------------
(***************************************************************************)
(* Telegram.                                                               *)
(***************************************************************************)
Numbers(b) == IF b \in silence THEN 1 .. MaxId ELSE {lastId[b] + 1} \cap (1 .. MaxId)

\* An update goes unheard when the numbers have started again, below an offset that the
\* adapter still asks for; and so do those that follow it.
SendUpdate(m) ==
  LET b == BotOf[m] IN
  /\ id[m] = 0 /\ b = row.bot
  /\ \E n \in Numbers(b) :
       /\ id' = [id EXCEPT ![m] = n]
       /\ lastId' = [lastId EXCEPT ![b] = n]
       /\ deaf' = IF /\ ~Probes /\ n < Offset
                     /\ b \in silence \/ \E d \in deaf : BotOf[d] = b
                  THEN deaf \cup {m} ELSE deaf
  /\ queue' = queue \cup {m}
  /\ silence' = silence \ {b}
  /\ UNCHANGED <<confirmed, weeks, row, quiet, events, adapter, lives>>

\* Unless the daemon is away or has stopped polling, it has fetched what there was.
Week ==
  /\ weeks < MaxWeeks
  /\ queue = {} \/ poller \in {"down", "ended"}
  /\ weeks' = weeks + 1
  /\ queue' = {}
  /\ silence' = Bots
  /\ quiet' = IF quiet = "no" THEN "soon" ELSE "yes"
  /\ UNCHANGED <<id, confirmed, lastId, deaf, row, events, adapter, lives>>

\* The adapter's week ends after that of Telegram.
Quiet ==
  /\ quiet = "soon" /\ batch = {}
  /\ quiet' = "yes"
  /\ UNCHANGED <<telegram, row, events, adapter, lives>>

----------------------------------------------------------------------------
(***************************************************************************)
(* The daemon.                                                             *)
(***************************************************************************)

\* bind_telegram_identity
Bound(b) == IF row.bot \in {0, b} THEN [row EXCEPT !.bot = b]
            ELSE [offset |-> 0, epoch |-> row.epoch + 1, bot |-> b, dated |-> FALSE]

\* ChannelHarness.startup, connect and start_polling with the bot of the configuration; a
\* bot that is replaced is not asked again.
Connect(b) ==
  /\ poller = "down" /\ lives < MaxLives /\ b >= row.bot
  /\ lives' = lives + 1
  /\ row' = Bound(b)
  /\ quiet' = IF row'.dated THEN quiet ELSE "no"
  /\ poller' = "ready"
  /\ batch' = {} /\ epochOffset' = 0 /\ probing' = FALSE /\ conflicts' = 0
  /\ queue' = {m \in queue : BotOf[m] = b}
  /\ UNCHANGED <<id, confirmed, lastId, silence, weeks, deaf, events>>

PollerDies ==
  /\ poller # "down" /\ lives < MaxLives
  /\ poller' = "down"
  /\ batch' = {} /\ epochOffset' = 0 /\ probing' = FALSE /\ conflicts' = 0
  /\ UNCHANGED <<telegram, row, quiet, events, lives>>

\* Telegram receives a request.
Confirm(offset) ==
  LET gone == {m \in queue : id[m] < offset} IN
  /\ confirmed' = confirmed \cup gone
  /\ queue' = queue \ gone
  /\ UNCHANGED <<id, lastId, silence, weeks, deaf>>

\* poll_once up to the answer.
Poll ==
  /\ poller = "ready"
  /\ Confirm(PollOffset)
  /\ probing' = (probing \/ Probes)
  /\ conflicts' = 0
  /\ batch' = queue'
  /\ poller' = CASE queue' = {} -> "ready"
                 [] queue' # {} /\ probing' -> "fetched"
                 [] OTHER -> "storing"
  /\ UNCHANGED <<row, quiet, events, epochOffset, lives>>

\* The request arrives and its answer is lost; the next one follows after the backoff.
PollFails ==
  /\ poller = "ready"
  /\ Confirm(PollOffset)
  /\ probing' = (probing \/ Probes)
  /\ conflicts' = 0
  /\ UNCHANGED <<row, quiet, events, poller, batch, epochOffset, lives>>

\* What a poller that has ended remembers is asked for no more.
End == poller' = "ended" /\ batch' = {} /\ epochOffset' = 0 /\ probing' = FALSE

\* Somebody else polls as this bot.
Conflict ==
  /\ poller = "ready"
  /\ conflicts' = conflicts + 1
  /\ IF conflicts' >= MaxConflicts THEN End
     ELSE probing' = (probing \/ Probes) /\ UNCHANGED <<poller, batch, epochOffset>>
  /\ UNCHANGED <<telegram, row, quiet, events, lives>>

\* The store raises; poll_forever catches errors of Telegram only.
StoreFails ==
  /\ poller \in {"ready", "fetched", "storing"}
  /\ End
  /\ UNCHANGED <<telegram, row, quiet, events, conflicts, lives>>

\* Mutant: the numbers start again within the epoch.
SameEpoch(first) == [row EXCEPT !.offset = first, !.dated = TRUE]

\* begin_telegram_epoch
NextEpoch(first) == [row EXCEPT !.offset = first, !.epoch = @ + 1, !.dated = TRUE]

BeginEpoch ==
  /\ poller = "fetched"
  /\ \E m \in batch : (\A o \in batch : id[m] <= id[o]) /\ row' = NextEpoch(id[m])
  /\ quiet' = "no"
  /\ poller' = "storing"
  /\ UNCHANGED <<telegram, events, batch, epochOffset, probing, conflicts, lives>>

Advanced(n) == IF n + 1 > row.offset THEN n + 1 ELSE row.offset

\* ingest_telegram_update, in the order of the numbers; after the last one poll_once notes
\* the offset of an epoch that it has begun.
IngestUpdate ==
  /\ poller = "storing"
  /\ \E m \in batch :
       /\ \A o \in batch : id[m] <= id[o]
       /\ events' = IF \E e \in events : e.epoch = row.epoch /\ e.id = id[m] THEN events
                    ELSE events \cup {[epoch |-> row.epoch, id |-> id[m], update |-> m]}
       /\ row' = [row EXCEPT !.offset = Advanced(id[m]), !.dated = TRUE]
       /\ batch' = batch \ {m}
       /\ IF batch' # {} THEN UNCHANGED <<poller, epochOffset, probing>>
          ELSE /\ poller' = "ready"
               /\ epochOffset' = IF probing \/ epochOffset # 0 THEN id[m] + 1 ELSE 0
               /\ probing' = FALSE
  /\ quiet' = "no"
  /\ UNCHANGED <<telegram, conflicts, lives>>

PollerNext ==
  \/ \E m \in Updates : SendUpdate(m)
  \/ \E b \in Bots : Connect(b)
  \/ Week \/ Quiet \/ PollerDies
  \/ Poll \/ PollFails \/ Conflict \/ StoreFails
  \/ BeginEpoch \/ IngestUpdate

PollerSpec == PollerInit /\ [][PollerNext]_pollerVars

\* The service manager starts the daemon again, the store answers, and of the requests that
\* are made again and again one gets through.
FairPollerSpec ==
  /\ PollerSpec
  /\ WF_pollerVars(Poll) /\ WF_pollerVars(BeginEpoch) /\ WF_pollerVars(IngestUpdate)
  /\ WF_pollerVars(\E b \in Bots : Connect(b))

----------------------------------------------------------------------------
(***************************************************************************)
(* Properties.                                                             *)
(***************************************************************************)
PollerTypeOK ==
  /\ id \in [Updates -> 0 .. MaxId]
  /\ queue \subseteq Updates /\ confirmed \subseteq Updates /\ deaf \subseteq Updates
  /\ lastId \in [Bots -> 0 .. MaxId]
  /\ silence \subseteq Bots /\ weeks \in 0 .. MaxWeeks
  /\ row \in [offset : Nat, epoch : Nat, bot : Bots \cup {0}, dated : BOOLEAN]
  /\ events \subseteq [epoch : Nat, id : Nat, update : Updates]
  /\ poller \in {"down", "ready", "fetched", "storing", "ended"}
  /\ batch \subseteq Updates
  /\ epochOffset \in Nat /\ conflicts \in 0 .. MaxConflicts /\ lives \in 0 .. MaxLives
  /\ quiet \in {"no", "soon", "yes"} /\ probing \in BOOLEAN

\* Telegram is made to forget an update only when an event of its own holds it, also when a
\* crash comes between two updates of an answer, when numbers are used twice, and when the
\* bot changes.  The exception is the code's: numbers that start again before the adapter
\* notices the week.
ForgottenIsStored == \A m \in confirmed : Stored(m) \/ m \in deaf

\* No update becomes two events, though Telegram delivers it again after a crash or a lost
\* answer and though a number may come again in a later epoch.
OneEventPerUpdate ==
  \A e, f \in events : e.update = f.update => e = f

\* An update reaches the store unless it went unheard, was kept for more than a day, was
\* for a bot that is no longer configured, or the polling has ended.
UpdateArrives ==
  \A m \in Updates :
    m \in queue ~> \/ Stored(m) \/ m \in deaf
                   \/ m \notin queue \cup confirmed
                   \/ BotOf[m] # row.bot \/ poller = "ended"
=============================================================================
