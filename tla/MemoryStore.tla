----------------------------- MODULE MemoryStore ----------------------------
(***************************************************************************)
(* Curated memory, one scope of it: MemoryStore with its revisions, its    *)
(* full-text index and its idempotency keys, the clients that read an      *)
(* entry and change it later, and one memory tool call of an agent run     *)
(* (MemoryTools), which a crash may leave uncertain and AgentRuntime then  *)
(* reconciles.                                                             *)
(*                                                                         *)
(* An action is one transaction.  Sessions of the store follow each other: *)
(* a crash ends one, and the next may find a SQLite without FTS5.          *)
(***************************************************************************)
EXTENDS Integers, Sequences, FiniteSets

CONSTANTS
  Ids,           \* entries that can be made; an id is drawn at random and never again
  Contents,      \* contents, told apart by their hash
  Unsafe,        \* contents that the scanner blocks
  Keys,          \* idempotency keys
  Clients,       \* users of the API
  MaxRevision,   \* bound: revisions of an entry
  MaxCrashes,    \* bound: sessions that end
  None

ASSUME MemoryAssumption ==
  /\ Unsafe \subseteq Contents
  /\ None \notin Ids \cup Contents
  /\ Keys \cap {"user", "tool"} = {}
  /\ MaxRevision \in Nat /\ MaxCrashes \in Nat

VARIABLES
  revision,    \* memory_entries; revision 0: no such row
  content,
  tombstoned,
  history,     \* memory_revisions of each entry, with the revision its writer had seen,
               \* the writer, and the key it was written under
  keyed,       \* memory_idempotency
  index,       \* rows of memory_entries_fts
  blind,       \* entries that were changed while there was no index
  session,     \* "closed", "fts5" or "like"
  view,        \* what a client has read
  call,        \* the tool call: kind, entry, expected revision, content
  step,        \* where the tool call is
  effects,     \* entries the tool call has changed or made
  crashes

rowVars   == <<revision, content, tombstoned, history, index, blind>>
toolVars  == <<call, step, effects>>
vars == <<rowVars, keyed, session, view, toolVars, crashes>>

Exists(i) == revision[i] > 0
Open      == session # "closed"

Active == {i \in Ids : Exists(i) /\ ~tombstoned[i]}

Calls ==
  [kind : {"add"}, id : {None}, expected : {0}, content : Contents]
    \cup [kind : {"revise"}, id : Ids, expected : 1 .. MaxRevision, content : Contents]
    \cup [kind : {"remove"}, id : Ids, expected : 1 .. MaxRevision, content : {None}]

ASSUME CallAssumption == None \notin Calls

Last(i) == history[i][revision[i]]

NoView == [id |-> None, revision |-> 0]

Init ==
  /\ revision = [i \in Ids |-> 0]
  /\ content = [i \in Ids |-> None]
  /\ tombstoned = [i \in Ids |-> FALSE]
  /\ history = [i \in Ids |-> <<>>]
  /\ keyed = [k \in Keys |-> None]
  /\ index = {}
  /\ blind = {}
  /\ session = "closed"
  /\ view = [c \in Clients |-> NoView]
  /\ call = None
  /\ step = "none"
  /\ effects = 0
  /\ crashes = 0

----------------------------------------------------------------------------
(***************************************************************************)
(* Writing a row, its revision, and the index.                             *)
(***************************************************************************)
Indexable(i, c, gone) == IF gone \/ c \in Unsafe THEN {} ELSE {<<i, c>>}

\* Mutant: an entry's former row stays in the index.
ReindexedBeside(i, c, gone) ==
  IF session = "fts5" THEN index \cup Indexable(i, c, gone) ELSE index

\* _replace_fts
Reindexed(i, c, gone) ==
  IF session = "fts5" THEN {r \in index : r[1] # i} \cup Indexable(i, c, gone) ELSE index

\* One row of memory_entries and the one of memory_revisions.
Write(i, c, gone, seen, by) ==
  /\ revision[i] < MaxRevision
  /\ revision' = [revision EXCEPT ![i] = @ + 1]
  /\ content' = [content EXCEPT ![i] = c]
  /\ tombstoned' = [tombstoned EXCEPT ![i] = gone]
  /\ history' = [history EXCEPT ![i] =
       Append(@, [content |-> c, tombstoned |-> gone, seen |-> seen, by |-> by])]
  /\ index' = Reindexed(i, c, gone)
  /\ blind' = IF session = "fts5" THEN blind \ {i}
              ELSE IF Exists(i) THEN blind \cup {i} ELSE blind

\* _append_in_transaction
Make(i, c, by) == ~Exists(i) /\ Write(i, c, FALSE, 0, by)

\* Mutant: the writer's revision is not looked at.
ExpectedAny(i, seen) == TRUE

\* _check_expected
Expected(i, seen) == revision[i] = seen

----------------------------------------------------------------------------
(***************************************************************************)
(* Sessions of the store.                                                  *)
(***************************************************************************)
\* _configure_fts adds what the index has no row of; it does not look at rows it has.
Missing ==
  UNION {Indexable(i, content[i], FALSE) : i \in {j \in Active : \A r \in index : r[1] # j}}

OpenStore(backend) ==
  /\ session = "closed"
  /\ session' = backend
  /\ index' = IF backend = "fts5" THEN index \cup Missing ELSE index
  /\ UNCHANGED <<revision, content, tombstoned, history, blind, keyed, view, toolVars,
                 crashes>>

\* The daemon dies: a step that was executing becomes uncertain.
Crash ==
  /\ Open /\ crashes < MaxCrashes
  /\ crashes' = crashes + 1
  /\ session' = "closed"
  /\ step' = IF step \in {"executing", "applied"} THEN "uncertain" ELSE step
  /\ UNCHANGED <<rowVars, keyed, view, call, effects>>

----------------------------------------------------------------------------
(***************************************************************************)
(* The API and the channel commands.                                       *)
(***************************************************************************)
\* recall: through the index, which holds no unsafe entry, or by comparing contents.
Found(c) ==
  IF session = "fts5"
  THEN {i \in Active : <<i, c>> \in index} \cup {i \in Active : content[i] = c /\ c \in Unsafe}
  ELSE {i \in Active : content[i] = c}

\* memory_search: a client keeps the revision of what it has seen.
Read(u) ==
  /\ Open
  /\ \E c \in Contents : \E i \in Found(c) :
       view' = [view EXCEPT ![u] = [id |-> i, revision |-> revision[i]]]
  /\ UNCHANGED <<rowVars, keyed, session, toolVars, crashes>>

Add(i, c) ==
  /\ Open /\ Make(i, c, "user")
  /\ UNCHANGED <<keyed, session, view, toolVars, crashes>>

KeyKnown(k) == keyed[k] # None

\* append_idempotent: a known key returns its entry, removed or not, or is a conflict.
AddIdempotent(k, i, c) ==
  /\ Open /\ ~KeyKnown(k)
  /\ Make(i, c, k)
  /\ keyed' = [keyed EXCEPT ![k] = i]
  /\ UNCHANGED <<session, view, toolVars, crashes>>

\* memory_add, with a key or without one.
MemoryAdd(i, c) == Add(i, c) \/ \E k \in Keys : AddIdempotent(k, i, c)

Replace(u, c) ==
  LET i == view[u].id IN
  /\ Open /\ i # None /\ i \in Active /\ Expected(i, view[u].revision)
  /\ Write(i, c, FALSE, view[u].revision, "user")
  /\ UNCHANGED <<keyed, session, view, toolVars, crashes>>

\* An entry that is removed already is returned as it is.
Remove(u) ==
  LET i == view[u].id IN
  /\ Open /\ i # None /\ i \in Active /\ Expected(i, view[u].revision)
  /\ Write(i, content[i], TRUE, view[u].revision, "user")
  /\ UNCHANGED <<keyed, session, view, toolVars, crashes>>

----------------------------------------------------------------------------
(***************************************************************************)
(* The memory tools.                                                       *)
(***************************************************************************)
\* The model asks for a change, of an entry as a search has shown it.
AskTool(what) ==
  /\ Open /\ step = "none"
  /\ \/ what.kind = "add"
     \/ \E c \in Contents : what.id \in Found(c) /\ what.expected = revision[what.id]
  /\ call' = what /\ step' = "executing"
  /\ UNCHANGED <<rowVars, keyed, session, view, effects, crashes>>

\* Mutant: memory_add does not look for an equal entry.
SameContentNever(c) == FALSE

SameContent(c) == \E i \in Active : content[i] = c

\* The handler finds that nothing is left to do.
AlreadyApplied ==
  CASE call.kind = "add"    -> SameContent(call.content)
    [] call.kind = "revise" -> call.id \in Active /\ content[call.id] = call.content
    [] call.kind = "remove" -> tombstoned[call.id]

Applicable == call.id \in Active /\ Expected(call.id, call.expected)

RunHandler ==
  /\ Open /\ step = "executing"
  /\ \/ /\ AlreadyApplied
        /\ step' = "applied" /\ UNCHANGED <<rowVars, effects>>
     \/ /\ ~AlreadyApplied /\ call.kind = "add"
        /\ \E i \in Ids : Make(i, call.content, "tool")
        /\ step' = "applied" /\ effects' = effects + 1
     \/ /\ ~AlreadyApplied /\ call.kind # "add" /\ Applicable
        /\ IF call.kind = "revise"
           THEN Write(call.id, call.content, FALSE, call.expected, "tool")
           ELSE Write(call.id, content[call.id], TRUE, call.expected, "tool")
        /\ step' = "applied" /\ effects' = effects + 1
     \/ /\ ~AlreadyApplied /\ call.kind # "add" /\ ~Applicable
        /\ step' = "failed" /\ UNCHANGED <<rowVars, effects>>
  /\ UNCHANGED <<keyed, session, view, call, crashes>>

CommitStep ==
  /\ Open /\ step = "applied" /\ step' = "committed"
  /\ UNCHANGED <<rowVars, keyed, session, view, call, effects, crashes>>

\* Mutant: an entry with another content proves that the change has not been made.
UntouchedByContent == content[call.id] # call.content

Untouched == revision[call.id] = call.expected

\* The reconcile handlers; memory_add knows its entry by the content only.
Reconcile ==
  /\ Open /\ step = "uncertain"
  /\ step' = CASE AlreadyApplied -> "committed"
               [] ~AlreadyApplied /\ (call.kind = "add" \/ Untouched) -> "not applied"
               [] OTHER -> "conflict"
  /\ UNCHANGED <<rowVars, keyed, session, view, call, effects, crashes>>

\* Whatever the verdict, an operator may let the replacement run.
Approve ==
  /\ Open /\ step \in {"not applied", "conflict"} /\ step' = "executing"
  /\ UNCHANGED <<rowVars, keyed, session, view, call, effects, crashes>>

Next ==
  \/ \E backend \in {"fts5", "like"} : OpenStore(backend)
  \/ Crash \/ RunHandler \/ CommitStep \/ Reconcile \/ Approve
  \/ \E u \in Clients : Read(u) \/ Remove(u) \/ \E c \in Contents : Replace(u, c)
  \/ \E i \in Ids, c \in Contents : MemoryAdd(i, c)
  \/ \E what \in Calls : AskTool(what)

Spec == Init /\ [][Next]_vars

----------------------------------------------------------------------------
(***************************************************************************)
(* Properties.                                                             *)
(***************************************************************************)
TypeOK ==
  /\ revision \in [Ids -> 0 .. MaxRevision]
  /\ content \in [Ids -> Contents \cup {None}]
  /\ tombstoned \in [Ids -> BOOLEAN]
  /\ history \in [Ids -> Seq([content : Contents, tombstoned : BOOLEAN,
                              seen : 0 .. MaxRevision, by : {"user", "tool"} \cup Keys])]
  /\ keyed \in [Keys -> Ids \cup {None}]
  /\ index \subseteq Ids \X Contents
  /\ blind \subseteq Ids
  /\ session \in {"closed", "fts5", "like"}
  /\ view \in [Clients -> [id : Ids \cup {None}, revision : 0 .. MaxRevision]]
  /\ call \in Calls \cup {None}
  /\ step \in {"none", "executing", "applied", "committed", "failed", "uncertain",
               "not applied", "conflict"}
  /\ effects \in Nat /\ crashes \in 0 .. MaxCrashes

\* The audit trail is complete: an entry's revisions are all there, the last is what the row
\* says, and nothing follows a tombstone.
HistoryComplete ==
  \A i \in Ids :
    /\ Len(history[i]) = revision[i]
    /\ Exists(i) => Last(i).content = content[i] /\ Last(i).tombstoned = tombstoned[i]
    /\ \A n \in 1 .. Len(history[i]) : history[i][n].tombstoned => n = revision[i]

\* No update is lost: whoever wrote a revision, client or tool, had seen the one before it.
NoLostUpdate ==
  \A i \in Ids : \A n \in 1 .. Len(history[i]) : history[i][n].seen = n - 1

\* A key makes one entry, even when the entry is removed before the request is repeated.
KeyMakesOneEntry ==
  \A k \in Keys : Cardinality({i \in Ids : Exists(i) /\ history[i][1].by = k}) <= 1

\* A search finds the active entries of that content and no others, also across sessions and
\* through changes and removals; not so an entry that was changed while there was no index.
SearchFinds ==
  Open => \A c \in Contents : Found(c) \ blind = {i \in Active : content[i] = c} \ blind

\* Crashes and approved retries do not repeat what a tool did: memory_revise and memory_remove
\* change their entry once, and memory_add keeps one active entry of its content.
ToolWritesOnce ==
  /\ call # None /\ call.kind # "add" => effects <= 1
  /\ \A i, j \in Active :
       content[i] = content[j] /\ Last(i).by = "tool" /\ Last(j).by = "tool" => i = j

\* A change that reconciliation says was not made was not made; not so for memory_add, whose
\* entry may have been changed or removed since.
VerdictIsTrue == step = "not applied" /\ call.kind # "add" => effects = 0
=============================================================================
