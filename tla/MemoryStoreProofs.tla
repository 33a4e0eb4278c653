-------------------------- MODULE MemoryStoreProofs -------------------------
(***************************************************************************)
(* What holds of the memory for any entries, contents, keys, clients and   *)
(* number of sessions.                                                     *)
(***************************************************************************)
EXTENDS MemoryStore, FiniteSetTheorems, TLAPS

Writers == {"user", "tool"} \cup Keys

Revision == [content : Contents, tombstoned : BOOLEAN, seen : 0 .. MaxRevision, by : Writers]

RowTypes ==
  /\ revision \in [Ids -> 0 .. MaxRevision]
  /\ content \in [Ids -> Contents \cup {None}]
  /\ tombstoned \in [Ids -> BOOLEAN]
  /\ history \in [Ids -> Seq(Revision)]
  /\ index \subseteq Ids \X Contents
  /\ blind \subseteq Ids

\* The types that are not about rows.
RestTypes ==
  /\ keyed \in [Keys -> Ids \cup {None}]
  /\ session \in {"closed", "fts5", "like"}
  /\ view \in [Clients -> [id : Ids \cup {None}, revision : 0 .. MaxRevision]]
  /\ call \in Calls \cup {None}
  /\ step \in {"none", "executing", "applied", "committed", "failed", "uncertain",
               "not applied", "conflict"}
  /\ effects \in Nat /\ crashes \in 0 .. MaxCrashes

Books == HistoryComplete /\ NoLostUpdate

\* The key that an entry was made under names it.
KeysTold == \A i \in Ids, k \in Keys : Exists(i) /\ history[i][1].by = k => keyed[k] = i

\* Rows of the index are those of entries, and say what the entries say that were not changed
\* without it; with an index in place none of these is missing.
IndexTold ==
  /\ blind \subseteq {i \in Ids : Exists(i)}
  /\ \A i \in Ids, c \in Contents : <<i, c>> \in index =>
       /\ Exists(i) /\ c \notin Unsafe
       /\ i \notin blind => ~tombstoned[i] /\ content[i] = c
  /\ session = "fts5" =>
       \A i \in Active \ blind : content[i] \notin Unsafe => <<i, content[i]>> \in index

\* What the tool call has written so far.
ToolTold ==
  /\ call = None <=> step = "none"
  /\ call = None => effects = 0
  /\ \A i \in Ids : Exists(i) /\ Last(i).by = "tool" =>
       call # None /\ (call.kind # "add" => i = call.id)
  /\ call # None /\ call.kind # "add" =>
       effects \in {0, 1} /\ (effects = 1 => revision[call.id] > call.expected)

----------------------------------------------------------------------------
(***************************************************************************)
(* What writing a revision does.                                           *)
(***************************************************************************)
\* An entry that exists has a content.
LEMMA ContentOfEntry ==
  ASSUME RowTypes, HistoryComplete, NEW i \in Ids, Exists(i)
  PROVE  content[i] \in Contents
<1>1. history[i] \in Seq(Revision) /\ revision[i] \in 1 .. Len(history[i])
  BY DEF RowTypes, HistoryComplete, Exists
<1>2. Last(i) \in Revision
  BY <1>1 DEF Last
<1> QED BY <1>2 DEF HistoryComplete, Revision

\* The rows after a write.
LEMMA WriteTypes ==
  ASSUME RowTypes, NEW i \in Ids, NEW c \in Contents, NEW gone \in BOOLEAN,
         NEW seen \in 0 .. MaxRevision, NEW by \in Writers, Write(i, c, gone, seen, by)
  PROVE  RowTypes'
<1>1. [content |-> c, tombstoned |-> gone, seen |-> seen, by |-> by] \in Revision
  BY DEF Revision
<1>2. history' \in [Ids -> Seq(Revision)]
  BY <1>1 DEF RowTypes, Write
<1>3. revision' \in [Ids -> 0 .. MaxRevision]
  BY MemoryAssumption DEF MemoryAssumption, RowTypes, Write
<1>4. index' \subseteq Ids \X Contents
  BY DEF RowTypes, Write, Reindexed, Indexable
<1>5. blind' \subseteq Ids
  BY DEF RowTypes, Write
<1> QED BY <1>2, <1>3, <1>4, <1>5 DEF RowTypes, Write

\* What a write appends, and what it leaves.
LEMMA WriteAppends ==
  ASSUME RowTypes, Books, NEW i \in Ids, NEW c \in Contents, NEW gone \in BOOLEAN,
         NEW seen \in 0 .. MaxRevision, NEW by \in Writers, Write(i, c, gone, seen, by)
  PROVE  LET new == [content |-> c, tombstoned |-> gone, seen |-> seen, by |-> by] IN
         /\ revision'[i] = revision[i] + 1 /\ revision[i] \in Nat
         /\ Len(history'[i]) = revision'[i]
         /\ \A n \in 1 .. revision[i] : history'[i][n] = history[i][n]
         /\ history'[i][revision'[i]] = new
         /\ \A j \in Ids : j # i => /\ revision'[j] = revision[j] /\ history'[j] = history[j]
                                    /\ content'[j] = content[j] /\ tombstoned'[j] = tombstoned[j]
<1> DEFINE new == [content |-> c, tombstoned |-> gone, seen |-> seen, by |-> by]
<1>1. new \in Revision
  BY DEF Revision
<1>2. history[i] \in Seq(Revision) /\ history'[i] = Append(history[i], new)
  BY DEF RowTypes, Write
<1>3. Len(history[i]) = revision[i] /\ revision[i] \in Nat
  BY DEF Books, HistoryComplete, RowTypes
<1>4. revision'[i] = revision[i] + 1
  BY DEF RowTypes, Write
<1>5. /\ Len(history'[i]) = revision[i] + 1
      /\ history'[i][revision[i] + 1] = new
      /\ \A n \in 1 .. revision[i] : history'[i][n] = history[i][n]
  BY <1>1, <1>2, <1>3
<1>6. \A j \in Ids : j # i => /\ revision'[j] = revision[j] /\ history'[j] = history[j]
                              /\ content'[j] = content[j] /\ tombstoned'[j] = tombstoned[j]
  BY DEF RowTypes, Write
<1> QED BY <1>3, <1>4, <1>5, <1>6

\* A writer that has seen the entry as it is, and not removed, keeps the books.
LEMMA WriteBooks ==
  ASSUME RowTypes, Books, NEW i \in Ids, NEW c \in Contents, NEW gone \in BOOLEAN,
         NEW by \in Writers, Write(i, c, gone, revision[i], by), Exists(i) => ~tombstoned[i]
  PROVE  Books'
<1>1. revision[i] \in 0 .. MaxRevision
  BY DEF RowTypes
<1>2. /\ revision'[i] = revision[i] + 1 /\ revision[i] \in Nat
      /\ Len(history'[i]) = revision'[i]
      /\ \A n \in 1 .. revision[i] : history'[i][n] = history[i][n]
      /\ history'[i][revision'[i]]
           = [content |-> c, tombstoned |-> gone, seen |-> revision[i], by |-> by]
      /\ \A j \in Ids : j # i => /\ revision'[j] = revision[j] /\ history'[j] = history[j]
                                 /\ content'[j] = content[j] /\ tombstoned'[j] = tombstoned[j]
  BY <1>1, WriteAppends
<1>3. content'[i] = c /\ tombstoned'[i] = gone
  BY DEF RowTypes, Write
<1>4. Len(history[i]) = revision[i]
  BY DEF Books, HistoryComplete
<1>5. ASSUME NEW n \in 1 .. revision[i] PROVE history[i][n].tombstoned = FALSE /\ history[i][n].seen = n - 1
  <2>1. history[i] \in Seq(Revision)
    BY DEF RowTypes
  <2>2. history[i][n] \in Revision
    BY <1>4, <2>1
  <2>3. history[i][n].tombstoned \in BOOLEAN
    BY <2>2 DEF Revision
  <2>4. history[i][n].tombstoned => n = revision[i]
    BY <1>4 DEF Books, HistoryComplete
  <2>5. Exists(i)
    BY <1>2 DEF Exists
  <2>6. Last(i).tombstoned = tombstoned[i]
    BY <2>5 DEF Books, HistoryComplete
  <2> QED BY <1>4, <2>3, <2>4, <2>5, <2>6 DEF Books, NoLostUpdate, Last
<1> DEFINE new == [content |-> c, tombstoned |-> gone, seen |-> revision[i], by |-> by]
<1>a. \A n \in 1 .. Len(history'[i]) : n \in 1 .. revision[i] \/ n = revision'[i]
  BY <1>2
<1>b. new.tombstoned = gone /\ new.seen = revision[i] /\ new.content = c
  OBVIOUS
<1>6. HistoryComplete'
  <2> SUFFICES ASSUME NEW j \in Ids
               PROVE  /\ Len(history'[j]) = revision'[j]
                      /\ Exists(j)' => Last(j)'.content = content'[j]
                                        /\ Last(j)'.tombstoned = tombstoned'[j]
                      /\ \A n \in 1 .. Len(history'[j]) :
                           history'[j][n].tombstoned => n = revision'[j]
    BY DEF HistoryComplete
  <2>1. CASE j = i
    <3>1. Last(i)' = new
      BY <1>2 DEF Last
    <3>2. \A n \in 1 .. Len(history'[i]) : history'[i][n].tombstoned => n = revision'[i]
      BY <1>2, <1>5, <1>a
    <3> HIDE DEF new
    <3> QED BY <1>2, <1>3, <1>b, <2>1, <3>1, <3>2
  <2>2. CASE j # i
    <3>1. /\ revision'[j] = revision[j] /\ history'[j] = history[j]
          /\ content'[j] = content[j] /\ tombstoned'[j] = tombstoned[j]
      BY <1>2, <2>2
    <3>2. Last(j)' = Last(j) /\ (Exists(j)' <=> Exists(j))
      BY <3>1 DEF Last, Exists
    <3> QED BY <3>1, <3>2 DEF Books, HistoryComplete
  <2> QED BY <2>1, <2>2
<1>7. NoLostUpdate'
  <2> SUFFICES ASSUME NEW j \in Ids, NEW n \in 1 .. Len(history'[j])
               PROVE  history'[j][n].seen = n - 1
    BY DEF NoLostUpdate
  <2>1. CASE j = i /\ n \in 1 .. revision[i]
    BY <1>2, <1>5, <2>1
  <2>2. CASE j = i /\ n = revision'[i]
    <3>1. history'[j][n] = new
      BY <1>2, <2>2
    <3> HIDE DEF new
    <3> QED BY <1>2, <1>b, <2>2, <3>1
  <2>3. CASE j # i
    BY <1>2, <2>3 DEF Books, NoLostUpdate
  <2> QED BY <1>a, <2>1, <2>2, <2>3
<1> QED BY <1>6, <1>7 DEF Books

\* A write keeps the index true.
LEMMA WriteIndex ==
  ASSUME RowTypes, IndexTold, NEW i \in Ids, NEW c \in Contents, NEW gone \in BOOLEAN,
         NEW seen, NEW by, Write(i, c, gone, seen, by), UNCHANGED session
  PROVE  IndexTold'
<1>1. /\ revision'[i] > 0 /\ content'[i] = c /\ tombstoned'[i] = gone
      /\ \A j \in Ids : j # i => /\ revision'[j] = revision[j]
                                 /\ content'[j] = content[j] /\ tombstoned'[j] = tombstoned[j]
  BY DEF RowTypes, Write
<1>2. CASE session = "fts5"
  <2>1. index' = {r \in index : r[1] # i} \cup Indexable(i, c, gone) /\ blind' = blind \ {i}
    BY <1>2 DEF Write, Reindexed
  <2>2. \A d \in Contents : <<i, d>> \in index' <=> <<i, d>> \in Indexable(i, c, gone)
    BY <2>1 DEF Indexable
  <2>3. \A j \in Ids, d \in Contents : j # i => (<<j, d>> \in index' <=> <<j, d>> \in index)
    BY <2>1 DEF Indexable
  <2>4. blind' \subseteq {j \in Ids : Exists(j)'}
    BY <1>1, <2>1 DEF IndexTold, Exists
  <2>5. \A j \in Ids, d \in Contents : <<j, d>> \in index' =>
          /\ Exists(j)' /\ d \notin Unsafe
          /\ j \notin blind' => ~tombstoned'[j] /\ content'[j] = d
    BY <1>1, <2>1, <2>2, <2>3 DEF IndexTold, Exists, Indexable
  <2>6. ASSUME NEW j \in Active' \ blind', content'[j] \notin Unsafe
        PROVE  <<j, content'[j]>> \in index'
    <3>1. CASE j = i
      BY <1>1, <2>1, <2>6, <3>1 DEF Active, Indexable
    <3>2. CASE j # i
      <4>1. j \in Active \ blind /\ content[j] = content'[j]
        BY <1>1, <2>1, <2>6, <3>2 DEF Active, Exists
      <4>2. <<j, content[j]>> \in index
        BY <1>2, <2>6, <4>1 DEF IndexTold
      <4> QED BY <2>1, <3>2, <4>1, <4>2
    <3> QED BY <3>1, <3>2
  <2> QED BY <2>4, <2>5, <2>6 DEF IndexTold
<1>3. CASE session # "fts5"
  <2>1. index' = index /\ blind' = IF Exists(i) THEN blind \cup {i} ELSE blind
    BY <1>3 DEF Write, Reindexed
  <2> QED BY <1>1, <1>3, <2>1 DEF IndexTold, Exists
<1> QED BY <1>2, <1>3

\* An entry that exists already, or a writer without a key, leaves the keys told.
LEMMA WriteKeys ==
  ASSUME RowTypes, Books, KeysTold, NEW i \in Ids, NEW c \in Contents, NEW gone \in BOOLEAN,
         NEW by \in Writers, Write(i, c, gone, revision[i], by), UNCHANGED keyed,
         Exists(i) \/ by \notin Keys
  PROVE  KeysTold'
<1>1. revision[i] \in 0 .. MaxRevision
  BY DEF RowTypes
<1> DEFINE new == [content |-> c, tombstoned |-> gone, seen |-> revision[i], by |-> by]
<1>0. /\ revision'[i] = revision[i] + 1 /\ revision[i] \in Nat
      /\ \A n \in 1 .. revision[i] : history'[i][n] = history[i][n]
      /\ history'[i][revision'[i]] = new
      /\ \A j \in Ids : j # i => revision'[j] = revision[j] /\ history'[j] = history[j]
  BY <1>1, WriteAppends
<1>2. history'[i][revision'[i]].by = by
  BY <1>0
<1> HIDE DEF new
<1> SUFFICES ASSUME NEW j \in Ids, NEW k \in Keys, Exists(j)', history'[j][1].by = k
             PROVE  keyed'[k] = j
  BY DEF KeysTold
<1>3. CASE j # i
  BY <1>0, <1>3 DEF KeysTold, Exists
<1>4. CASE j = i /\ Exists(i)
  BY <1>0, <1>4 DEF KeysTold, Exists
<1>5. CASE j = i /\ ~Exists(i)
  BY <1>0, <1>2, <1>5 DEF Exists
<1> QED BY <1>3, <1>4, <1>5

\* A new key names the entry that is made under it.
LEMMA NewKey ==
  ASSUME RowTypes, RestTypes, Books, KeysTold, NEW i \in Ids, NEW c \in Contents, NEW k \in Keys,
         NEW gone \in BOOLEAN,
         ~Exists(i), Write(i, c, gone, revision[i], k), AddIdempotent(k, i, c)
  PROVE  KeysTold'
<1>1. revision[i] \in 0 .. MaxRevision /\ ~(revision[i] > 0) /\ k \in Writers
  BY DEF RowTypes, Exists, Writers
<1> DEFINE new == [content |-> c, tombstoned |-> gone, seen |-> revision[i], by |-> k]
<1>2. /\ revision'[i] = revision[i] + 1 /\ revision[i] \in Nat
      /\ history'[i][revision'[i]] = new
      /\ \A j \in Ids : j # i => revision'[j] = revision[j] /\ history'[j] = history[j]
  BY <1>1, WriteAppends
<1>3. history'[i][1].by = k
  BY <1>1, <1>2
<1> HIDE DEF new
<1>4. keyed' = [keyed EXCEPT ![k] = i] /\ keyed[k] = None /\ keyed \in [Keys -> Ids \cup {None}]
  BY DEF AddIdempotent, KeyKnown, RestTypes
<1> SUFFICES ASSUME NEW j \in Ids, NEW l \in Keys, Exists(j)', history'[j][1].by = l
             PROVE  keyed'[l] = j
  BY DEF KeysTold
<1>5. CASE j = i
  BY <1>3, <1>4, <1>5
<1>6. CASE j # i
  <2>1. keyed[l] = j
    BY <1>2, <1>6 DEF KeysTold, Exists
  <2>2. l # k
    BY <1>4, <2>1, MemoryAssumption DEF MemoryAssumption
  <2> QED BY <1>4, <2>1, <2>2
<1> QED BY <1>5, <1>6

----------------------------------------------------------------------------
(***************************************************************************)
(* What the writers do.                                                    *)
(***************************************************************************)
Rows == RowTypes /\ Books /\ IndexTold
Tool == ToolTold /\ ToolWritesOnce /\ VerdictIsTrue

\* The inductive invariant.
MInv == TypeOK /\ Rows /\ KeysTold /\ Tool

\* A call that changes an entry names it and the revision it has seen.
LEMMA CallTypes ==
  ASSUME TypeOK, call # None
  PROVE  /\ call.kind \in {"add", "revise", "remove"}
         /\ call.kind # "add" => call.id \in Ids /\ call.expected \in Nat
         /\ call.kind # "remove" => call.content \in Contents
<1>1. call \in Calls
  BY DEF TypeOK
<1>2. CASE call \in [kind : {"add"}, id : {None}, expected : {0}, content : Contents]
  BY <1>2
<1>3. CASE call \in [kind : {"revise"}, id : Ids, expected : 1 .. MaxRevision,
                     content : Contents]
  BY <1>3, MemoryAssumption DEF MemoryAssumption
<1>4. CASE call \in [kind : {"remove"}, id : Ids, expected : 1 .. MaxRevision, content : {None}]
  BY <1>4, MemoryAssumption DEF MemoryAssumption
<1> QED BY <1>1, <1>2, <1>3, <1>4 DEF Calls

\* Who wrote last.
LEMMA WriteLast ==
  ASSUME RowTypes, Books, NEW i \in Ids, NEW c \in Contents, NEW gone \in BOOLEAN,
         NEW by \in Writers, Write(i, c, gone, revision[i], by)
  PROVE  /\ Last(i)'.by = by /\ Exists(i)' /\ content'[i] = c /\ tombstoned'[i] = gone
         /\ revision'[i] = revision[i] + 1 /\ revision[i] \in Nat
         /\ \A j \in Ids : j # i => /\ Last(j)' = Last(j) /\ (Exists(j)' <=> Exists(j))
                                    /\ content'[j] = content[j]
                                    /\ tombstoned'[j] = tombstoned[j]
                                    /\ revision'[j] = revision[j]
<1>1. revision[i] \in 0 .. MaxRevision
  BY DEF RowTypes
<1> DEFINE new == [content |-> c, tombstoned |-> gone, seen |-> revision[i], by |-> by]
<1>2. /\ revision'[i] = revision[i] + 1 /\ revision[i] \in Nat
      /\ history'[i][revision'[i]] = new
      /\ \A j \in Ids : j # i => /\ revision'[j] = revision[j] /\ history'[j] = history[j]
                                 /\ content'[j] = content[j] /\ tombstoned'[j] = tombstoned[j]
  BY <1>1, WriteAppends
<1>3. Last(i)' = new /\ new.by = by
  BY <1>2 DEF Last
<1> HIDE DEF new
<1>4. content'[i] = c /\ tombstoned'[i] = gone
  BY DEF RowTypes, Write
<1> QED BY <1>2, <1>3, <1>4 DEF Exists, Last

\* A client that changes an entry as it is leaves what is said of the tool.
LEMMA UserWrites ==
  ASSUME TypeOK, Rows, Tool, NEW i \in Ids, NEW c \in Contents, NEW gone \in BOOLEAN,
         NEW by \in Writers, by # "tool", Write(i, c, gone, revision[i], by),
         Exists(i) => ~tombstoned[i], UNCHANGED <<session, toolVars>>
  PROVE  Rows' /\ Tool'
<1>1. RowTypes' /\ Books' /\ IndexTold'
  <2>1. revision[i] \in 0 .. MaxRevision
    BY DEF TypeOK
  <2> QED BY <2>1, WriteTypes, WriteBooks, WriteIndex DEF Rows
<1>2. /\ Last(i)'.by = by /\ Exists(i)' /\ content'[i] = c /\ tombstoned'[i] = gone
      /\ revision'[i] = revision[i] + 1 /\ revision[i] \in Nat
      /\ \A j \in Ids : j # i => /\ Last(j)' = Last(j) /\ (Exists(j)' <=> Exists(j))
                                 /\ content'[j] = content[j]
                                 /\ tombstoned'[j] = tombstoned[j]
                                 /\ revision'[j] = revision[j]
  BY WriteLast DEF Rows
<1>3. UNCHANGED <<call, step, effects>>
  BY DEF toolVars
<1>4. ASSUME NEW j \in Ids, Exists(j)', Last(j)'.by = "tool"
      PROVE  j # i /\ Exists(j) /\ Last(j).by = "tool"
  BY <1>2, <1>4
<1>5. ToolTold'
  <2>1. call # None /\ call.kind # "add" => call.id \in Ids /\ call.expected \in Nat
    BY CallTypes
  <2>2. ASSUME call # None, call.kind # "add"
        PROVE  effects \in {0, 1} /\ (effects = 1 => revision'[call.id] > call.expected)
    <3>1. ASSUME NEW j \in Ids
          PROVE  revision[j] \in Nat /\ revision'[j] \in Nat /\ revision'[j] >= revision[j]
      <4>1. revision[j] \in Nat
        BY MemoryAssumption DEF MemoryAssumption, Rows, RowTypes
      <4>2. revision'[j] = revision[j] \/ revision'[j] = revision[j] + 1
        BY <1>2
      <4> QED BY <4>1, <4>2
    <3>2. effects \in {0, 1} /\ (effects = 1 => revision[call.id] > call.expected)
      BY <2>2 DEF Tool, ToolTold
    <3>3. call.id \in Ids /\ call.expected \in Nat
      BY <2>1, <2>2
    <3>4. /\ revision[call.id] \in Nat /\ revision'[call.id] \in Nat
          /\ revision'[call.id] >= revision[call.id]
      BY <3>1, <3>3
    <3> QED BY <3>2, <3>3, <3>4
  <2>3. \A j \in Ids : Exists(j)' /\ Last(j)'.by = "tool" =>
          call # None /\ (call.kind # "add" => j = call.id)
    BY <1>4 DEF Tool, ToolTold
  <2> QED BY <1>3, <2>2, <2>3 DEF Tool, ToolTold
<1>6. ToolWritesOnce'
  <2>1. \A j \in Active' : Last(j)'.by = "tool" =>
          j # i /\ j \in Active /\ Last(j).by = "tool" /\ content'[j] = content[j]
    BY <1>2, <1>4 DEF Active
  <2> QED BY <1>3, <2>1 DEF Tool, ToolWritesOnce
<1>7. VerdictIsTrue'
  BY <1>3 DEF Tool, VerdictIsTrue
<1> QED BY <1>1, <1>5, <1>6, <1>7 DEF Rows, Tool

\* The tool writes an entry of a new content, or the entry it was to change while nobody
\* has changed it.
LEMMA ToolWrites ==
  ASSUME TypeOK, Rows, Tool, NEW i \in Ids, NEW c \in Contents, NEW gone \in BOOLEAN,
         Write(i, c, gone, revision[i], "tool"), Exists(i) => ~tombstoned[i],
         UNCHANGED <<session, call>>, call # None, step' = "applied", effects' = effects + 1,
         \/ call.kind = "add" /\ ~SameContent(c)
         \/ call.kind # "add" /\ i = call.id /\ revision[i] = call.expected
  PROVE  Rows' /\ Tool'
<1>0. "tool" \in Writers
  BY DEF Writers
<1>1. RowTypes' /\ Books' /\ IndexTold'
  <2>1. revision[i] \in 0 .. MaxRevision
    BY DEF TypeOK
  <2> QED BY <1>0, <2>1, WriteTypes, WriteBooks, WriteIndex DEF Rows
<1>2. /\ Exists(i)' /\ content'[i] = c
      /\ revision'[i] = revision[i] + 1 /\ revision[i] \in Nat
      /\ \A j \in Ids : j # i => /\ Last(j)' = Last(j) /\ (Exists(j)' <=> Exists(j))
                                 /\ content'[j] = content[j]
                                 /\ tombstoned'[j] = tombstoned[j]
                                 /\ revision'[j] = revision[j]
  BY <1>0, WriteLast DEF Rows
<1>3. call.kind # "add" => effects = 0
  BY <1>2 DEF Tool, ToolTold
<1>4. ToolTold'
  <2>1. \A j \in Ids : Exists(j)' /\ Last(j)'.by = "tool" =>
          (call.kind # "add" => j = call.id)
    BY <1>2 DEF Tool, ToolTold
  <2>2. call.kind # "add" => effects' = 1 /\ revision'[call.id] > call.expected
    BY <1>2, <1>3
  <2>3. step' # "none"
    OBVIOUS
  <2> QED BY <2>1, <2>2, <2>3 DEF ToolTold
<1>5. ToolWritesOnce'
  <2>1. call.kind # "add" => effects' <= 1
    BY <1>3
  <2>2. ASSUME NEW j \in Active', NEW k \in Active', content'[j] = content'[k],
               Last(j)'.by = "tool", Last(k)'.by = "tool"
        PROVE  j = k
    <3>1. j \in Ids /\ k \in Ids /\ Exists(j)' /\ Exists(k)'
      BY <2>2 DEF Active
    <3>2. CASE call.kind # "add"
      BY <1>4, <2>2, <3>1, <3>2 DEF ToolTold
    <3>3. CASE call.kind = "add"
      <4>1. \A l \in Active' : l # i => l \in Active /\ content[l] = content'[l]
                                        /\ content[l] # c /\ Last(l)' = Last(l)
        BY <1>2, <3>3 DEF Active, SameContent
      <4> QED BY <1>2, <2>2, <4>1 DEF Tool, ToolWritesOnce
    <3> QED BY <3>2, <3>3
  <2> QED BY <2>1, <2>2 DEF ToolWritesOnce
<1>6. VerdictIsTrue'
  BY DEF VerdictIsTrue
<1> QED BY <1>1, <1>4, <1>5, <1>6 DEF Rows, Tool

----------------------------------------------------------------------------
(***************************************************************************)
(* The invariant.                                                          *)
(***************************************************************************)
LEMMA TypesSplit == TypeOK <=> RowTypes /\ RestTypes
BY DEF TypeOK, RowTypes, RestTypes, Revision, Writers

\* The empty store.
LEMMA MInvInit == Init => MInv
<1> SUFFICES ASSUME Init PROVE MInv
  OBVIOUS
<1>1. RowTypes
  <2>1. <<>> \in Seq(Revision)
    OBVIOUS
  <2> QED BY <2>1, MemoryAssumption DEF MemoryAssumption, Init, RowTypes
<1>2. RestTypes
  BY MemoryAssumption DEF MemoryAssumption, Init, RestTypes, NoView
<1>3. \A i \in Ids : ~Exists(i) /\ revision[i] = 0 /\ history[i] = <<>>
  BY DEF Init, Exists
<1>4. Books
  BY <1>3 DEF Books, HistoryComplete, NoLostUpdate
<1>5. KeysTold /\ IndexTold
  BY <1>3 DEF Init, KeysTold, IndexTold
<1>6. Tool
  BY <1>3 DEF Init, Tool, ToolTold, ToolWritesOnce, VerdictIsTrue, Active
<1> QED BY <1>1, <1>2, <1>4, <1>5, <1>6, TypesSplit DEF MInv, Rows

\* What is said of rows, keys and the tool depends on nothing else.
LEMMA RowsUnchanged ==
  ASSUME Rows, KeysTold, UNCHANGED <<rowVars, keyed>>,
         session' = session \/ session' # "fts5"
  PROVE  Rows' /\ KeysTold'
<1>1. UNCHANGED <<revision, content, tombstoned, history, index, blind, keyed>>
  BY DEF rowVars
<1>2. RowTypes' /\ Books' /\ KeysTold'
  BY <1>1 DEF Rows, RowTypes, Books, HistoryComplete, NoLostUpdate, KeysTold, Last, Exists
<1>3. IndexTold'
  BY <1>1 DEF Rows, IndexTold, Exists, Active
<1> QED BY <1>2, <1>3 DEF Rows

LEMMA ToolUnchanged ==
  ASSUME Tool, UNCHANGED <<revision, content, tombstoned, history, call, effects>>,
         step' = step \/ step' \notin {"none", "not applied"}, (step' = "none") <=> (step = "none")
  PROVE  Tool'
<1>1. ToolTold'
  BY DEF Tool, ToolTold, Exists, Last
<1>2. ToolWritesOnce' /\ VerdictIsTrue'
  BY DEF Tool, ToolWritesOnce, VerdictIsTrue, Active, Exists, Last
<1> QED BY <1>1, <1>2 DEF Tool

\* A session with an index adds the rows that are missing.
LEMMA OpenIndex ==
  ASSUME Rows, NEW backend \in {"fts5", "like"}, OpenStore(backend)
  PROVE  Rows'
<1>1. UNCHANGED <<revision, content, tombstoned, history, blind>> /\ session' = backend
  BY DEF OpenStore
<1>2. RowTypes'
  <2>1. \A r \in Missing : \E i \in Active : r = <<i, content[i]>> /\ content[i] \notin Unsafe
    BY DEF Missing, Indexable
  <2>2. \A i \in Active : content[i] \in Contents
    BY ContentOfEntry DEF Active, Rows, Books
  <2>3. Missing \subseteq Ids \X Contents
    BY <2>1, <2>2 DEF Active
  <2> QED BY <1>1, <2>3 DEF Rows, RowTypes, OpenStore
<1>3. Books'
  BY <1>1 DEF Rows, Books, HistoryComplete, NoLostUpdate, Last, Exists
<1>4. IndexTold'
  <2>1. CASE backend = "like"
    BY <1>1, <2>1 DEF OpenStore, Rows, IndexTold, Exists, Active
  <2>2. CASE backend = "fts5"
    <3>1. index' = index \cup Missing
      BY <2>2 DEF OpenStore
    <3>2. \A i \in Ids, c \in Contents : <<i, c>> \in Missing =>
            i \in Active /\ content[i] = c /\ c \notin Unsafe
      <4> SUFFICES ASSUME NEW i \in Ids, NEW c \in Contents, <<i, c>> \in Missing
                   PROVE  i \in Active /\ content[i] = c /\ c \notin Unsafe
        OBVIOUS
      <4>1. PICK j \in Active : <<i, c>> \in Indexable(j, content[j], FALSE)
        BY DEF Missing
      <4>2. <<i, c>> = <<j, content[j]>> /\ content[j] \notin Unsafe
        BY <4>1 DEF Indexable
      <4> QED BY <4>2
    <3>3. ASSUME NEW i \in Active \ blind, content[i] \notin Unsafe
          PROVE  <<i, content[i]>> \in index'
      <4>1. CASE \A r \in index : r[1] # i
        BY <3>1, <3>3, <4>1 DEF Missing, Indexable
      <4>2. CASE \E r \in index : r[1] = i
        <5>1. PICK r \in index : r[1] = i
          BY <4>2
        <5>2. r = <<i, r[2]>> /\ r[2] \in Contents
          BY <5>1 DEF Rows, RowTypes
        <5>3. content[i] = r[2]
          BY <3>3, <5>1, <5>2 DEF Rows, IndexTold, Active
        <5> QED BY <3>1, <5>1, <5>2, <5>3
      <4> QED BY <4>1, <4>2
    <3>4. \A i \in Ids, c \in Contents : <<i, c>> \in index' =>
            /\ Exists(i) /\ c \notin Unsafe
            /\ i \notin blind => ~tombstoned[i] /\ content[i] = c
      BY <3>1, <3>2 DEF Rows, IndexTold, Active
    <3> QED BY <1>1, <3>3, <3>4 DEF Rows, IndexTold, Exists, Active
  <2> QED BY <2>1, <2>2
<1> QED BY <1>2, <1>3, <1>4 DEF Rows

\* Every step keeps the types that are not about rows.
LEMMA RestNext ==
  ASSUME RestTypes, [Next]_vars, \A i \in Ids : revision[i] \in 0 .. MaxRevision
  PROVE  RestTypes'
<1> USE DEF RestTypes
<1>1. ASSUME NEW backend \in {"fts5", "like"}, OpenStore(backend) PROVE RestTypes'
  BY <1>1 DEF OpenStore, toolVars
<1>2. CASE Crash
  <2>1. UNCHANGED <<keyed, view, call, effects>> /\ session' = "closed"
    BY <1>2 DEF Crash
  <2>2. crashes' \in 0 .. MaxCrashes
    <3>1. crashes \in 0 .. MaxCrashes /\ crashes < MaxCrashes /\ crashes' = crashes + 1
      BY <1>2 DEF Crash
    <3> HIDE DEF RestTypes
    <3> QED BY <3>1, MemoryAssumption DEF MemoryAssumption
  <2>3. step' \in {step, "uncertain"}
    BY <1>2 DEF Crash
  <2> QED BY <2>1, <2>2, <2>3
<1>3. CASE RunHandler
  <2>1. UNCHANGED <<keyed, session, view, call, crashes>>
    BY <1>3 DEF RunHandler
  <2>2. step' \in {"applied", "failed"} /\ effects' \in {effects, effects + 1}
    BY <1>3 DEF RunHandler
  <2>3. effects \in Nat
    OBVIOUS
  <2>4. effects' \in Nat
    <3> HIDE DEF RestTypes
    <3> QED BY <2>2, <2>3
  <2> QED BY <2>1, <2>2, <2>4
<1>4. CASE CommitStep
  BY <1>4 DEF CommitStep
<1>5. CASE Reconcile
  BY <1>5 DEF Reconcile
<1>6. CASE Approve
  BY <1>6 DEF Approve
<1>7. ASSUME NEW u \in Clients, Read(u) PROVE RestTypes'
  <2>1. UNCHANGED <<keyed, session, call, step, effects, crashes>>
    BY <1>7 DEF Read, toolVars
  <2>2. PICK c \in Contents : \E i \in Found(c) :
          view' = [view EXCEPT ![u] = [id |-> i, revision |-> revision[i]]]
    BY <1>7 DEF Read
  <2>3. PICK i \in Ids : view' = [view EXCEPT ![u] = [id |-> i, revision |-> revision[i]]]
    BY <2>2 DEF Found, Active
  <2>4. view' \in [Clients -> [id : Ids \cup {None}, revision : 0 .. MaxRevision]]
    BY <2>3
  <2> QED BY <2>1, <2>4
<1>8. ASSUME NEW u \in Clients, Remove(u) PROVE RestTypes'
  BY <1>8 DEF Remove, toolVars
<1>9. ASSUME NEW u \in Clients, NEW c \in Contents, Replace(u, c) PROVE RestTypes'
  BY <1>9 DEF Replace, toolVars
<1>10. ASSUME NEW i \in Ids, NEW c \in Contents, Add(i, c) PROVE RestTypes'
  BY <1>10 DEF Add, toolVars
<1>11. ASSUME NEW i \in Ids, NEW c \in Contents, NEW k \in Keys, AddIdempotent(k, i, c)
       PROVE  RestTypes'
  BY <1>11 DEF AddIdempotent, toolVars
<1>12. ASSUME NEW what \in Calls, AskTool(what) PROVE RestTypes'
  BY <1>12 DEF AskTool
<1>13. CASE UNCHANGED vars
  BY <1>13 DEF vars, toolVars
<1> QED
  BY <1>1, <1>2, <1>3, <1>4, <1>5, <1>6, <1>7, <1>8, <1>9, <1>10, <1>11, <1>12, <1>13 DEF Next, MemoryAdd

\* Every step keeps the invariant.
LEMMA MInvNext ==
  ASSUME MInv, [Next]_vars
  PROVE  MInv'
<1>1. RowTypes /\ RestTypes /\ Rows /\ KeysTold /\ Tool /\ TypeOK
  BY TypesSplit DEF MInv
<1>2. RestTypes'
  BY <1>1, RestNext DEF RowTypes
<1> SUFFICES Rows' /\ KeysTold' /\ Tool'
  <2>1. RowTypes' /\ RestTypes' => TypeOK'
    BY DEF TypeOK, RowTypes, RestTypes, Revision, Writers
  <2> QED BY <1>2, <2>1 DEF MInv, Rows
<1>a. \A i \in Active : i \in Ids /\ Exists(i) /\ ~tombstoned[i] /\ content[i] \in Contents
  BY <1>1, ContentOfEntry DEF Active, Rows, Books
<1>b. "user" \in Writers /\ "tool" \in Writers /\ "user" \notin Keys /\ "tool" \notin Keys
  BY MemoryAssumption DEF MemoryAssumption, Writers
<1>c. \A i \in Ids : ~Exists(i) => revision[i] = 0
  BY <1>1 DEF RowTypes, Exists
<1>3. ASSUME NEW backend \in {"fts5", "like"}, OpenStore(backend)
      PROVE  Rows' /\ KeysTold' /\ Tool'
  <2>1. Rows'
    BY <1>1, <1>3, OpenIndex
  <2>2. KeysTold'
    BY <1>1, <1>3 DEF OpenStore, KeysTold, Exists
  <2>3. Tool'
    BY <1>1, <1>3, ToolUnchanged DEF OpenStore, toolVars
  <2> QED BY <2>1, <2>2, <2>3
<1>4. CASE Crash
  <2>1. UNCHANGED <<rowVars, keyed, call, effects>> /\ session' = "closed"
        /\ step' = IF step \in {"executing", "applied"} THEN "uncertain" ELSE step
    BY <1>4 DEF Crash
  <2>2. Rows' /\ KeysTold'
    BY <1>1, <2>1, RowsUnchanged
  <2> QED BY <1>1, <2>1, <2>2, ToolUnchanged DEF rowVars
<1>5. CASE CommitStep \/ Approve
  <2>1. UNCHANGED <<rowVars, keyed, session, call, effects>>
        /\ step' \in {"committed", "executing"} /\ step # "none"
    BY <1>5 DEF CommitStep, Approve
  <2>2. Rows' /\ KeysTold'
    BY <1>1, <2>1, RowsUnchanged
  <2> QED BY <1>1, <2>1, <2>2, ToolUnchanged DEF rowVars
<1>6. CASE Reconcile
  <2>1. UNCHANGED <<rowVars, keyed, session, call, effects>> /\ step = "uncertain"
    BY <1>6 DEF Reconcile
  <2>2. Rows' /\ KeysTold'
    BY <1>1, <2>1, RowsUnchanged
  <2>3. call # None
    BY <1>1, <2>1 DEF Tool, ToolTold
  <2>4. step' \in {"committed", "not applied", "conflict"}
        /\ (step' = "not applied" => call.kind = "add" \/ Untouched)
    BY <1>6 DEF Reconcile
  <2>5. ToolTold' /\ ToolWritesOnce'
    BY <1>1, <2>1, <2>3, <2>4 DEF Tool, ToolTold, ToolWritesOnce, Active, Exists, Last, rowVars
  <2>6. VerdictIsTrue'
    <3>1. call.kind # "add" /\ Untouched => effects = 0
      <4>1. call.kind # "add" => call.id \in Ids /\ call.expected \in Nat
        BY <1>1, <2>3, CallTypes
      <4> QED BY <1>1, <2>3, <4>1 DEF Tool, ToolTold, Untouched
    <3> QED BY <2>1, <2>4, <3>1 DEF VerdictIsTrue
  <2> QED BY <2>2, <2>5, <2>6 DEF Tool
<1>7. ASSUME NEW what \in Calls, AskTool(what)
      PROVE  Rows' /\ KeysTold' /\ Tool'
  <2>1. UNCHANGED <<rowVars, keyed, session, effects>> /\ step = "none" /\ step' = "executing"
        /\ call' = what
    BY <1>7 DEF AskTool
  <2>2. Rows' /\ KeysTold'
    BY <1>1, <2>1, RowsUnchanged
  <2>3. call = None /\ effects = 0
    BY <1>1, <2>1 DEF Tool, ToolTold
  <2>4. \A i \in Ids : Exists(i) => Last(i).by # "tool"
    BY <1>1, <2>3 DEF Tool, ToolTold
  <2>5. what # None
    BY <1>7, CallAssumption DEF CallAssumption
  <2>6. ToolTold' /\ ToolWritesOnce' /\ VerdictIsTrue'
    BY <2>1, <2>3, <2>4, <2>5
    DEF ToolTold, ToolWritesOnce, VerdictIsTrue, Active, Exists, Last, rowVars
  <2> QED BY <2>2, <2>6 DEF Tool
<1>8. ASSUME NEW u \in Clients, Read(u)
      PROVE  Rows' /\ KeysTold' /\ Tool'
  <2>1. UNCHANGED <<rowVars, keyed, session, toolVars>>
    BY <1>8 DEF Read
  <2>2. Rows' /\ KeysTold'
    BY <1>1, <2>1, RowsUnchanged
  <2> QED BY <1>1, <2>1, <2>2, ToolUnchanged DEF rowVars, toolVars
<1>9. ASSUME NEW u \in Clients, Remove(u)
      PROVE  Rows' /\ KeysTold' /\ Tool'
  <2> DEFINE i == view[u].id
  <2>1. /\ i \in Active /\ Write(i, content[i], TRUE, revision[i], "user")
        /\ UNCHANGED <<keyed, session, toolVars>>
    BY <1>9 DEF Remove, Expected
  <2> HIDE DEF i
  <2> QED BY <1>1, <1>a, <1>b, <2>1, UserWrites, WriteKeys DEF Rows
<1>10. ASSUME NEW u \in Clients, NEW c \in Contents, Replace(u, c)
       PROVE  Rows' /\ KeysTold' /\ Tool'
  <2> DEFINE i == view[u].id
  <2>1. /\ i \in Active /\ Write(i, c, FALSE, revision[i], "user")
        /\ UNCHANGED <<keyed, session, toolVars>>
    BY <1>10 DEF Replace, Expected
  <2> HIDE DEF i
  <2> QED BY <1>1, <1>a, <1>b, <2>1, UserWrites, WriteKeys DEF Rows
<1>11. ASSUME NEW i \in Ids, NEW c \in Contents, Add(i, c)
       PROVE  Rows' /\ KeysTold' /\ Tool'
  <2>1. ~Exists(i) /\ Write(i, c, FALSE, revision[i], "user")
        /\ UNCHANGED <<keyed, session, toolVars>>
    BY <1>11, <1>c DEF Add, Make
  <2> QED BY <1>1, <1>b, <2>1, UserWrites, WriteKeys DEF Rows
<1>12. ASSUME NEW i \in Ids, NEW c \in Contents, NEW k \in Keys, AddIdempotent(k, i, c)
       PROVE  Rows' /\ KeysTold' /\ Tool'
  <2>1. ~Exists(i) /\ Write(i, c, FALSE, revision[i], k) /\ UNCHANGED <<session, toolVars>>
    BY <1>12, <1>c DEF AddIdempotent, Make
  <2>2. k \in Writers /\ k # "tool"
    BY <1>b DEF Writers
  <2>3. Rows' /\ Tool'
    BY <1>1, <2>1, <2>2, UserWrites
  <2>4. KeysTold'
    BY <1>1, <1>12, <2>1, <2>2, NewKey DEF Rows
  <2> QED BY <2>3, <2>4
<1>13. CASE RunHandler
  <2>1. UNCHANGED <<keyed, session, call>> /\ step = "executing" /\ call # None
    BY <1>1, <1>13 DEF RunHandler, Tool, ToolTold
  <2>2. CASE UNCHANGED <<rowVars, effects>> /\ step' \in {"applied", "failed"}
    <3>1. Rows' /\ KeysTold'
      BY <1>1, <2>1, <2>2, RowsUnchanged
    <3> QED BY <1>1, <2>1, <2>2, <3>1, ToolUnchanged DEF rowVars
  <2>3. CASE /\ ~AlreadyApplied /\ call.kind = "add"
             /\ \E i \in Ids : Make(i, call.content, "tool")
             /\ step' = "applied" /\ effects' = effects + 1
    <3>1. PICK i \in Ids : Make(i, call.content, "tool")
      BY <2>3
    <3>2. ~Exists(i) /\ Write(i, call.content, FALSE, revision[i], "tool")
      BY <1>c, <3>1 DEF Make
    <3>3. call.content \in Contents /\ ~SameContent(call.content)
      BY <1>1, <2>1, <2>3, CallTypes DEF AlreadyApplied
    <3>4. Rows' /\ Tool'
      BY <1>1, <2>1, <2>3, <3>2, <3>3, ToolWrites
    <3> QED BY <1>1, <1>b, <2>1, <3>2, <3>3, <3>4, WriteKeys DEF Rows
  <2>4. CASE /\ call.kind # "add" /\ Applicable /\ step' = "applied" /\ effects' = effects + 1
             /\ \E c \in Contents, gone \in BOOLEAN :
                  Write(call.id, c, gone, call.expected, "tool")
    <3>1. PICK c \in Contents, gone \in BOOLEAN : Write(call.id, c, gone, call.expected, "tool")
      BY <2>4
    <3>2. call.id \in Ids /\ Exists(call.id) /\ ~tombstoned[call.id]
          /\ revision[call.id] = call.expected
      BY <1>a, <2>4 DEF Applicable, Expected
    <3>3. Write(call.id, c, gone, revision[call.id], "tool")
      BY <3>1, <3>2
    <3>4. Rows' /\ Tool'
      BY <1>1, <2>1, <2>4, <3>2, <3>3, ToolWrites
    <3> QED BY <1>1, <1>b, <2>1, <3>2, <3>3, <3>4, WriteKeys DEF Rows
  <2>5. Applicable => content[call.id] \in Contents
    BY <1>a DEF Applicable
  <2>6. call.kind = "revise" => call.content \in Contents
    BY <1>1, <2>1, CallTypes
  <2> QED BY <1>13, <2>2, <2>3, <2>4, <2>5, <2>6 DEF RunHandler
<1>14. CASE UNCHANGED vars
  <2>1. UNCHANGED <<rowVars, keyed, session, toolVars>>
    BY <1>14 DEF vars
  <2>2. Rows' /\ KeysTold'
    BY <1>1, <2>1, RowsUnchanged
  <2> QED BY <1>1, <2>1, <2>2, ToolUnchanged DEF rowVars, toolVars
<1> QED
  BY <1>3, <1>4, <1>5, <1>6, <1>7, <1>8, <1>9, <1>10, <1>11, <1>12, <1>13, <1>14 DEF Next, MemoryAdd

\* The invariant holds in every reachable state.
THEOREM MemoryInvariant == Spec => []MInv
<1>1. MInv /\ [Next]_vars => MInv'
  BY MInvNext
<1> QED BY MInvInit, <1>1, PTL DEF Spec

----------------------------------------------------------------------------
(***************************************************************************)
(* The properties.                                                         *)
(***************************************************************************)
\* Every table, the index and the tool call keep their types.
THEOREM MemoryTypeCorrect == Spec => []TypeOK
<1>1. MInv => TypeOK
  BY DEF MInv
<1> QED BY MemoryInvariant, <1>1, PTL

\* Every revision of an entry is kept, and was written by somebody who had seen the one before.
THEOREM NoUpdateIsLost == Spec => [](HistoryComplete /\ NoLostUpdate)
<1>1. MInv => HistoryComplete /\ NoLostUpdate
  BY DEF MInv, Rows, Books
<1> QED BY MemoryInvariant, <1>1, PTL

\* A key makes one entry, removed or not.
THEOREM KeysMakeOneEntry == Spec => []KeyMakesOneEntry
<1>1. MInv => KeyMakesOneEntry
  <2> SUFFICES ASSUME MInv, NEW k \in Keys
               PROVE  Cardinality({i \in Ids : Exists(i) /\ history[i][1].by = k}) <= 1
    BY DEF KeyMakesOneEntry
  <2> DEFINE made == {i \in Ids : Exists(i) /\ history[i][1].by = k}
  <2>1. made \subseteq {keyed[k]}
    BY DEF MInv, KeysTold
  <2>2. IsFiniteSet({keyed[k]}) /\ Cardinality({keyed[k]}) = 1
    BY FS_Singleton
  <2> HIDE DEF made
  <2>3. Cardinality(made) <= Cardinality({keyed[k]})
    BY <2>1, <2>2, FS_Subset
  <2>4. Cardinality(made) <= 1
    BY <2>2, <2>3
  <2> QED BY <2>4 DEF made
<1> QED BY MemoryInvariant, <1>1, PTL

\* A search finds what is there, through sessions with an index and without one, except what
\* was changed without it.
THEOREM SearchesFind == Spec => []SearchFinds
<1>1. MInv => SearchFinds
  <2> SUFFICES ASSUME MInv, Open, NEW c \in Contents
               PROVE  Found(c) \ blind = {i \in Active : content[i] = c} \ blind
    BY DEF SearchFinds
  <2>1. CASE session # "fts5"
    BY <2>1 DEF Found
  <2>2. CASE session = "fts5"
    <3>1. \A i \in Active \ blind : <<i, c>> \in index => content[i] = c
      BY DEF MInv, Rows, IndexTold, Active
    <3>2. \A i \in Active \ blind : content[i] = c /\ c \notin Unsafe => <<i, c>> \in index
      BY <2>2 DEF MInv, Rows, IndexTold
    <3> QED BY <2>2, <3>1, <3>2 DEF Found
  <2> QED BY <2>1, <2>2
<1> QED BY MemoryInvariant, <1>1, PTL

\* However often crashes, verdicts and approvals send the tool call round, it changes its entry
\* once, or keeps one entry of its content.
THEOREM ToolsWriteOnce == Spec => []ToolWritesOnce
<1>1. MInv => ToolWritesOnce
  BY DEF MInv, Tool
<1> QED BY MemoryInvariant, <1>1, PTL

\* A change that reconciliation declares not made was not made.
THEOREM VerdictsAreTrue == Spec => []VerdictIsTrue
<1>1. MInv => VerdictIsTrue
  BY DEF MInv, Tool
<1> QED BY MemoryInvariant, <1>1, PTL
=============================================================================
