--------------------------- MODULE EnsembleProofs ---------------------------
(***************************************************************************)
(* What a fan-out has achieved when it has ended, for any workers, limits, *)
(* crashes and troubles.                                                   *)
(*                                                                         *)
(* That a completed fan-out is whole is easily said of one that was not    *)
(* interrupted.  Here any child may at the same time be run by itself, by  *)
(* a task that took its step over or lost it, and a task whose             *)
(* cancellation was swallowed goes on.  So the proof rests on two things:  *)
(* who owns a step (OneHolds, HoldersOwn, FinalIsLast), from which it      *)
(* follows that no call is made for a worker once it has answered; and     *)
(* what the main task has behind it wherever it stands (Waited, Answers,   *)
(* Behind).                                                                *)
(***************************************************************************)
EXTENDS Ensemble, TLAPS

Children  == Group \cup Solo
Grouping  == {"workers", "aborting", "cancelling"}
StageTask(s) == <<s, "stage">>

\* TypeOK without numbers: that a sum of naturals is one is induction over data.
Types ==
  /\ parent \in {"absent", "created", "running"} \cup Ended
  /\ children \subseteq Workers /\ result \subseteq Workers
  /\ child \in [Workers -> {"absent"} \cup Live \cup Ended]
  /\ last \in [Workers -> {"none", "more", "gated", "final"}]
  /\ step \in [Units -> {"none", "ready", "held", "lapsed", "failed", "committed"}]
  /\ holder \in [Units -> {"none", "fan-out", "solo", "stage"}]
  /\ written \in 0 .. Outputs
  /\ main \in {"down", "none", "submitting", "scheduled", "outputs"} \cup Grouping \cup Stages
  /\ place \in [Tasks -> {"none", "scheduled", "exiting", "calling", "done"} \cup Holding]

\* Tasks of the fan-out exist only while its main task waits for them, and that
\* task exists only while the parent is open.
Waited ==
  /\ main \notin Grouping => \A t \in Group : place[t] = "none"
  /\ \A s \in Stages : main # s => place[StageTask(s)] = "none"
  /\ parent \in Ended \cup {"absent"} => main \in {"none", "down"}
  /\ main = "workers" => \A t \in Group : place[t] # "none"

\* One task holds the event loop.
OneHolds == \A t, u \in Tasks : place[t] \in Holding /\ place[u] \in Holding => t = u

\* A task that got a step still has it when it calls the provider and commits.
HoldersOwn == \A t \in Tasks : place[t] \in {"claimed", "settled"} => Owns(t)

\* Nobody makes or commits a call for a worker that has given its final answer.
FinalIsLast ==
  \A t \in Children : last[t[1]] = "final" =>
    /\ place[t] \notin {"claimed", "settled"}
    /\ place[t] = "calling" => ~Owns(t)

\* A child is completed by its final answer, and a result is that of a completed child.
Answers ==
  /\ \A w \in Workers : child[w] = "completed" => last[w] = "final"
  /\ \A w \in result : child[w] = "completed"
  /\ \A t \in Group : place[t] = "done" => t[1] \in result
  /\ parent = "absent" \/ main = "submitting" => result = {}

\* What the main task has behind it.
StagesDone == \A s \in Stages : step[s] = "committed"
Behind ==
  /\ main \in Grouping \cup Stages \cup {"outputs"} => children = Workers
  /\ main \in Stages \cup {"outputs"} => result = Workers
  /\ main \in {"synthesizer", "outputs"} => step["verifier"] = "committed"
  /\ main = "outputs" => step["synthesizer"] = "committed"
  /\ written > 0 => children = Workers /\ result = Workers /\ StagesDone
  /\ written >= CostAt => billed = TotalCalls
  /\ parent = "completed" => written = Outputs

EInv == Types /\ Waited /\ OneHolds /\ HoldersOwn /\ FinalIsLast /\ Answers /\ Behind

----------------------------------------------------------------------------
(***************************************************************************)
(* Tasks, and how they move.                                               *)
(***************************************************************************)
Places == {"none", "scheduled", "exiting", "calling", "done"} \cup Holding

LEMMA TaskFacts ==
  ASSUME NEW t \in Tasks
  PROVE  /\ t = <<t[1], t[2]>> /\ t[1] \in Units
         /\ t \in Group <=> t[2] = "fan-out"
         /\ t \in Solo <=> t[2] = "solo"
         /\ t \in Children <=> t[2] # "stage"
         /\ t \in Children => t[1] \in Workers
         /\ t[2] = "stage" <=> t[1] \in Stages /\ t = StageTask(t[1])
         /\ t[2] \in {"fan-out", "solo", "stage"}
BY WorkersAssumption DEF Tasks, Group, Solo, Children, Units, StageTask, Stages

LEMMA StageTasks ==
  ASSUME NEW s \in Stages
  PROVE  StageTask(s) \in Tasks /\ s \in Units /\ s \notin Workers
         /\ StageTask(s) \notin Children /\ StageTask(s)[1] = s /\ StageTask(s)[2] = "stage"
BY WorkersAssumption DEF Tasks, Units, StageTask, Children, Group, Solo

LEMMA WorkerTasks ==
  ASSUME NEW w \in Workers
  PROVE  /\ <<w, "fan-out">> \in Group /\ <<w, "solo">> \in Solo
         /\ <<w, "fan-out">> \in Tasks /\ <<w, "solo">> \in Tasks
         /\ w \in Units
BY DEF Tasks, Units, Group, Solo

\* A task goes on, and the main task takes no notice.
Moves(t, to) == place' = [place EXCEPT ![t] = to] /\ UNCHANGED <<parent, main>>

\* A task ends without success; nothing but tasks of the group ends with it, and
\* a child that has completed is left alone.
Stops(t) ==
  /\ place' \in [Tasks -> Places] /\ place'[t] = "none"
  /\ \A p \in Tasks : place'[p] \in {place[p], "none"}
  /\ \A p \in Tasks : p # t /\ ~(t \in Group /\ p \in Group) => place'[p] = place[p]
  /\ child' \in [Workers -> {"absent"} \cup Live \cup Ended]
  /\ \A w \in Workers : child'[w] = "completed" <=> child[w] = "completed"
  /\ t \in Group => main' = "aborting" /\ parent' = parent
  /\ t \in Solo => main' = main /\ parent' = parent
  /\ t \notin Children => main' = "none" /\ parent' = "failed"

LEMMA GroupFailsStops ==
  ASSUME Types, NEW t \in Group, GroupFails(t), parent' = parent,
         child' \in [Workers -> {"absent"} \cup Live \cup Ended],
         \A w \in Workers : child'[w] = "completed" <=> child[w] = "completed"
  PROVE  Stops(t)
<1>1. t \in Tasks /\ t \in Children /\ t \notin Solo
  BY TaskFacts DEF Tasks, Children, Group, Solo
<1>2. place \in [Tasks -> Places]
  BY DEF Types, Places
<1>3. "none" \in Places
  BY DEF Places
<1>4. CASE main = "workers"
  <2>1. place' = Aborted(t) /\ main' = "aborting"
    BY <1>4 DEF GroupFails
  <2>2. \A p \in Tasks : place'[p] \in {place[p], "none"}
    BY <2>1 DEF Aborted
  <2>3. place' \in [Tasks -> Places] /\ place'[t] = "none"
    BY <2>1, <1>1, <1>2, <1>3 DEF Aborted
  <2>4. \A p \in Tasks : p # t /\ p \notin Group => place'[p] = place[p]
    BY <2>1 DEF Aborted
  <2> QED BY <2>1, <2>2, <2>3, <2>4, <1>1 DEF Stops
<1>5. CASE main # "workers"
  <2>1. place' = [place EXCEPT ![t] = "none"] /\ main' = "aborting"
    BY <1>5 DEF GroupFails
  <2> QED BY <2>1, <1>1, <1>2, <1>3 DEF Stops
<1> QED BY <1>4, <1>5

LEMMA LeavesStops ==
  ASSUME Types, NEW t \in Children, NEW status \in {"paused", "cancelled", "failed"} \cup
         {child[t[1]]}, Leaves(t, status)
  PROVE  Stops(t)
<1>1. t \in Tasks /\ t[1] \in Workers
  BY TaskFacts DEF Tasks, Children
<1>2. child' = [child EXCEPT ![t[1]] = IF @ \in Ended THEN @ ELSE status] /\ parent' = parent
  BY DEF Leaves
<1>3. /\ child' \in [Workers -> {"absent"} \cup Live \cup Ended]
      /\ \A w \in Workers : child'[w] = "completed" <=> child[w] = "completed"
  BY <1>1, <1>2 DEF Types, Live, Ended
<1>4. CASE t \in Group
  BY <1>2, <1>3, <1>4, GroupFailsStops DEF Leaves
<1>5. CASE t \notin Group
  <2>1. place' = [place EXCEPT ![t] = "none"] /\ main' = main
    BY <1>5 DEF Leaves, Put
  <2>2. place' \in [Tasks -> Places] /\ place'[t] = "none"
        /\ (\A p \in Tasks : place'[p] \in {place[p], "none"})
        /\ \A p \in Tasks : p # t => place'[p] = place[p]
    BY <2>1, <1>1 DEF Types, Places
  <2> QED BY <2>1, <2>2, <1>1, <1>2, <1>3, <1>5 DEF Stops, Children
<1> QED BY <1>4, <1>5

LEMMA StageStops ==
  ASSUME Types, NEW t \in Tasks, t[2] = "stage", FailsParent, Put(t, "none"), UNCHANGED child
  PROVE  Stops(t)
<1>1. t \notin Children
  BY TaskFacts
<1>2. place' \in [Tasks -> Places] /\ place'[t] = "none"
      /\ (\A p \in Tasks : place'[p] \in {place[p], "none"})
      /\ \A p \in Tasks : p # t => place'[p] = place[p]
  BY DEF Put, Types, Places
<1> QED BY <1>1, <1>2 DEF Stops, Types, FailsParent, Children

LEMMA RaisesStops ==
  ASSUME Types, NEW t \in Tasks, Raises(t)
  PROVE  Stops(t)
<1>1. CASE t[2] = "stage"
  BY <1>1, StageStops DEF Raises
<1>2. CASE t[2] # "stage"
  BY <1>2, LeavesStops, TaskFacts DEF Raises
<1> QED BY <1>1, <1>2

----------------------------------------------------------------------------
(***************************************************************************)
(* What a step does to the ownership of steps.                             *)
(***************************************************************************)
Kept      == \A t \in Tasks : Owns(t)' <=> Owns(t)
Lost(u)   == \A t \in Tasks : IF t[1] = u THEN ~Owns(t)' ELSE Owns(t)' <=> Owns(t)
Gained(t) == \A p \in Tasks : Owns(p)' <=> (p = t \/ Owns(p))

StepTypes ==
  /\ step' \in [Units -> {"none", "ready", "held", "lapsed", "failed", "committed"}]
  /\ holder' \in [Units -> {"none", "fan-out", "solo", "stage"}]
CommitsStay == \A u \in Stages : step[u] = "committed" => step'[u] = "committed"

LEMMA SameOwners ==
  ASSUME Types, UNCHANGED <<step, holder>>
  PROVE  Kept /\ StepTypes /\ CommitsStay
BY DEF Kept, StepTypes, CommitsStay, Owns, Types

LEMMA ReclaimedOwners ==
  ASSUME Types, step' \in {step, Reclaimed}, holder' = holder
  PROVE  Kept /\ StepTypes /\ CommitsStay
<1>1. \A u \in Units : (Reclaimed[u] = "held" <=> step[u] = "held")
                       /\ (step[u] = "committed" => Reclaimed[u] = "committed")
  BY DEF Reclaimed
<1>2. Reclaimed \in [Units -> {"none", "ready", "held", "lapsed", "failed", "committed"}]
  BY DEF Reclaimed, Types
<1>3. Kept
  BY <1>1, TaskFacts DEF Kept, Owns
<1>4. StepTypes /\ CommitsStay
  BY <1>1, <1>2, StageTasks DEF StepTypes, CommitsStay, Types
<1> QED BY <1>3, <1>4

LEMMA ClaimOwners ==
  ASSUME Types, NEW t \in Tasks, step[t[1]] \in {"none", "ready"},
         step' = [step EXCEPT ![t[1]] = "held"], holder' = [holder EXCEPT ![t[1]] = t[2]]
  PROVE  Gained(t) /\ StepTypes /\ CommitsStay
<1>1. t[1] \in Units /\ t[2] \in {"none", "fan-out", "solo", "stage"}
  BY TaskFacts
<1>2. StepTypes /\ CommitsStay
  BY <1>1, StageTasks DEF StepTypes, CommitsStay, Types
<1>3. ASSUME NEW p \in Tasks PROVE Owns(p)' <=> (p = t \/ Owns(p))
  <2>1. CASE p[1] = t[1]
    <3>1. ~Owns(p) /\ (Owns(p)' <=> p[2] = t[2])
      BY <1>1, <2>1 DEF Owns, Types
    <3>2. p[2] = t[2] => p = t
      BY <2>1, TaskFacts
    <3> QED BY <3>1, <3>2
  <2>2. CASE p[1] # t[1]
    BY <1>1, <2>2, TaskFacts DEF Owns, Types
  <2> QED BY <2>1, <2>2
<1> QED BY <1>2, <1>3 DEF Gained

\* A step that was held is not any more.
LEMMA LostOwners ==
  ASSUME Types, NEW u \in Units, step[u] = "held", holder' = holder,
         NEW status \in {"none", "ready", "lapsed", "failed", "committed"},
         step' = [step EXCEPT ![u] = status]
  PROVE  Lost(u) /\ StepTypes /\ CommitsStay
<1>1. StepTypes /\ CommitsStay
  BY StageTasks DEF StepTypes, CommitsStay, Types
<1>2. Lost(u)
  BY TaskFacts DEF Lost, Owns, Types
<1> QED BY <1>1, <1>2

LEMMA DroppedOwners ==
  ASSUME Types, NEW t \in Tasks, Owns(t), Dropped(t), holder' = holder
  PROVE  Lost(t[1]) /\ StepTypes /\ CommitsStay
BY LostOwners, TaskFacts DEF Dropped, Owns

LEMMA OneOwner ==
  ASSUME NEW t \in Tasks, NEW p \in Tasks, t[1] = p[1], Owns(t), Owns(p)
  PROVE  t = p
BY TaskFacts DEF Owns

----------------------------------------------------------------------------
(***************************************************************************)
(* What both kinds of movements of a task keep.                            *)
(***************************************************************************)
\* Steps change hands in one of these ways when task t moves.
HandsOf(t) ==
  /\ StepTypes /\ CommitsStay
  /\ \/ Kept
     \/ Owns(t) /\ Lost(t[1])
     \/ Gained(t) /\ last' = last /\ (t \in Children => last[t[1]] # "final")

ChildTypes == child' \in [Workers -> {"absent"} \cup Live \cup Ended]
LastTypes  == last' \in [Workers -> {"none", "more", "gated", "final"}]

\* A final answer stays one, and only the task that commits gives one.
AnswersStay(t) ==
  /\ LastTypes
  /\ \A w \in Workers : last[w] = "final" => last'[w] = "final"
  /\ \/ \A w \in Workers : last'[w] = "final" => last[w] = "final"
     \/ /\ t \in Children /\ Owns(t) /\ Lost(t[1]) /\ place[t] = "settled"
        /\ \A w \in Workers : w # t[1] => last'[w] = last[w]

CompletesAnswered ==
  /\ ChildTypes
  /\ \A w \in Workers : child[w] = "completed" => child'[w] = "completed"
  /\ \A w \in Workers : child'[w] = "completed" => child[w] = "completed" \/ last'[w] = "final"

\* Who has answered makes no call any more, and a committed stage neither.
LEMMA NoCallsBehind ==
  ASSUME EInv, NEW t \in Tasks, place[t] = "claimed"
  PROVE  written = 0
<1>1. CASE t \in Children
  <2>1. last[t[1]] # "final" /\ t[1] \in Workers
    BY <1>1, TaskFacts DEF EInv, FinalIsLast
  <2>2. t[1] \notin result
    BY <2>1 DEF EInv, Answers, Types
  <2>3. result # Workers
    BY <2>1, <2>2
  <2> QED BY <2>3 DEF EInv, Behind, Types, Outputs
<1>2. CASE t \notin Children
  <2>1. t[1] \in Stages
    BY <1>2, TaskFacts
  <2>2. step[t[1]] = "held"
    BY DEF EInv, HoldersOwn, Owns
  <2> QED BY <2>1, <2>2 DEF EInv, Behind, Types, Outputs, StagesDone
<1> QED BY <1>1, <1>2

\* Waited and OneHolds, for a task that stops and for one that moves.
LEMMA StopControl ==
  ASSUME EInv, NEW t \in Tasks, place[t] # "none", Stops(t)
  PROVE  Waited' /\ OneHolds'
<1>1. OneHolds'
  BY DEF Stops, EInv, OneHolds, Holding
<1>2. CASE t \in Group
  <2>1. main \in Grouping /\ main' = "aborting" /\ parent' = parent
    BY <1>2, TaskFacts DEF EInv, Waited, Stops
  <2>2. \A s \in Stages : place'[StageTask(s)] = "none"
    BY <2>1, StageTasks DEF EInv, Waited, Stops, Grouping, Stages
  <2> QED BY <1>1, <2>1, <2>2 DEF EInv, Waited, Grouping
<1>3. CASE t \in Solo
  <2>1. main' = main /\ parent' = parent /\ t \notin Group
    BY <1>3, TaskFacts DEF Stops
  <2>2. \A p \in Tasks : p # t => place'[p] = place[p]
    BY <2>1 DEF Stops
  <2>3. \A p \in Group : p \in Tasks /\ p # t
    BY <2>1 DEF Tasks
  <2>4. \A s \in Stages : StageTask(s) \in Tasks /\ StageTask(s) # t
    BY <1>3, StageTasks DEF Children
  <2> QED BY <1>1, <2>1, <2>2, <2>3, <2>4 DEF EInv, Waited
<1>4. CASE t \notin Children
  <2>1. t[1] \in Stages /\ t = StageTask(t[1])
    BY <1>4, TaskFacts
  <2>2. main = t[1] /\ main' = "none"
    BY <1>4, <2>1 DEF EInv, Waited, Stops
  <2>3. \A p \in Tasks : place[p] = "none" => place'[p] = "none"
    BY DEF Stops
  <2>4. \A p \in Group : place'[p] = "none"
    BY <2>2, <2>1, <2>3 DEF EInv, Waited, Grouping, Stages, Tasks
  <2>5. \A s \in Stages : place'[StageTask(s)] = "none"
    <3> SUFFICES ASSUME NEW s \in Stages PROVE place'[StageTask(s)] = "none"
      OBVIOUS
    <3>1. CASE s = t[1]
      BY <2>1, <3>1 DEF Stops
    <3>2. CASE s # t[1]
      BY <2>2, <2>3, <3>2, StageTasks DEF EInv, Waited
    <3> QED BY <3>1, <3>2
  <2> QED BY <1>1, <2>2, <2>4, <2>5 DEF Waited, Grouping
<1> QED BY <1>2, <1>3, <1>4 DEF Children

LEMMA MoveControl ==
  ASSUME EInv, NEW t \in Tasks, NEW to \in Places, Moves(t, to),
         place[t] # "none" \/ t \in Solo, t \in Group => to # "none",
         to \in Holding => place[t] \in Holding \/ LoopFree
  PROVE  Waited' /\ OneHolds' /\ place' \in [Tasks -> Places]
<1>1. place \in [Tasks -> Places] /\ place' = [place EXCEPT ![t] = to]
      /\ main' = main /\ parent' = parent
  BY DEF EInv, Types, Places, Moves
<1>2. OneHolds'
  BY <1>1 DEF EInv, OneHolds, LoopFree
<1>3. \A p \in Group : p \in Tasks /\ (p = t => place[t] # "none")
  BY TaskFacts DEF Tasks, Group, Solo
<1>4. \A s \in Stages : StageTask(s) \in Tasks /\ (StageTask(s) = t => place[t] # "none")
  BY StageTasks DEF Children
<1> QED BY <1>1, <1>2, <1>3, <1>4 DEF EInv, Waited

\* HoldersOwn and FinalIsLast. A task that is at a call or its end owns the step;
\* so whatever another one loses is not what it has.
LEMMA OwnersStay ==
  ASSUME EInv, NEW t \in Tasks, HandsOf(t), NEW p \in Tasks, p # t,
         place[p] \in {"claimed", "settled"}
  PROVE  Owns(p)'
<1>1. Owns(p)
  BY DEF EInv, HoldersOwn
<1>2. Owns(t) => t[1] # p[1]
  BY <1>1, OneOwner
<1> QED BY <1>1, <1>2 DEF HandsOf, Kept, Lost, Gained

LEMMA FinalStays ==
  ASSUME EInv, NEW t \in Tasks, HandsOf(t), AnswersStay(t), NEW p \in Children, p # t,
         last'[p[1]] = "final"
  PROVE  /\ place[p] \notin {"claimed", "settled"}
         /\ place[p] = "calling" => ~Owns(p)'
<1>1. p \in Tasks /\ p[1] \in Workers
  BY TaskFacts DEF Children, Tasks
<1>2. CASE last[p[1]] = "final"
  <2>1. place[p] \notin {"claimed", "settled"} /\ (place[p] = "calling" => ~Owns(p))
    BY <1>2 DEF EInv, FinalIsLast
  <2>2. Owns(p)' => Owns(p)
    BY <1>1 DEF HandsOf, Kept, Lost, Gained
  <2> QED BY <2>1, <2>2
<1>3. CASE last[p[1]] # "final"
  <2>1. Owns(t) /\ Lost(t[1]) /\ t[1] = p[1]
    BY <1>1, <1>3 DEF AnswersStay
  <2>2. ~Owns(p)'
    BY <1>1, <2>1 DEF Lost
  <2>3. ~Owns(p)
    BY <1>1, <2>1, OneOwner
  <2> QED BY <1>1, <2>2, <2>3 DEF EInv, HoldersOwn
<1> QED BY <1>2, <1>3

\* Behind, as far as children, results, steps and outputs matter to it.
ResultsGrow == result' \subseteq Workers /\ result \subseteq result'
CallsStay   == written > 0 => calls' = calls

LEMMA BehindKept ==
  ASSUME EInv, CommitsStay, ResultsGrow, CallsStay, UNCHANGED <<children, written, billed>>,
         main' \in Grouping \cup Stages \cup {"outputs"} =>
           main' = main \/ (main' = "aborting" /\ main \in Grouping),
         parent' = "completed" => parent = "completed"
  PROVE  Behind'
<1>1. result = Workers => result' = Workers
  BY DEF ResultsGrow
<1>2. written \in Nat /\ CostAt > 0 /\ "verifier" \in Stages /\ "synthesizer" \in Stages
      /\ "aborting" \notin Stages
  BY DEF EInv, Types, Outputs, CostAt, Stages
<1>3. written >= CostAt => TotalCalls' = TotalCalls
  <2>1. written >= CostAt => calls' = calls
    BY <1>2 DEF CallsStay, CostAt
  <2>2. calls' = calls => TotalCalls' = TotalCalls
    BY DEF TotalCalls
  <2> QED BY <2>1, <2>2
<1>4. StagesDone => StagesDone'
  BY DEF StagesDone, CommitsStay
<1>5. \A s \in Stages : step[s] = "committed" => step'[s] = "committed"
  BY DEF CommitsStay
<1>6. main' \in Grouping \cup Stages \cup {"outputs"} =>
        main \in Grouping \cup Stages \cup {"outputs"}
  OBVIOUS
<1>7. /\ main' \in Stages \cup {"outputs"} => main' = main
      /\ main' \in {"synthesizer", "outputs"} => main' = main
      /\ main' = "outputs" => main' = main
  BY <1>2 DEF Stages
<1>8. /\ main' \in Grouping \cup Stages \cup {"outputs"} => children' = Workers
      /\ main' \in Stages \cup {"outputs"} => result' = Workers
      /\ main' \in {"synthesizer", "outputs"} => step'["verifier"] = "committed"
      /\ main' = "outputs" => step'["synthesizer"] = "committed"
  BY <1>1, <1>2, <1>5, <1>6, <1>7 DEF EInv, Behind
<1>9. /\ written' > 0 => children' = Workers /\ result' = Workers /\ StagesDone'
      /\ written' >= CostAt => billed' = TotalCalls'
      /\ parent' = "completed" => written' = Outputs
  BY <1>1, <1>3, <1>4 DEF EInv, Behind
<1> QED BY <1>8, <1>9 DEF Behind

\* A task that stops.
LEMMA StopStep ==
  ASSUME EInv, NEW t \in Tasks, place[t] # "none", Stops(t), HandsOf(t), CallsStay,
         UNCHANGED <<children, last, result, written, billed>>
  PROVE  EInv'
<1>1. Waited' /\ OneHolds'
  BY StopControl
<1>2. parent' \in {parent, "failed"} /\ main' \in {main, "aborting", "none"}
      /\ (main' = "aborting" /\ main' # main => main \in Grouping)
  BY TaskFacts DEF Stops, Children, EInv, Waited
<1>3. Types'
  BY <1>2 DEF EInv, Types, Stops, HandsOf, StepTypes, Ended, Grouping, Places
<1>4. HoldersOwn'
  <2> SUFFICES ASSUME NEW p \in Tasks, place'[p] \in {"claimed", "settled"} PROVE Owns(p)'
    BY DEF HoldersOwn
  <2> QED BY OwnersStay DEF Stops
<1>5. FinalIsLast'
  <2> SUFFICES ASSUME NEW p \in Children, last'[p[1]] = "final"
               PROVE  /\ place'[p] \notin {"claimed", "settled"}
                      /\ place'[p] = "calling" => ~Owns(p)'
    BY DEF FinalIsLast
  <2>1. p \in Tasks
    BY DEF Children, Tasks
  <2>2. AnswersStay(t)
    BY DEF AnswersStay, LastTypes, EInv, Types
  <2> QED BY <2>1, <2>2, FinalStays DEF Stops
<1>6. Answers'
  <2>1. \A p \in Group : p \in Tasks
    BY DEF Tasks
  <2>2. parent' = "absent" \/ main' = "submitting" => parent = "absent" \/ main = "submitting"
    BY <1>2
  <2> QED BY <2>1, <2>2 DEF EInv, Answers, Stops, Types
<1>7. Behind'
  BY <1>2, BehindKept DEF ResultsGrow, EInv, Types, HandsOf, Stages, Grouping
<1> QED BY <1>1, <1>3, <1>4, <1>5, <1>6, <1>7 DEF EInv

\* A task that goes on.
LEMMA MoveStep ==
  ASSUME EInv, NEW t \in Tasks, NEW to \in Places, Moves(t, to),
         place[t] # "none" \/ t \in Solo, t \in Group => to # "none",
         to \in Holding => place[t] \in Holding \/ LoopFree,
         HandsOf(t), AnswersStay(t), CompletesAnswered, ResultsGrow, CallsStay,
         to \in {"claimed", "settled"} => Owns(t)',
         t \in Children /\ last'[t[1]] = "final" =>
           to \notin {"claimed", "settled"} /\ (to = "calling" => ~Owns(t)'),
         \A w \in result' \ result : t \in Group /\ child'[w] = "completed",
         t \in Group /\ to = "done" => t[1] \in result',
         UNCHANGED <<children, written, billed>>
  PROVE  EInv'
<1>1. Waited' /\ OneHolds' /\ place' \in [Tasks -> Places]
  BY MoveControl
<1>2. parent' = parent /\ main' = main /\ place'[t] = to
      /\ \A p \in Tasks : p # t => place'[p] = place[p]
  BY DEF Moves, EInv, Types
<1>3. Types'
  BY <1>1, <1>2 DEF EInv, Types, HandsOf, StepTypes, AnswersStay, LastTypes, CompletesAnswered,
                    ChildTypes, ResultsGrow, Places
<1>4. HoldersOwn'
  <2> SUFFICES ASSUME NEW p \in Tasks, place'[p] \in {"claimed", "settled"} PROVE Owns(p)'
    BY DEF HoldersOwn
  <2> QED BY <1>2, OwnersStay
<1>5. FinalIsLast'
  <2> SUFFICES ASSUME NEW p \in Children, last'[p[1]] = "final"
               PROVE  /\ place'[p] \notin {"claimed", "settled"}
                      /\ place'[p] = "calling" => ~Owns(p)'
    BY DEF FinalIsLast
  <2>1. p \in Tasks
    BY DEF Children, Tasks
  <2> QED BY <1>2, <2>1, FinalStays
<1>6. Answers'
  <2>1. \A w \in Workers : child'[w] = "completed" => last'[w] = "final"
    BY DEF EInv, Answers, CompletesAnswered, AnswersStay
  <2>2. \A w \in result' : child'[w] = "completed"
    BY DEF EInv, Answers, CompletesAnswered, ResultsGrow
  <2>3. \A p \in Group : place'[p] = "done" => p[1] \in result'
    BY <1>2 DEF EInv, Answers, ResultsGrow, Tasks
  <2>4. parent' = "absent" \/ main' = "submitting" => result' = {}
    <3>1. t \in Group => main \in Grouping /\ parent # "absent"
      BY TaskFacts DEF EInv, Waited, Grouping, Group, Solo
    <3> QED BY <1>2, <3>1 DEF EInv, Answers, ResultsGrow, Grouping
  <2> QED BY <2>1, <2>2, <2>3, <2>4 DEF Answers
<1>7. Behind'
  BY <1>2, BehindKept DEF HandsOf
<1> QED BY <1>1, <1>3, <1>4, <1>5, <1>6, <1>7 DEF EInv

----------------------------------------------------------------------------
(***************************************************************************)
(* The steps of tasks.                                                     *)
(***************************************************************************)
\* What most movements leave alone.
LEMMA ChildrenRest ==
  ASSUME EInv, UNCHANGED <<child, last>>
  PROVE  CompletesAnswered /\ \A t \in Tasks : AnswersStay(t)
BY DEF EInv, Types, CompletesAnswered, ChildTypes, AnswersStay, LastTypes

LEMMA LastRests ==
  ASSUME EInv, last' = last
  PROVE  \A t \in Tasks : AnswersStay(t)
BY DEF EInv, Types, AnswersStay, LastTypes

LEMMA ResultsRest ==
  ASSUME EInv, result' = result
  PROVE  ResultsGrow
BY DEF EInv, Types, ResultsGrow

LEMMA SameHands ==
  ASSUME EInv, step' \in {step, Reclaimed}, holder' = holder
  PROVE  \A t \in Tasks : HandsOf(t)
BY SameOwners, ReclaimedOwners DEF EInv, HandsOf

LEMMA EnterStep ==
  ASSUME EInv, NEW t \in Children, LoopFree, place[t] = "scheduled", Enter(t),
         UNCHANGED <<children, last, result, written, billed>>
  PROVE  EInv'
<1>1. t \in Tasks /\ t[1] \in Workers
  BY TaskFacts DEF Children, Tasks
<1>2. step' \in {step, Reclaimed} /\ holder' = holder /\ CallsStay
  BY DEF Enter, CallsStay
<1>3. HandsOf(t) /\ AnswersStay(t) /\ ResultsGrow
  BY <1>1, <1>2, SameHands, LastRests, ResultsRest
<1>4. \/ /\ child[t[1]] \in Ended /\ Put(t, IF t \in Group THEN "returned" ELSE "none")
         /\ UNCHANGED <<parent, child, main>>
      \/ Leaves(t, "paused") \/ Leaves(t, "cancelled")
      \/ /\ child[t[1]] \notin Ended
         /\ child' = [child EXCEPT ![t[1]] = "running"]
         /\ Put(t, "looping") /\ UNCHANGED <<parent, main>>
  BY DEF Enter
<1>5. ASSUME NEW status \in {"paused", "cancelled"}, Leaves(t, status) PROVE EInv'
  BY <1>1, <1>2, <1>3, <1>5, LeavesStops, StopStep DEF EInv
<1>6. CASE child[t[1]] \in Ended /\ Put(t, IF t \in Group THEN "returned" ELSE "none")
           /\ UNCHANGED <<parent, child, main>>
  <2> DEFINE to == IF t \in Group THEN "returned" ELSE "none"
  <2>1. to \in Places /\ Moves(t, to) /\ (t \in Group => to # "none")
        /\ to \notin {"claimed", "settled", "calling", "done"}
    BY <1>6 DEF Moves, Put, Places, Holding
  <2>2. CompletesAnswered
    BY <1>6, ChildrenRest
  <2> HIDE DEF to
  <2> QED BY <2>1, <2>2, <1>1, <1>2, <1>3, MoveStep
<1>7. CASE child[t[1]] \notin Ended /\ child' = [child EXCEPT ![t[1]] = "running"]
           /\ Put(t, "looping") /\ UNCHANGED <<parent, main>>
  <2>1. Moves(t, "looping") /\ "looping" \in Places
    BY <1>7 DEF Moves, Put, Places, Holding
  <2>2. CompletesAnswered
    BY <1>1, <1>7 DEF CompletesAnswered, ChildTypes, EInv, Types, Ended, Live
  <2> QED BY <2>1, <2>2, <1>1, <1>2, <1>3, MoveStep
<1> QED BY <1>4, <1>5, <1>6, <1>7

LEMMA BeginStep ==
  ASSUME EInv, NEW w \in Workers, Begin(w)
  PROVE  EInv'
<1> DEFINE t == <<w, "fan-out">>
<1>1. t \in Group /\ t \in Children /\ t \in Tasks /\ t[1] = w
  BY DEF Group, Children, Tasks
<1>2. LoopFree /\ place[t] = "scheduled" /\ UNCHANGED <<children, last, result, written, billed>>
  BY DEF Begin, outVars
<1>3. \/ Reusable(w) /\ Put(t, "done") /\ UNCHANGED <<parent, child, stepVars, main>>
      \/ GroupFails(t) /\ UNCHANGED <<parent, child, stepVars>>
      \/ Enter(t)
  BY DEF Begin
<1> HIDE DEF t
<1>4. ASSUME UNCHANGED <<child, stepVars>>
      PROVE  HandsOf(t) /\ AnswersStay(t) /\ ResultsGrow /\ CallsStay /\ CompletesAnswered
  BY <1>1, <1>2, <1>4, SameHands, LastRests, ChildrenRest, ResultsRest DEF stepVars, CallsStay
<1>5. CASE Reusable(w) /\ Put(t, "done") /\ UNCHANGED <<parent, child, stepVars, main>>
  <2>1. Moves(t, "done") /\ "done" \in Places /\ "done" \notin Holding
    BY <1>5 DEF Moves, Put, Places, Holding
  <2>2. t[1] \in result'
    BY <1>1, <1>2, <1>5 DEF Reusable
  <2> QED BY <1>1, <1>2, <1>4, <1>5, <2>1, <2>2, MoveStep
<1>6. CASE GroupFails(t) /\ UNCHANGED <<parent, child, stepVars>>
  <2>1. Stops(t)
    BY <1>1, <1>6, GroupFailsStops DEF EInv, Types
  <2> QED BY <1>1, <1>2, <1>4, <1>6, <2>1, StopStep
<1>7. CASE Enter(t)
  BY <1>1, <1>2, <1>7, EnterStep
<1> QED BY <1>3, <1>5, <1>6, <1>7

LEMMA BeginSoloStep ==
  ASSUME EInv, NEW w \in Workers, BeginSolo(w)
  PROVE  EInv'
<1>1. <<w, "solo">> \in Children
  BY DEF Children, Solo
<1> QED BY <1>1, EnterStep DEF BeginSolo, outVars

LEMMA CollectStep ==
  ASSUME EInv, NEW w \in Workers, Collect(w)
  PROVE  EInv'
<1> DEFINE t == <<w, "fan-out">>
<1>1. t \in Group /\ t \in Tasks /\ t[1] = w /\ place[t] = "returned"
  BY DEF Collect, Group, Tasks
<1>2. UNCHANGED <<parent, children, child, last, step, holder, calls, written, billed>>
  BY DEF Collect, runVars, stepVars
<1>3. \/ child[w] = "completed" /\ result' = result \cup {w} /\ Put(t, "done") /\ main' = main
      \/ GroupFails(t) /\ result' = result
  BY DEF Collect
<1> HIDE DEF t
<1>4. HandsOf(t) /\ AnswersStay(t) /\ CallsStay /\ CompletesAnswered
  BY <1>1, <1>2, SameHands, ChildrenRest DEF CallsStay
<1>5. CASE child[w] = "completed" /\ result' = result \cup {w} /\ Put(t, "done") /\ main' = main
  <2>1. Moves(t, "done") /\ "done" \in Places /\ "done" \notin Holding
    BY <1>2, <1>5 DEF Moves, Put, Places, Holding
  <2>2. ResultsGrow /\ (\A v \in result' \ result : child'[v] = "completed") /\ t[1] \in result'
    BY <1>1, <1>2, <1>5 DEF ResultsGrow, EInv, Types
  <2> QED BY <1>1, <1>2, <1>4, <2>1, <2>2, MoveStep
<1>6. CASE GroupFails(t) /\ result' = result
  <2>1. Stops(t)
    BY <1>1, <1>2, <1>6, GroupFailsStops DEF EInv, Types
  <2> QED BY <1>1, <1>2, <1>4, <1>6, <2>1, StopStep
<1> QED BY <1>3, <1>5, <1>6

LEMMA ContinueStep ==
  ASSUME EInv, NEW t \in Tasks, Continue(t)
  PROVE  EInv'
<1>1. t \in Children /\ t[1] \in Workers /\ place[t] = "looping"
  BY TaskFacts DEF Continue, Children
<1>2. UNCHANGED <<children, step, holder, calls, result, written, billed>>
  BY DEF Continue, stepVars, outVars
<1>3. HandsOf(t) /\ ResultsGrow /\ CallsStay
  BY <1>2, SameHands, ResultsRest DEF CallsStay
<1>4. \/ last' = last /\ \E status \in {"paused", "cancelled"} : Leaves(t, status)
      \/ last' = last /\ Raises(t)
      \/ /\ last' = last /\ last[t[1]] = "final" /\ child' = [child EXCEPT ![t[1]] = "completed"]
         /\ Put(t, IF t \in Group THEN "returned" ELSE "none") /\ UNCHANGED <<parent, main>>
      \/ /\ last[t[1]] = "gated" /\ last' = [last EXCEPT ![t[1]] = "more"]
         /\ UNCHANGED <<parent, child, main, place>>
  BY DEF Continue, taskVars
<1>5. ASSUME last' = last, NEW status \in {"paused", "cancelled"}, Leaves(t, status) PROVE EInv'
  BY <1>1, <1>2, <1>3, <1>5, LeavesStops, StopStep DEF EInv
<1>6. CASE last' = last /\ Raises(t)
  BY <1>1, <1>2, <1>3, <1>6, RaisesStops, StopStep DEF EInv
<1>7. CASE /\ last' = last /\ last[t[1]] = "final" /\ child' = [child EXCEPT ![t[1]] = "completed"]
           /\ Put(t, IF t \in Group THEN "returned" ELSE "none") /\ UNCHANGED <<parent, main>>
  <2> DEFINE to == IF t \in Group THEN "returned" ELSE "none"
  <2>1. to \in Places /\ Moves(t, to) /\ (t \in Group => to # "none")
        /\ to \notin {"claimed", "settled", "calling", "done"}
    BY <1>7 DEF Moves, Put, Places, Holding
  <2>2. place[t] \in Holding /\ AnswersStay(t)
    BY <1>1, <1>7, LastRests DEF Holding
  <2>3. CompletesAnswered
    BY <1>1, <1>7 DEF CompletesAnswered, ChildTypes, EInv, Types, Ended
  <2> HIDE DEF to
  <2> QED BY <1>1, <1>2, <1>3, <1>7, <2>1, <2>2, <2>3, MoveStep
<1>8. CASE /\ last[t[1]] = "gated" /\ last' = [last EXCEPT ![t[1]] = "more"]
           /\ UNCHANGED <<parent, child, main, place>>
  <2>1. Moves(t, "looping") /\ "looping" \in Places /\ place[t] \in Holding
    BY <1>1, <1>8 DEF Moves, Places, Holding, EInv, Types
  <2>2. AnswersStay(t)
    BY <1>1, <1>8 DEF AnswersStay, LastTypes, EInv, Types
  <2>3. CompletesAnswered
    BY <1>8 DEF CompletesAnswered, ChildTypes, EInv, Types
  <2> QED BY <1>1, <1>2, <1>3, <2>1, <2>2, <2>3, MoveStep
<1> QED BY <1>4, <1>5, <1>6, <1>7, <1>8

LEMMA ClaimStep ==
  ASSUME EInv, NEW t \in Tasks, Claim(t)
  PROVE  EInv'
<1>1. UNCHANGED <<children, child, last, calls, result, written, billed>> /\ place[t] = "looping"
  BY DEF Claim, outVars
<1>2. ResultsGrow /\ CallsStay /\ AnswersStay(t) /\ CompletesAnswered
  BY <1>1, ChildrenRest, ResultsRest DEF CallsStay
<1>3. \/ /\ step[t[1]] \in {"none", "ready"}
         /\ step' = [step EXCEPT ![t[1]] = "held"] /\ holder' = [holder EXCEPT ![t[1]] = t[2]]
         /\ Put(t, "claimed") /\ UNCHANGED <<parent, main>>
      \/ t[2] = "stage" /\ FailsParent /\ Put(t, "none") /\ UNCHANGED <<step, holder>>
  BY DEF Claim
<1>4. CASE /\ step[t[1]] \in {"none", "ready"}
           /\ step' = [step EXCEPT ![t[1]] = "held"] /\ holder' = [holder EXCEPT ![t[1]] = t[2]]
           /\ Put(t, "claimed") /\ UNCHANGED <<parent, main>>
  <2>1. Gained(t) /\ StepTypes /\ CommitsStay
    BY <1>4, ClaimOwners DEF EInv
  <2>2. t \in Children => last[t[1]] # "final"
    BY TaskFacts DEF Claim, NeedsModel
  <2>3. HandsOf(t) /\ Owns(t)'
    BY <1>1, <2>1, <2>2 DEF HandsOf, Gained
  <2>4. Moves(t, "claimed") /\ "claimed" \in Places /\ place[t] \in Holding
    BY <1>1, <1>4 DEF Moves, Put, Places, Holding
  <2> QED BY <1>1, <1>2, <2>2, <2>3, <2>4, MoveStep
<1>5. CASE t[2] = "stage" /\ FailsParent /\ Put(t, "none") /\ UNCHANGED <<step, holder>>
  <2>1. Stops(t) /\ HandsOf(t)
    BY <1>1, <1>5, StageStops, SameHands DEF EInv
  <2> QED BY <1>1, <1>2, <2>1, StopStep
<1> QED BY <1>3, <1>4, <1>5

LEMMA CallStep ==
  ASSUME EInv, NEW t \in Tasks, Call(t)
  PROVE  EInv'
<1>1. UNCHANGED <<children, last, holder, result, written, billed>> /\ place[t] = "claimed"
  BY DEF Call, outVars
<1>2. ResultsGrow /\ CallsStay /\ AnswersStay(t)
  BY <1>1, LastRests, ResultsRest, NoCallsBehind DEF CallsStay
<1>3. \/ Dropped(t) /\ (IF t[2] = "stage" THEN Raises(t) ELSE Leaves(t, "failed"))
      \/ Put(t, "calling") /\ UNCHANGED <<step, parent, child, main>>
  BY DEF Call
<1>4. Owns(t)
  BY <1>1 DEF EInv, HoldersOwn
<1>5. CASE Dropped(t) /\ (IF t[2] = "stage" THEN Raises(t) ELSE Leaves(t, "failed"))
  <2>1. HandsOf(t)
    BY <1>1, <1>4, <1>5, DroppedOwners DEF HandsOf, EInv
  <2>2. Stops(t)
    BY <1>5, RaisesStops, LeavesStops, TaskFacts DEF EInv
  <2> QED BY <1>1, <1>2, <2>1, <2>2, StopStep
<1>6. CASE Put(t, "calling") /\ UNCHANGED <<step, parent, child, main>>
  <2>1. HandsOf(t) /\ CompletesAnswered
    BY <1>1, <1>6, SameHands, ChildrenRest
  <2>2. t \in Children => last'[t[1]] # "final"
    BY <1>1 DEF EInv, FinalIsLast
  <2>3. Moves(t, "calling") /\ "calling" \in Places /\ "calling" \notin Holding
    BY <1>6 DEF Moves, Put, Places, Holding
  <2> QED BY <1>1, <1>2, <2>1, <2>2, <2>3, MoveStep
<1> QED BY <1>3, <1>5, <1>6

LEMMA AnswerStep ==
  ASSUME EInv, NEW t \in Tasks, Answer(t)
  PROVE  EInv'
<1>1. UNCHANGED <<children, last, step, holder, calls, result, written, billed>>
      /\ place[t] = "calling" /\ LoopFree
  BY DEF Answer, outVars
<1>2. HandsOf(t) /\ ResultsGrow /\ CallsStay /\ AnswersStay(t)
  BY <1>1, SameHands, LastRests, ResultsRest DEF CallsStay
<1>3. \/ Owns(t) /\ Put(t, "settled") /\ UNCHANGED <<parent, child, main>>
      \/ Raises(t)
  BY DEF Answer
<1>4. CASE Owns(t) /\ Put(t, "settled") /\ UNCHANGED <<parent, child, main>>
  <2>1. Owns(t)' /\ CompletesAnswered
    BY <1>1, <1>4, ChildrenRest DEF Owns
  <2>2. t \in Children => last'[t[1]] # "final"
    BY <1>1, <1>4 DEF EInv, FinalIsLast
  <2>3. Moves(t, "settled") /\ "settled" \in Places
    BY <1>4 DEF Moves, Put, Places, Holding
  <2> QED BY <1>1, <1>2, <2>1, <2>2, <2>3, MoveStep
<1>5. CASE Raises(t)
  BY <1>1, <1>2, <1>5, RaisesStops, StopStep DEF EInv
<1> QED BY <1>3, <1>4, <1>5

LEMMA ProviderFailsStep ==
  ASSUME EInv, NEW t \in Tasks, ProviderFails(t)
  PROVE  EInv'
<1>1. UNCHANGED <<children, last, holder, calls, result, written, billed>>
      /\ place[t] = "calling"
  BY DEF ProviderFails, outVars
<1>2. ResultsGrow /\ CallsStay /\ AnswersStay(t)
  BY <1>1, LastRests, ResultsRest DEF CallsStay
<1>3. \/ /\ Owns(t) /\ Dropped(t)
         /\ Raises(t) \/ (Put(t, "exiting") /\ UNCHANGED <<parent, child, main>>)
      \/ Raises(t) /\ UNCHANGED step
  BY DEF ProviderFails
<1>4. HandsOf(t)
  BY <1>1, <1>3, DroppedOwners, SameHands DEF HandsOf, EInv
<1>5. CASE Raises(t)
  BY <1>1, <1>2, <1>4, <1>5, RaisesStops, StopStep DEF EInv
<1>6. CASE Put(t, "exiting") /\ UNCHANGED <<parent, child, main>>
  <2>1. Moves(t, "exiting") /\ "exiting" \in Places /\ "exiting" \notin Holding
    BY <1>6 DEF Moves, Put, Places, Holding
  <2> QED BY <1>1, <1>2, <1>4, <1>6, <2>1, ChildrenRest, MoveStep
<1> QED BY <1>3, <1>5, <1>6

LEMMA CommitStep ==
  ASSUME EInv, NEW t \in Tasks, Commit(t)
  PROVE  EInv'
<1>1. UNCHANGED <<children, child, holder, calls, result, written, billed>>
      /\ place[t] = "settled" /\ Put(t, "exiting") /\ UNCHANGED <<parent, main>>
  BY DEF Commit, outVars
<1>2. Owns(t) /\ ResultsGrow /\ CallsStay
  BY <1>1, ResultsRest DEF EInv, HoldersOwn, CallsStay
<1>3. Lost(t[1]) /\ StepTypes /\ CommitsStay
  <2>1. PICK status \in {"committed", "none"} : step' = [step EXCEPT ![t[1]] = status]
    BY DEF Commit
  <2> QED BY <2>1, <1>1, <1>2, LostOwners, TaskFacts DEF EInv, Owns
<1>4. \/ t \notin Children /\ last' = last
      \/ /\ t \in Children /\ t[1] \in Workers /\ last[t[1]] # "final"
         /\ \E what \in {"more", "gated", "final"} : last' = [last EXCEPT ![t[1]] = what]
  BY <1>1, TaskFacts DEF Commit, Asks, EInv, FinalIsLast
<1>5. AnswersStay(t)
  BY <1>1, <1>2, <1>3, <1>4 DEF AnswersStay, LastTypes, EInv, Types
<1>6. HandsOf(t)
  BY <1>2, <1>3 DEF HandsOf
<1>7. CompletesAnswered
  BY <1>1 DEF CompletesAnswered, ChildTypes, EInv, Types
<1>8. Moves(t, "exiting") /\ "exiting" \in Places /\ "exiting" \notin Holding
  BY <1>1 DEF Moves, Put, Places, Holding
<1> QED BY <1>1, <1>2, <1>5, <1>6, <1>7, <1>8, MoveStep

LEMMA ExitStep ==
  ASSUME EInv, NEW t \in Tasks, Exit(t)
  PROVE  EInv'
<1>1. UNCHANGED <<children, child, last, step, holder, calls, result, written, billed>>
      /\ place[t] = "exiting" /\ LoopFree /\ Put(t, "looping") /\ UNCHANGED <<parent, main>>
  BY DEF Exit, runVars, stepVars, outVars
<1>2. HandsOf(t) /\ ResultsGrow /\ CallsStay /\ AnswersStay(t) /\ CompletesAnswered
  BY <1>1, SameHands, ChildrenRest, ResultsRest DEF CallsStay
<1>3. Moves(t, "looping") /\ "looping" \in Places
  BY <1>1 DEF Moves, Put, Places, Holding
<1> QED BY <1>1, <1>2, <1>3, MoveStep

\* Operators schedule a worker's child by itself.
LEMMA SoloStep ==
  ASSUME EInv, NEW w \in Workers,
         ResumeChild(w) \/ \E v \in {"approved", "rejected"} : Decide(w, v)
  PROVE  EInv'
<1> DEFINE t == <<w, "solo">>
<1>1. t \in Solo /\ t \in Tasks /\ t \notin Group
  BY DEF Solo, Tasks, Group
<1>2. UNCHANGED <<parent, children, child, last, step, holder, calls, result, written, billed,
                  main>>
      /\ (Put(t, "scheduled") \/ place' = place)
  BY DEF ResumeChild, Decide, runVars, stepVars, outVars
<1> HIDE DEF t
<1>3. HandsOf(t) /\ ResultsGrow /\ CallsStay /\ AnswersStay(t) /\ CompletesAnswered
  BY <1>1, <1>2, SameHands, ChildrenRest, ResultsRest DEF CallsStay
<1>4. CASE Put(t, "scheduled")
  <2>1. Moves(t, "scheduled") /\ "scheduled" \in Places /\ "scheduled" \notin Holding
    BY <1>2, <1>4 DEF Moves, Put, Places, Holding
  <2> QED BY <1>1, <1>2, <1>3, <2>1, MoveStep
<1>5. CASE place' = place
  <2>1. Moves(t, place[t]) /\ place[t] \in Places
    BY <1>1, <1>2, <1>5 DEF Moves, EInv, Types, Places
  <2>2. place[t] \in {"claimed", "settled"} => Owns(t)'
    BY <1>1, <1>2 DEF EInv, HoldersOwn, Owns
  <2>3. last'[t[1]] = "final" => place[t] \notin {"claimed", "settled"}
                                  /\ (place[t] = "calling" => ~Owns(t)')
    BY <1>1, <1>2 DEF EInv, FinalIsLast, Children, Owns
  <2> QED BY <1>1, <1>2, <1>3, <2>1, <2>2, <2>3, MoveStep
<1> QED BY <1>2, <1>4, <1>5

----------------------------------------------------------------------------
(***************************************************************************)
(* The steps of the main task, of time and of crashes.                     *)
(***************************************************************************)
\* Tasks that did not come closer to a call, and owners that did not gain.
LEMMA OwnersRest ==
  ASSUME EInv, last' = last,
         \A p \in Tasks :
           place'[p] = place[p] \/ place'[p] \notin {"claimed", "settled", "calling"},
         \A p \in Tasks : place[p] \in {"claimed", "settled"} => Owns(p)',
         \A p \in Tasks : Owns(p)' => Owns(p)
  PROVE  HoldersOwn' /\ FinalIsLast'
<1>1. HoldersOwn'
  BY DEF HoldersOwn
<1>2. \A p \in Children : p \in Tasks
  BY DEF Children, Tasks
<1>3. FinalIsLast'
  BY <1>2 DEF EInv, FinalIsLast
<1> QED BY <1>1, <1>3

LEMMA MainStep ==
  ASSUME EInv, step' \in {step, Reclaimed},
         UNCHANGED <<children, child, last, holder, result>>,
         parent' \in {"absent", "created", "running"} \cup Ended, written' \in 0 .. Outputs,
         main' \in {"down", "none", "submitting", "scheduled", "outputs"} \cup Grouping \cup Stages,
         place' \in [Tasks -> Places],
         \A p \in Tasks : place'[p] \in {place[p], "none", "scheduled", "looping"},
         parent' = "absent" \/ main' = "submitting" => parent = "absent" \/ main = "submitting",
         Waited', OneHolds', Behind'
  PROVE  EInv'
<1>1. Kept /\ StepTypes
  BY ReclaimedOwners DEF EInv
<1>2. Types'
  BY <1>1 DEF EInv, Types, StepTypes, Places
<1>3. HoldersOwn' /\ FinalIsLast'
  BY <1>1, OwnersRest DEF Kept, EInv, HoldersOwn
<1>4. Answers'
  <2>1. \A p \in Group : p \in Tasks
    BY DEF Tasks
  <2> QED BY <2>1 DEF EInv, Answers
<1> QED BY <1>2, <1>3, <1>4 DEF EInv

LEMMA SubmitStep ==
  ASSUME EInv, Submit
  PROVE  EInv'
<1>1. /\ parent = "absent" /\ main = "none" /\ parent' = "created" /\ main' = "submitting"
      /\ UNCHANGED <<children, child, last, step, holder, calls, result, written, billed, place>>
  BY DEF Submit, stepVars, outVars
<1>2. Waited' /\ OneHolds'
  BY <1>1 DEF EInv, Waited, OneHolds, Grouping, Stages, Ended
<1>3. CommitsStay
  BY <1>1 DEF CommitsStay
<1>4. Behind'
  BY <1>1, <1>3, ResultsRest, BehindKept DEF CallsStay, Grouping, Stages
<1>5. place' \in [Tasks -> Places] /\ written' \in 0 .. Outputs
  BY <1>1 DEF EInv, Types, Places
<1> QED BY <1>1, <1>2, <1>4, <1>5, MainStep

LEMMA CreateChildStep ==
  ASSUME EInv, NEW w \in Workers, CreateChild(w)
  PROVE  EInv'
<1>1. /\ main = "submitting" /\ w \notin children /\ children' = children \cup {w}
      /\ child' = [child EXCEPT ![w] = "created"]
      /\ UNCHANGED <<parent, last, step, holder, calls, result, written, billed, main, place>>
  BY DEF CreateChild, stepVars, outVars, taskVars
<1>2. result = {} /\ children # Workers
  BY <1>1 DEF EInv, Answers
<1>3. Types' /\ Waited' /\ OneHolds'
  BY <1>1 DEF EInv, Types, Waited, OneHolds, Live
<1>4. HoldersOwn' /\ FinalIsLast'
  BY <1>1, SameOwners, OwnersRest DEF EInv, Kept, HoldersOwn
<1>5. Answers'
  BY <1>1, <1>2 DEF EInv, Types, Answers, Tasks
<1>6. Behind'
  <2>1. ~(written > 0) /\ written = 0
    BY <1>2 DEF EInv, Behind, Types, Outputs
  <2> QED BY <1>1, <1>2, <2>1 DEF EInv, Behind, Grouping, Stages, CostAt, Outputs
<1> QED BY <1>3, <1>4, <1>5, <1>6 DEF EInv

LEMMA ScheduledStep ==
  ASSUME EInv, Submitted \/ Startup \/ Resume
  PROVE  EInv'
<1>1. /\ step' \in {step, Reclaimed} /\ main \notin Grouping \cup Stages
      /\ UNCHANGED <<parent, children, child, last, holder, calls, result, written, billed, place>>
  BY DEF Submitted, Startup, Resume, runVars, stepVars, outVars, Grouping, Stages
<1>2. main' \in {"scheduled", "none"}
  BY DEF Submitted, Startup, Resume
<1>3. main' = "scheduled" => parent \in Live \/ main = "submitting"
  BY DEF Submitted, Startup, Resume, Live
<1>4. Waited' /\ OneHolds'
  <2>1. main' = "scheduled" => parent \notin Ended \cup {"absent"}
    BY <1>3 DEF EInv, Waited, Ended, Live
  <2> QED BY <1>1, <1>2, <2>1 DEF EInv, Waited, OneHolds, Grouping, Stages
<1>5. CommitsStay
  BY <1>1, ReclaimedOwners DEF EInv
<1>6. Behind'
  BY <1>1, <1>2, <1>5, ResultsRest, BehindKept DEF CallsStay, Grouping, Stages
<1>7. place' \in [Tasks -> Places] /\ written' \in 0 .. Outputs
      /\ parent' \in {"absent", "created", "running"} \cup Ended
  BY <1>1 DEF EInv, Types, Places
<1>8. parent' = "absent" \/ main' = "submitting" => parent = "absent" \/ main = "submitting"
  BY <1>1, <1>2
<1> QED BY <1>1, <1>2, <1>4, <1>6, <1>7, <1>8, MainStep

LEMMA ExecuteStep ==
  ASSUME EInv, Execute
  PROVE  EInv'
<1>1. /\ LoopFree /\ main = "scheduled" /\ step' = Reclaimed
      /\ UNCHANGED <<children, child, last, holder, calls, result, written, billed>>
  BY DEF Execute, outVars
<1>2. CommitsStay /\ ResultsGrow /\ CallsStay
  BY <1>1, ReclaimedOwners, ResultsRest DEF EInv, CallsStay
<1>3. place \in [Tasks -> Places] /\ written' \in 0 .. Outputs
  BY <1>1 DEF EInv, Types, Places
<1>4. CASE FailsParent /\ place' = place
  <2>1. Waited' /\ OneHolds'
    BY <1>1, <1>4 DEF FailsParent, EInv, Waited, OneHolds, Grouping, Stages
  <2>2. Behind'
    BY <1>1, <1>2, <1>4, BehindKept DEF FailsParent, Grouping, Stages
  <2> QED BY <1>1, <1>3, <1>4, <2>1, <2>2, MainStep DEF FailsParent, Ended
<1>5. CASE /\ children = Workers /\ parent' = "running" /\ main' = "workers"
           /\ place' = [t \in Tasks |-> IF t \in Group THEN "scheduled" ELSE place[t]]
  <2>1. place' \in [Tasks -> Places]
        /\ \A p \in Tasks : place'[p] = IF p \in Group THEN "scheduled" ELSE place[p]
    BY <1>3, <1>5 DEF Places
  <2>2. \A s \in Stages : place'[StageTask(s)] = "none"
    BY <1>1, <2>1, StageTasks DEF EInv, Waited, Children, Stages
  <2>3. Waited'
    BY <1>5, <2>1, <2>2 DEF Waited, Grouping, Ended, Tasks
  <2>4. OneHolds'
    BY <2>1 DEF EInv, OneHolds, Holding
  <2>5. Behind'
    <3>1. parent' # "completed" /\ main' \notin Stages \cup {"outputs"}
      BY <1>5 DEF Stages
    <3>2. TotalCalls' = TotalCalls
      BY <1>1 DEF TotalCalls
    <3>3. StagesDone => StagesDone'
      BY <1>2 DEF StagesDone, CommitsStay
    <3>4. /\ written' > 0 => children' = Workers /\ result' = Workers /\ StagesDone'
          /\ written' >= CostAt => billed' = TotalCalls'
      BY <1>1, <3>2, <3>3 DEF EInv, Behind
    <3> QED BY <1>1, <1>5, <3>1, <3>4 DEF Behind, Stages
  <2> QED BY <1>1, <1>3, <1>5, <2>1, <2>3, <2>4, <2>5, MainStep DEF Grouping
<1> QED BY <1>4, <1>5 DEF Execute

LEMMA GroupEndsStep ==
  ASSUME EInv, GroupEnds
  PROVE  EInv'
<1>1. /\ LoopFree /\ GroupOver /\ main \in Grouping
      /\ UNCHANGED <<children, child, last, step, holder, calls, result, written, billed>>
  BY DEF GroupEnds, Grouping, stepVars, outVars
<1>2. \/ main = "workers" /\ main' = "verifier" /\ parent' = parent
      \/ main # "workers" /\ main' = "none" /\ parent' \in {"failed", "cancelled"}
  BY <1>1 DEF GroupEnds, FailsParent, Grouping
<1>3. /\ place \in [Tasks -> Places]
      /\ place' = [t \in Tasks |-> IF place[t] = "done" THEN "none"
                                   ELSE IF t = <<main', "stage">> THEN "looping" ELSE place[t]]
  BY DEF GroupEnds, EInv, Types, Places
<1>4. place' \in [Tasks -> Places] /\ written' \in 0 .. Outputs
  <2>1. {"none", "looping"} \subseteq Places
    BY DEF Places, Holding
  <2> QED BY <1>1, <1>3, <2>1 DEF EInv, Types
<1>5. OneHolds'
  BY <1>1, <1>3 DEF OneHolds, LoopFree, Holding
<1>6. main' \notin Grouping /\ \A t \in Group : t \in Tasks /\ place'[t] = "none"
  <2>1. \A t \in Group : t \in Tasks /\ t # <<main', "stage">>
    BY DEF Tasks, Group
  <2> QED BY <1>1, <1>2, <1>3, <2>1 DEF GroupOver, Grouping
<1>7. ASSUME NEW s \in Stages, main' # s PROVE place'[StageTask(s)] = "none"
  <2>1. main # s
    BY <1>1 DEF Grouping, Stages
  <2> QED BY <1>3, <1>7, <2>1, StageTasks DEF EInv, Waited, StageTask
<1>8. Waited'
  BY <1>1, <1>2, <1>6, <1>7 DEF EInv, Waited, Grouping
<1>9. main = "workers" => result = Workers
  <2> SUFFICES ASSUME main = "workers", NEW w \in Workers PROVE w \in result
    BY DEF EInv, Types
  <2>1. <<w, "fan-out">> \in Group /\ <<w, "fan-out">>[1] = w
    BY DEF Group
  <2>2. place[<<w, "fan-out">>] = "done"
    BY <1>1, <2>1 DEF EInv, Waited, GroupOver
  <2> QED BY <2>1, <2>2 DEF EInv, Answers
<1>10. Behind'
  <2>1. TotalCalls' = TotalCalls /\ (StagesDone => StagesDone')
    BY <1>1 DEF TotalCalls, StagesDone
  <2>2. children = Workers
    BY <1>1 DEF EInv, Behind
  <2>3. parent' # "completed" /\ (main' \in Stages => result' = Workers)
        /\ main' \notin {"synthesizer", "outputs"}
    BY <1>1, <1>2, <1>9 DEF EInv, Waited, Ended, Grouping, Stages
  <2> QED BY <1>1, <2>1, <2>2, <2>3 DEF EInv, Behind
<1>11. main' \in {"none"} \cup Stages /\ parent' \in {parent, "failed", "cancelled"}
  BY <1>2 DEF Stages
<1>12. \A p \in Tasks : place'[p] \in {place[p], "none", "scheduled", "looping"}
  BY <1>3
<1>13. parent' \in {"absent", "created", "running"} \cup Ended
       /\ (parent' = "absent" \/ main' = "submitting" => parent = "absent" \/ main = "submitting")
  BY <1>11 DEF EInv, Types, Ended, Stages
<1> QED BY <1>1, <1>4, <1>5, <1>8, <1>10, <1>11, <1>12, <1>13, MainStep

LEMMA StageDoneStep ==
  ASSUME EInv, NEW s \in Stages, StageDone(s)
  PROVE  EInv'
<1> DEFINE t == StageTask(s)
<1>1. /\ place[t] = "looping" /\ step[s] = "committed"
      /\ UNCHANGED <<children, child, last, step, holder, calls, result, written, billed>>
  BY DEF StageDone, stepVars, outVars, StageTask
<1>2. t \in Tasks /\ t \notin Children /\ t[2] = "stage" /\ main = s
  BY <1>1, StageTasks DEF EInv, Waited
<1>3. \/ /\ main' = IF s = "verifier" THEN "synthesizer" ELSE "outputs"
         /\ place' = [p \in Tasks |-> IF p = t THEN "none"
                                      ELSE IF p = <<main', "stage">> THEN "looping" ELSE place[p]]
         /\ parent' = parent
      \/ FailsParent /\ Put(t, "none")
  BY DEF StageDone, StageTask
<1> HIDE DEF t
<1>4. CASE FailsParent /\ Put(t, "none")
  <2>1. Stops(t) /\ HandsOf(t) /\ CallsStay
    BY <1>1, <1>2, <1>4, StageStops, SameHands DEF EInv, CallsStay
  <2> QED BY <1>1, <1>2, <2>1, StopStep
<1>5. CASE /\ main' = IF s = "verifier" THEN "synthesizer" ELSE "outputs"
           /\ place' = [p \in Tasks |-> IF p = t THEN "none"
                                        ELSE IF p = <<main', "stage">> THEN "looping" ELSE place[p]]
           /\ parent' = parent
  <2>1. place' \in [Tasks -> Places] /\ written' \in 0 .. Outputs
        /\ parent' \in {"absent", "created", "running"} \cup Ended
    BY <1>1, <1>5 DEF EInv, Types, Places, Holding
  <2>2. OneHolds'
    <3>1. ASSUME NEW p \in Tasks, place'[p] \in Holding PROVE p = <<main', "stage">>
      BY <1>1, <1>2, <1>5, <3>1 DEF EInv, OneHolds, Holding
    <3> QED BY <3>1 DEF OneHolds
  <2>3. main' \in {"synthesizer", "outputs"} /\ main' # s /\ main \notin Grouping
    BY <1>2, <1>5 DEF Stages, Grouping
  <2>4. \A p \in Group : place'[p] = "none"
    BY <1>2, <1>5, <2>3 DEF EInv, Waited, Group, Tasks
  <2>5. ASSUME NEW r \in Stages, main' # r PROVE place'[StageTask(r)] = "none"
    <3>1. StageTask(r) \in Tasks /\ StageTask(r) # <<main', "stage">>
      BY <2>5, StageTasks DEF StageTask
    <3>2. r # s => place[StageTask(r)] = "none"
      BY <1>2 DEF EInv, Waited
    <3> QED BY <1>5, <3>1, <3>2 DEF t
  <2>6. parent \notin Ended \cup {"absent"}
    BY <1>2 DEF EInv, Waited, Stages
  <2>7. Waited'
    BY <1>5, <2>3, <2>4, <2>5, <2>6 DEF Waited
  <2>8. Behind'
    <3>1. TotalCalls' = TotalCalls /\ (StagesDone => StagesDone')
      BY <1>1 DEF TotalCalls, StagesDone
    <3>2. children = Workers /\ result = Workers
      BY <1>2 DEF EInv, Behind
    <3>3. step["verifier"] = "committed" /\ (main' = "outputs" => step["synthesizer"] = "committed")
      BY <1>1, <1>2, <1>5 DEF EInv, Behind, Stages
    <3>4. parent' # "completed"
      BY <1>5, <2>6 DEF Ended
    <3> QED BY <1>1, <3>1, <3>2, <3>3, <3>4 DEF EInv, Behind
  <2>9. \A p \in Tasks : place'[p] \in {place[p], "none", "scheduled", "looping"}
    BY <1>5
  <2> QED BY <1>1, <1>5, <2>1, <2>2, <2>3, <2>6, <2>7, <2>8, <2>9, MainStep DEF Stages, Ended
<1> QED BY <1>3, <1>4, <1>5

LEMMA WriteStep ==
  ASSUME EInv, Write
  PROVE  EInv'
<1>1. /\ main = "outputs"
      /\ UNCHANGED <<children, child, last, step, holder, calls, result, place>>
  BY DEF Write, stepVars
<1>2. /\ written \in 0 .. 7 /\ parent \in {"absent", "created", "running"} \cup Ended
      /\ place' \in [Tasks -> Places] /\ parent \notin Ended \cup {"absent"}
  BY <1>1 DEF EInv, Types, Outputs, Places, Waited
<1>3. \/ FailsParent /\ UNCHANGED <<written, billed>>
      \/ /\ ~(written >= CostAt /\ billed # TotalCalls) /\ written < Outputs
         /\ written' = written + 1
         /\ billed' = IF written' = CostAt THEN TotalCalls ELSE billed
         /\ UNCHANGED <<parent, main>>
      \/ /\ ~(written < Outputs) /\ parent' = "completed" /\ main' = "none"
         /\ UNCHANGED <<written, billed>>
  BY DEF Write
<1>4. /\ main' \in {"outputs", "none"} /\ (parent' \in Ended => main' = "none")
      /\ parent' \in {parent, "failed", "completed"} /\ written' \in 0 .. 7
  BY <1>1, <1>2, <1>3 DEF FailsParent, Outputs
<1>5. Waited' /\ OneHolds'
  BY <1>1, <1>2, <1>4 DEF EInv, Waited, OneHolds, Grouping, Stages, Ended
<1>6. Behind'
  <2>1. TotalCalls' = TotalCalls /\ StagesDone'
    BY <1>1 DEF TotalCalls, StagesDone, EInv, Behind, Stages
  <2>2. children' = Workers /\ result' = Workers
    BY <1>1 DEF EInv, Behind
  <2>3. written >= 6 => billed = TotalCalls
    BY DEF EInv, Behind, CostAt
  <2>4. written' >= 6 => billed' = TotalCalls
    BY <1>2, <1>3, <2>3 DEF CostAt
  <2>5. parent' = "completed" => written' = 7
    BY <1>2, <1>3 DEF FailsParent, Outputs, Ended
  <2> QED BY <1>1, <1>4, <2>1, <2>2, <2>4, <2>5 DEF Behind, StagesDone, Stages, CostAt, Outputs
<1>7. parent' \in {"absent", "created", "running"} \cup Ended
      /\ (parent' = "absent" \/ main' = "submitting" => parent = "absent" \/ main = "submitting")
  BY <1>2, <1>4 DEF Ended
<1> QED BY <1>1, <1>2, <1>4, <1>5, <1>6, <1>7, MainStep DEF Outputs

LEMMA CancelStep ==
  ASSUME EInv, Cancel
  PROVE  EInv'
<1>1. /\ LoopFree /\ parent \in Live
      /\ UNCHANGED <<children, child, last, step, holder, calls, result, written, billed>>
  BY DEF Cancel, stepVars, outVars
<1>2. \/ main \in {"none", "scheduled"} /\ parent' = "cancelled" /\ main' = "none" /\ place' = place
      \/ /\ main = "workers" /\ main' = "cancelling" /\ place' = Aborted(<<"none", "none">>)
         /\ parent' = parent
      \/ /\ main \in Stages /\ parent' = "cancelled" /\ main' = "none"
         /\ Put(StageTask(main), "none")
      \/ UNCHANGED <<parent, main, place>>
  BY DEF Cancel, taskVars, StageTask
<1>3. place \in [Tasks -> Places] /\ "none" \in Places
  BY DEF EInv, Types, Places
<1>4. place' \in [Tasks -> Places] /\ \A p \in Tasks : place'[p] \in {place[p], "none"}
  BY <1>2, <1>3, StageTasks DEF Aborted, Put
<1>5. /\ parent' \in {parent, "cancelled"}
      /\ main' \in {main, "none"} \/ (main \in Grouping /\ main' = "cancelling")
  BY <1>2 DEF Grouping
<1>6. OneHolds'
  BY <1>4 DEF EInv, OneHolds, Holding
<1>7. Waited'
  <2>1. \A p \in Group : p \in Tasks
    BY DEF Tasks
  <2>2. ASSUME NEW s \in Stages, main' # s PROVE place'[StageTask(s)] = "none"
    <3>1. StageTask(s) \in Tasks /\ (main # s => place[StageTask(s)] = "none")
      BY StageTasks DEF EInv, Waited
    <3>2. main = s => Put(StageTask(s), "none")
      BY <1>2, <2>2 DEF Stages
    <3> QED BY <1>3, <1>4, <3>1, <3>2 DEF Put
  <2>3. main' \notin Grouping => \A t \in Group : place'[t] = "none"
    BY <1>2, <1>4, <2>1 DEF EInv, Waited, Grouping, Stages
  <2>4. parent' \in Ended \cup {"absent"} => main' \in {"none", "down"}
    BY <1>2 DEF EInv, Waited
  <2>5. main' = "workers" => main = "workers" /\ place' = place
    BY <1>2 DEF Stages
  <2> QED BY <2>2, <2>3, <2>4, <2>5 DEF EInv, Waited
<1>8. Behind'
  <2>1. TotalCalls' = TotalCalls /\ (StagesDone => StagesDone')
    BY <1>1 DEF TotalCalls, StagesDone
  <2>2. parent' = "completed" => parent = "completed"
    BY <1>5
  <2>3. /\ main' \in Grouping \cup Stages \cup {"outputs"} =>
             main \in Grouping \cup Stages \cup {"outputs"}
        /\ main' \in Stages \cup {"outputs"} => main' = main
        /\ main' \in {"synthesizer", "outputs"} => main' = main
        /\ main' = "outputs" => main' = main
    BY <1>5 DEF Grouping, Stages
  <2> QED BY <1>1, <2>1, <2>2, <2>3 DEF EInv, Behind
<1>9. main' \in {"down", "none", "submitting", "scheduled", "outputs"} \cup Grouping \cup Stages
      /\ parent' \in {"absent", "created", "running"} \cup Ended /\ written' \in 0 .. Outputs
  BY <1>1, <1>5 DEF EInv, Types, Ended, Grouping
<1>10. parent' = "absent" \/ main' = "submitting" => parent = "absent" \/ main = "submitting"
  BY <1>5
<1> QED BY <1>1, <1>4, <1>6, <1>7, <1>8, <1>9, <1>10, MainStep

LEMMA CrashStep ==
  ASSUME EInv, Crash
  PROVE  EInv'
<1>1. /\ main' = "down" /\ place' = Idle
      /\ UNCHANGED <<parent, children, child, last, step, holder, calls, result, written, billed>>
  BY DEF Crash, runVars, stepVars, outVars
<1>2. place' \in [Tasks -> Places] /\ \A p \in Tasks : place'[p] = "none"
  BY <1>1 DEF Idle, Places
<1>3. Waited' /\ OneHolds'
  BY <1>1, <1>2, StageTasks DEF Waited, OneHolds, Grouping, Tasks, Holding
<1>4. CommitsStay
  BY <1>1 DEF CommitsStay
<1>5. Behind'
  BY <1>1, <1>4, ResultsRest, BehindKept DEF CallsStay, Grouping, Stages
<1>6. written' \in 0 .. Outputs /\ parent' \in {"absent", "created", "running"} \cup Ended
  BY <1>1 DEF EInv, Types
<1> QED BY <1>1, <1>2, <1>3, <1>5, <1>6, MainStep

\* A lease runs out when no living task has the step, or while a task awaits its call.
LEMMA ExpireStep ==
  ASSUME EInv, NEW u \in Units, Lapse(u) \/ Suspend(u)
  PROVE  EInv'
<1>1. /\ step[u] = "held" /\ step' = [step EXCEPT ![u] = "lapsed"]
      /\ UNCHANGED <<parent, children, child, last, holder, calls, result, written, billed,
                     main, place>>
  BY DEF Lapse, Suspend, Expire, runVars, outVars, taskVars
<1>2. Lost(u) /\ StepTypes /\ CommitsStay
  BY <1>1, LostOwners DEF EInv
<1>3. Types' /\ Waited' /\ OneHolds' /\ Answers'
  BY <1>1, <1>2 DEF EInv, Types, Waited, OneHolds, Answers, StepTypes
<1>4. ASSUME NEW p \in Tasks, place[p] \in {"claimed", "settled"} PROVE Owns(p)'
  <2>1. Owns(p)
    BY <1>4 DEF EInv, HoldersOwn
  <2>2. p[1] # u
    BY <1>4, <2>1 DEF Lapse, Suspend, Living, LoopFree, Holding
  <2> QED BY <1>2, <2>1, <2>2 DEF Lost
<1>5. \A p \in Tasks : Owns(p)' => Owns(p)
  BY <1>2 DEF Lost
<1>6. HoldersOwn' /\ FinalIsLast'
  BY <1>1, <1>4, <1>5, OwnersRest
<1>7. Behind'
  BY <1>1, <1>2, ResultsRest, BehindKept DEF CallsStay
<1> QED BY <1>3, <1>6, <1>7 DEF EInv

----------------------------------------------------------------------------
(***************************************************************************)
(* The theorems.                                                           *)
(***************************************************************************)
LEMMA EInvInit ==
  ASSUME Init
  PROVE  EInv
<1> USE DEF Init
<1>1. Types
  BY DEF Types, Idle, Outputs
<1>2. Waited
  BY StageTasks DEF Waited, Idle, Tasks, Grouping
<1>3. OneHolds /\ HoldersOwn /\ FinalIsLast
  BY DEF OneHolds, HoldersOwn, FinalIsLast, Idle, Holding, Children, Tasks
<1>4. Answers
  BY DEF Answers, Idle, Tasks
<1>5. Behind
  BY DEF Behind, Grouping, Stages, CostAt
<1> QED BY <1>1, <1>2, <1>3, <1>4, <1>5 DEF EInv

LEMMA EInvRests ==
  ASSUME EInv, UNCHANGED vars
  PROVE  EInv'
<1>1. UNCHANGED <<parent, children, child, last, step, holder, calls, result, written, billed,
                  main, place>>
  BY DEF vars, runVars, stepVars, outVars, taskVars
<1> QED BY <1>1 DEF EInv, Types, Waited, OneHolds, HoldersOwn, FinalIsLast, Answers, Behind, Owns,
                    StagesDone, TotalCalls

LEMMA EInvNext ==
  ASSUME EInv, Next
  PROVE  EInv'
<1>1. CASE Submit
  BY <1>1, SubmitStep
<1>2. CASE Submitted \/ Startup \/ Resume
  BY <1>2, ScheduledStep
<1>3. CASE Execute
  BY <1>3, ExecuteStep
<1>4. CASE GroupEnds
  BY <1>4, GroupEndsStep
<1>5. CASE Write
  BY <1>5, WriteStep
<1>6. ASSUME NEW w \in Workers, CreateChild(w) \/ Begin(w) \/ BeginSolo(w) \/ Collect(w)
      PROVE  EInv'
  BY <1>6, CreateChildStep, BeginStep, BeginSoloStep, CollectStep
<1>7. ASSUME NEW w \in Workers,
             ResumeChild(w) \/ \E v \in {"approved", "rejected"} : Decide(w, v)
      PROVE  EInv'
  BY <1>7, SoloStep
<1>8. ASSUME NEW t \in Tasks, \/ Continue(t) \/ Claim(t) \/ Call(t) \/ Answer(t)
                              \/ ProviderFails(t) \/ Commit(t) \/ Exit(t)
      PROVE  EInv'
  BY <1>8, ContinueStep, ClaimStep, CallStep, AnswerStep, ProviderFailsStep, CommitStep, ExitStep
<1>9. ASSUME NEW s \in Stages, StageDone(s) PROVE EInv'
  BY <1>9, StageDoneStep
<1>10. ASSUME NEW u \in Units, Lapse(u) \/ Suspend(u) PROVE EInv'
  BY <1>10, ExpireStep
<1>11. CASE Cancel
  BY <1>11, CancelStep
<1>12. CASE Crash
  BY <1>12, CrashStep
<1> QED
  BY <1>1, <1>2, <1>3, <1>4, <1>5, <1>6, <1>7, <1>8, <1>9, <1>10, <1>11, <1>12
  DEF Next, Progress

THEOREM FanoutInvariant == Spec => []EInv
<1>1. EInv /\ [Next]_vars => EInv'
  BY EInvNext, EInvRests
<1> QED BY <1>1, EInvInit, PTL DEF Spec

\* A completed fan-out has all its children, results, stages and artifacts, whoever ran a
\* worker's child beside it and however often the daemon died (execute, _execute_worker).
THEOREM CompletedFanoutIsWhole == Spec => []CompletedIsWhole
<1>1. EInv => CompletedIsWhole
  BY DEF EInv, Types, Answers, Behind, StagesDone, CompletedIsWhole, Outputs
<1> QED BY <1>1, FanoutInvariant, PTL

\* What cost.json tells is the number of calls that were made, and it stays that: the calls a
\* child makes by itself are all made before (_write_outputs, _usage).
THEOREM CostTellsCalls == Spec => []CostIsHonest
<1>1. EInv => CostIsHonest
  BY DEF EInv, Behind, CostIsHonest
<1> QED BY <1>1, FanoutInvariant, PTL

\* The TaskGroup and the stages leave nothing behind: no task of a fan-out that has ended
\* works on (execute).
THEOREM EndedFanoutIsQuiet == Spec => []NobodyWorksForEnded
<1>1. EInv => NobodyWorksForEnded
  <2> SUFFICES ASSUME EInv, parent \in Ended, NEW t \in Tasks \ Solo PROVE place[t] = "none"
    BY DEF NobodyWorksForEnded
  <2>1. main \in {"none", "down"}
    BY DEF EInv, Waited
  <2>2. CASE t \in Group
    BY <2>1, <2>2 DEF EInv, Waited, Grouping
  <2>3. CASE t \notin Group
    <3>1. t[1] \in Stages /\ t = StageTask(t[1])
      BY <2>3, TaskFacts
    <3> QED BY <2>1, <3>1 DEF EInv, Waited, Stages
  <2> QED BY <2>2, <2>3
<1> QED BY <1>1, FanoutInvariant, PTL
=============================================================================
