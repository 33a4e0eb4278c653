---- MODULE RestoreProofs ----
(***************************************************************************)
(* NothingLost and RestoreIsWhole for every number of crashes and failed   *)
(* operations.  NothingLost is not inductive: whether an operation may     *)
(* remove or overwrite what was there before the import depends on where   *)
(* the copy of it is, and that depends on the operation at hand (Moving,   *)
(* Configuring, Backward, Ending) and, between two processes, on what the  *)
(* marker says (Resting).  RestoreIsWhole needs in addition what became of *)
(* the configuration (ConfigFollows) and of the copies (Cleaning).  The    *)
(* last section proves what RecoveryEnds rests on besides fairness.        *)
(***************************************************************************)
EXTENDS Restore, TLAPS

DataBack(d)   == setup.data => d.target = "before"
DataAside(d)  == setup.data => d.old = "before"
ConfigBack(d) == setup.config => d.config = "before"
Untouched(d)  == setup.config => d.config = "before" /\ d.kept = "none"
Recorded(d)   == d.marker \notin {"none", "prepared"}
Archived(d)   == d.target = "new" /\ (setup.external => d.config = "new")
Settled(d)    == Archived(d) \/ (DataBack(d) /\ ConfigBack(d))

\* The import until the archive's data is in place.
Moving ==
    /\ pc \in {"begin", "move"} =>
         /\ disk.target # "new" /\ DataBack(disk) /\ Untouched(disk)
         /\ disk.old = "none"
    /\ pc = "move" => setup.data /\ disk.marker = "prepared"
    /\ pc \in {"moved", "install"} =>
         /\ disk.target = "none" /\ DataAside(disk) /\ Untouched(disk)
         /\ disk.marker # "none"
    /\ pc = "install" => Recorded(disk)
    /\ pc \in {"begin", "move", "moved", "install"} =>
         mode = "import" /\ disk.replacement = "new"
    /\ pc = "installed" =>
         /\ mode = "import" /\ disk.target = "new"
         /\ DataAside(disk) /\ Untouched(disk) /\ Recorded(disk)

\* The external configuration, in the import and in a recovery.
Configuring ==
    pc \in {"keep", "stage", "staged", "swap", "swapped"} =>
      /\ setup.external /\ disk.target = "new" /\ Recorded(disk) /\ mode # "rollback"
      /\ DataAside(disk) \/ disk.config = "new"
      /\ setup.config => disk.config \in {"before", "new"}
      /\ mode = "import" =>
           /\ DataAside(disk)
           /\ setup.config => disk.kept = "before" \/ (pc = "keep" /\ Untouched(disk))
      /\ pc \in {"staged", "swap"} => disk.staged = "new"
      /\ pc = "swapped" => disk.config = "new"

\* The way back, and the archive's data where there is no way back.
Backward ==
    /\ pc \in {"put_back", "unstage"} =>
         /\ setup.external /\ mode # "import"
         /\ mode = "recover" => setup.data /\ disk.target = "none"
         /\ \/ /\ disk.target = "before" /\ disk.old = "none" /\ Untouched(disk)
               /\ disk.marker = "prepared"
            \/ /\ disk.target = "none" /\ DataAside(disk) /\ Untouched(disk)
               /\ ~setup.data => disk.replacement = "new"
            \/ disk.target = "new" /\ DataAside(disk) /\ Recorded(disk)
         /\ setup.config => disk.kept = "before" \/ Untouched(disk)
         /\ setup.config => disk.config \in {"before", "new"}
    /\ pc = "unstage" => Untouched(disk)
    /\ pc \in {"put_back", "unstage", "clear", "put_old", "adopt", "adopted"} =>
         disk.marker # "none"
    /\ pc \in {"clear", "put_old"} => setup.data /\ DataAside(disk) /\ Untouched(disk)
    /\ pc = "put_old" => disk.target = "none" /\ mode # "import"
    /\ pc = "clear" => mode = "rollback" /\ disk.target = "new" /\ Recorded(disk)
    /\ pc \in {"adopt", "adopted"} => ~setup.data /\ Untouched(disk) /\ mode # "import"
    /\ pc = "adopt" => disk.target = "none" /\ disk.replacement = "new"
    /\ pc = "adopted" => disk.target = "new" /\ mode = "recover"

\* The cleanup begins when one of the two states is complete.
Ending ==
    pc \in Finalizing => Settled(disk) /\ disk.target \in {"before", "new"}

\* What the next command may find.
Resting(d) ==
    IF d.marker = "none" THEN Settled(d)
    ELSE \/ /\ d.target = "none" /\ DataAside(d) /\ Untouched(d)
            /\ ~setup.data => d.replacement \in {"none", "new"}
         \/ /\ d.target = "before" /\ ConfigBack(d)
            /\ setup.external => d.marker = "prepared"
         \/ /\ d.target = "new"
            /\ setup.external => d.marker # "prepared"
            /\ DataAside(d) \/ Archived(d)
            /\ setup.config => d.config \in {"before", "new"}

NoData(d) == ~setup.data => d.old = "none" /\ d.target \in {"none", "new"}

Shape ==
    /\ Moving
    /\ Configuring
    /\ Backward
    /\ Ending
    /\ pc = "idle" => Resting(disk)
    /\ NoData(disk)

IInv == ~spoilt => Shape

----------------------------------------------------------------------------
(* The marker gets one of the phases recovery knows. *)
LEMMA AllPhases ==
  ASSUME TypeOK PROVE Persisted(pc) \in RestorePhases
  BY DEF TypeOK, Persisted, RestorePhases

(* An operation that succeeds leaves a disk. *)
LEMMA DoneIsDisk ==
  ASSUME TypeOK, pc \in Operations PROVE Done \in Disks
<1>1. CASE pc \in {"begin", "moved", "installed", "adopted", "staged", "swapped"}
  BY <1>1, AllPhases DEF TypeOK, Disks, Done
<1>2. CASE pc \in {"move", "install", "adopt", "swap", "put_old"}
  BY <1>2 DEF TypeOK, Disks, Done, Contents, Renamed
<1>3. CASE pc \in {"keep", "stage", "put_back"}
  BY <1>3 DEF TypeOK, Disks, Done, Contents, Renamed, Removed, ConfigPutBack, ConfigKept,
              ConfigStaged, ConfigIn, Exists
<1>4. CASE pc \in {"unstage", "clear", "drop_old"}
  BY <1>4 DEF TypeOK, Disks, Done, Contents, Removed
<1>5. CASE pc \in {"drop_new", "drop_marker"}
  BY <1>5 DEF TypeOK, Disks, Done, Contents, Removed
<1>6. CASE pc = "drop_configs"
  <2>1. [disk EXCEPT !.staged = "none"] \in Disks
    BY DEF TypeOK, Disks, Contents
  <2>2. \A d \in Disks : [d EXCEPT !.kept = "none"] \in Disks
    BY DEF Disks, Contents
  <2>3. Done = [[disk EXCEPT !.staged = "none"] EXCEPT !.kept = "none"]
    BY <1>6 DEF Done
  <2>4. QED
    BY <2>1, <2>2, <2>3
<1>7. QED
  BY <1>1, <1>2, <1>3, <1>4, <1>5, <1>6 DEF Operations

(* Whatever an operation leaves is a disk. *)
LEMMA AllDisks ==
  ASSUME TypeOK, pc \in Operations
  PROVE  {disk, Done} \cup Torn \cup CutOff \subseteq Disks
<1>1. disk \in Disks /\ Done \in Disks
  BY DoneIsDisk DEF TypeOK
<1>2. Torn \subseteq Disks
  <2>1. Removed("staged") \in Disks
    BY DEF Removed, TypeOK, Disks, Contents
  <2>2. TornBy("target") \subseteq Disks
    BY DEF TornBy, TypeOK, Disks, Contents
  <2>3. TornBy("old") \subseteq Disks /\ TornBy("replacement") \subseteq Disks
    BY DEF TornBy, TypeOK, Disks, Contents
  <2>4. QED
    BY <2>1, <2>2, <2>3 DEF Torn
<1>3. CutOff \subseteq Disks
  <2>1. [disk EXCEPT !.kept = "part"] \in Disks /\ [disk EXCEPT !.staged = "part"] \in Disks
    BY DEF TypeOK, Disks, Contents
  <2>2. QED
    BY <2>1 DEF CutOff
<1>4. QED
  BY <1>1, <1>2, <1>3

(* The last operations of the cleanup touch neither data nor configuration. *)
LEMMA DroppedConfigs ==
  ASSUME disk \in Disks, NEW d, d = [disk EXCEPT !.staged = "none", !.kept = "none"]
  PROVE  /\ d.target = disk.target /\ d.old = disk.old /\ d.config = disk.config
         /\ d.marker = disk.marker /\ d.kept = "none" /\ d.staged = "none"
<1> DEFINE e == [disk EXCEPT !.staged = "none"]
<1>1. /\ e.target = disk.target /\ e.old = disk.old /\ e.config = disk.config
      /\ e.marker = disk.marker /\ e.staged = "none" /\ e \in Disks
  BY DEF Disks, Contents
<1>2. d = [e EXCEPT !.kept = "none"]
  OBVIOUS
<1> HIDE DEF e
<1>3. QED
  BY <1>1, <1>2 DEF Disks

LEMMA RemovedMarker ==
  ASSUME disk \in Disks, NEW d, d = Removed("marker")
  PROVE  /\ d.target = disk.target /\ d.old = disk.old /\ d.config = disk.config
         /\ d.marker = "none" /\ d.kept = disk.kept /\ d.staged = disk.staged
  BY DEF Removed, Disks

(* An operation that succeeds. *)
LEMMA StepKeeps ==
  ASSUME TypeOK, ~spoilt, Shape, Step
  PROVE  Shape'
<1> USE DEF Shape, Moving, Configuring, Backward, Ending, Resting, NoData, DataBack, DataAside,
           ConfigBack, Untouched, Recorded, Archived, Settled, Finalizing, TypeOK, Setups, Disks
<1>1. CASE pc = "begin"
  BY <1>1 DEF Step, Done, After, Persisted
<1>2. CASE pc = "move"
  BY <1>2 DEF Step, Done, After, Renamed
<1>3. CASE pc = "moved"
  BY <1>3 DEF Step, Done, After, Persisted
<1>4. CASE pc = "install"
  BY <1>4 DEF Step, Done, After, Renamed
<1>5. CASE pc = "installed"
  BY <1>5 DEF Step, Done, After, Persisted, ConfigNext, Finalize
<1>6. CASE pc = "keep"
  BY <1>6 DEF Step, Done, After, ConfigKept, Exists
<1>7. CASE pc = "stage"
  BY <1>7 DEF Step, Done, After, ConfigStaged, ConfigIn
<1>8. CASE pc = "staged"
  BY <1>8 DEF Step, Done, After, Persisted
<1>9. CASE pc = "swap"
  BY <1>9 DEF Step, Done, After, Renamed
<1>10. CASE pc = "swapped"
  BY <1>10 DEF Step, Done, After, Persisted, Finalize
<1>11. CASE pc = "put_back"
  BY <1>11 DEF Step, Done, After, ConfigPutBack, Renamed, Removed, Exists
<1>12. CASE pc = "unstage"
  BY <1>12 DEF Step, Done, After, Removed, RollBack, Finalize
<1>13. CASE pc = "clear"
  BY <1>13 DEF Step, Done, After, Removed
<1>14. CASE pc = "put_old"
  BY <1>14 DEF Step, Done, After, Renamed, Finalize
<1>15. CASE pc = "adopt"
  BY <1>15 DEF Step, Done, After, Renamed, Finalize
<1>16. CASE pc = "adopted"
  BY <1>16 DEF Step, Done, After, Persisted, ConfigNext, Finalize
<1>17. CASE pc = "drop_old"
  BY <1>17 DEF Step, Done, After, Removed
<1>18. CASE pc = "drop_new"
  BY <1>18 DEF Step, Done, After, Removed
<1>19. CASE pc = "drop_configs"
  <2> HIDE DEF TypeOK, Setups, Disks
  <2>1. /\ disk' = [disk EXCEPT !.staged = "none", !.kept = "none"]
        /\ pc' = "drop_marker" /\ UNCHANGED <<setup, mode>>
    BY <1>19 DEF Step, Done, After
  <2>2. /\ disk'.target = disk.target /\ disk'.old = disk.old
        /\ disk'.config = disk.config /\ disk'.marker = disk.marker
    BY <2>1, DroppedConfigs DEF TypeOK
  <2>3. QED
    BY <1>19, <2>1, <2>2
<1>20. CASE pc = "drop_marker"
  <2> HIDE DEF TypeOK, Setups, Disks
  <2>1. disk' = Removed("marker") /\ pc' = "idle" /\ UNCHANGED setup
    BY <1>20 DEF Step, Done, After
  <2>2. /\ disk'.target = disk.target /\ disk'.old = disk.old
        /\ disk'.config = disk.config /\ disk'.marker = "none"
    BY <2>1, RemovedMarker DEF TypeOK
  <2>3. QED
    BY <1>20, <2>1, <2>2
<1>21. pc \in Operations
  BY DEF TypeOK, Step
<1> HIDE DEF Shape, Moving, Configuring, Backward, Ending, Resting, NoData, DataBack, DataAside,
             ConfigBack, Untouched, Recorded, Archived, Settled, Finalizing, TypeOK, Setups, Disks
<1>22. QED
  BY <1>1, <1>2, <1>3, <1>4, <1>5, <1>6, <1>7, <1>8, <1>9, <1>10, <1>11, <1>12,
     <1>13, <1>14, <1>15, <1>16, <1>17, <1>18, <1>19, <1>20, <1>21 DEF Operations

(* What an operation leaves that failed or was cut off. *)
LEMMA Interrupted ==
  ASSUME TypeOK, ~spoilt, Shape, pc # "idle",
         NEW d \in {disk, Done} \cup Torn \cup CutOff, ~Misread(d)
  PROVE  Resting(d) /\ NoData(d)
<1> USE DEF Shape, Moving, Configuring, Backward, Ending, Resting, NoData, DataBack, DataAside,
           ConfigBack, Untouched, Recorded, Archived, Settled, Finalizing, TypeOK, Setups, Disks,
           Misread
<1>1. CASE pc = "begin"
  BY <1>1 DEF Done, Torn, CutOff, Persisted
<1>2. CASE pc = "move"
  BY <1>2 DEF Done, Torn, CutOff, Renamed
<1>3. CASE pc = "moved"
  BY <1>3 DEF Done, Torn, CutOff, Persisted
<1>4. CASE pc = "install"
  BY <1>4 DEF Done, Torn, CutOff, Renamed
<1>5. CASE pc = "installed"
  BY <1>5 DEF Done, Torn, CutOff, Persisted
<1>6. CASE pc = "keep"
  BY <1>6 DEF Done, Torn, CutOff, ConfigKept, Exists
<1>7. CASE pc = "stage"
  BY <1>7 DEF Done, Torn, CutOff, ConfigStaged, ConfigIn, Removed
<1>8. CASE pc = "staged"
  BY <1>8 DEF Done, Torn, CutOff, Persisted
<1>9. CASE pc = "swap"
  BY <1>9 DEF Done, Torn, CutOff, Renamed
<1>10. CASE pc = "swapped"
  BY <1>10 DEF Done, Torn, CutOff, Persisted
<1>11. CASE pc = "put_back"
  BY <1>11 DEF Done, Torn, CutOff, ConfigPutBack, Renamed, Removed, Exists
<1>12. CASE pc = "unstage"
  <2>1. d = disk \/ d = Removed("staged")
    BY <1>12 DEF Done, Torn, CutOff
  <2>2. CASE d = disk
    BY <1>12, <2>2
  <2>3. CASE d = Removed("staged")
    BY <1>12, <2>3 DEF Removed
  <2>4. QED
    BY <2>1, <2>2, <2>3
<1>13. CASE pc = "clear"
  BY <1>13 DEF Done, Torn, CutOff, Removed, TornBy, Exists
<1>14. CASE pc = "put_old"
  <2>1. d = disk \/ d = Renamed("old", "target")
    BY <1>14 DEF Done, Torn, CutOff
  <2>2. CASE d = disk
    BY <1>14, <2>2
  <2>3. CASE d = Renamed("old", "target")
    BY <1>14, <2>3 DEF Renamed
  <2>4. QED
    BY <2>1, <2>2, <2>3
<1>15. CASE pc = "adopt"
  BY <1>15 DEF Done, Torn, CutOff, Renamed
<1>16. CASE pc = "adopted"
  BY <1>16 DEF Done, Torn, CutOff, Persisted
<1>17. CASE pc = "drop_old"
  BY <1>17 DEF Done, Torn, CutOff, Removed, TornBy, Exists
<1>18. CASE pc = "drop_new"
  BY <1>18 DEF Done, Torn, CutOff, Removed, TornBy, Exists
<1>19. CASE pc = "drop_configs"
  <2> HIDE DEF TypeOK, Setups, Disks
  <2>1. \/ d = disk \/ d = Removed("staged")
        \/ d = [disk EXCEPT !.staged = "none", !.kept = "none"]
    BY <1>19 DEF Done, Torn, CutOff
  <2>2. /\ d.target = disk.target /\ d.old = disk.old /\ d.config = disk.config
        /\ d.marker = disk.marker
    <3>1. CASE d = disk \/ d = Removed("staged")
      BY <3>1 DEF Removed, TypeOK, Disks
    <3>2. CASE d = [disk EXCEPT !.staged = "none", !.kept = "none"]
      BY <3>2, DroppedConfigs DEF TypeOK
    <3>3. QED
      BY <2>1, <3>1, <3>2
  <2>3. setup.config => setup.external
    BY DEF TypeOK, Setups
  <2>4. QED
    BY <1>19, <2>2, <2>3
<1>20. CASE pc = "drop_marker"
  <2> HIDE DEF TypeOK, Setups, Disks
  <2>1. d = disk \/ d = Removed("marker")
    BY <1>20 DEF Done, Torn, CutOff
  <2>2. /\ d.target = disk.target /\ d.old = disk.old /\ d.config = disk.config
        /\ d.marker \in {disk.marker, "none"}
    BY <2>1, RemovedMarker DEF TypeOK
  <2>3. setup.config => setup.external
    BY DEF TypeOK, Setups
  <2>4. QED
    BY <1>20, <2>2, <2>3
<1>21. pc \in Operations
  BY DEF TypeOK
<1> HIDE DEF Shape, Moving, Configuring, Backward, Ending, Resting, NoData, DataBack, DataAside,
             ConfigBack, Untouched, Recorded, Archived, Settled, Finalizing, TypeOK, Setups, Disks,
             Misread
<1>22. QED
  BY <1>1, <1>2, <1>3, <1>4, <1>5, <1>6, <1>7, <1>8, <1>9, <1>10, <1>11, <1>12,
     <1>13, <1>14, <1>15, <1>16, <1>17, <1>18, <1>19, <1>20, <1>21 DEF Operations

(* What the rollback starts from. *)
Undoing(d) ==
    /\ \/ /\ d.target = "before" /\ d.old = "none" /\ Untouched(d)
          /\ d.marker = "prepared"
       \/ /\ d.target = "none" /\ DataAside(d) /\ Untouched(d)
          /\ ~setup.data => d.replacement = "new"
       \/ d.target = "new" /\ DataAside(d) /\ Recorded(d)
    /\ setup.config => d.kept = "before" \/ Untouched(d)
    /\ setup.config => d.config \in {"before", "new"}
    /\ d.marker # "none"
    /\ NoData(d)

(* What an operation of the import leaves that failed. *)
LEMMA FailedImport ==
  ASSUME TypeOK, ~spoilt, Shape, pc \in Operations, mode = "import",
         pc \notin Finalizing \cup {"begin"},
         NEW d \in {disk, Done} \cup Torn
  PROVE  Undoing(d)
<1> USE DEF Shape, Moving, Configuring, Backward, Ending, Resting, NoData, DataBack, DataAside,
           ConfigBack, Untouched, Recorded, Archived, Settled, Finalizing, TypeOK, Setups, Disks,
           Undoing
<1>1. CASE pc = "move"
  BY <1>1 DEF Done, Torn, Renamed
<1>2. CASE pc = "moved"
  BY <1>2 DEF Done, Torn, Persisted
<1>3. CASE pc = "install"
  BY <1>3 DEF Done, Torn, Renamed
<1>4. CASE pc = "installed"
  BY <1>4 DEF Done, Torn, Persisted
<1>5. CASE pc = "keep"
  BY <1>5 DEF Done, Torn, ConfigKept, Exists
<1>6. CASE pc = "stage"
  BY <1>6 DEF Done, Torn, ConfigStaged, ConfigIn, Removed
<1>7. CASE pc = "staged"
  BY <1>7 DEF Done, Torn, Persisted
<1>8. CASE pc = "swap"
  BY <1>8 DEF Done, Torn, Renamed
<1>9. CASE pc = "swapped"
  BY <1>9 DEF Done, Torn, Persisted
<1>10. pc \in {"move", "moved", "install", "installed", "keep", "stage",
                "staged", "swap", "swapped"}
  BY DEF Operations
<1> HIDE DEF Shape, Moving, Configuring, Backward, Ending, Resting, NoData, DataBack, DataAside,
             ConfigBack, Untouched, Recorded, Archived, Settled, Finalizing, TypeOK, Setups, Disks,
             Undoing
<1>11. QED
  BY <1>1, <1>2, <1>3, <1>4, <1>5, <1>6, <1>7, <1>8, <1>9, <1>10

(* An operation that fails: the rollback begins, or the process ends. *)
LEMMA FaultKeeps ==
  ASSUME TypeOK, ~spoilt, Shape, Fault, ~spoilt'
  PROVE  Shape'
<1>1. PICK d \in {disk, Done} \cup Torn : Fails(d)
  BY DEF Fault
<1>2. pc \in Operations /\ pc # "idle" /\ UNCHANGED setup
  BY <1>1 DEF Fault, Fails, TypeOK
<1>3. CASE mode = "import" /\ pc \notin Finalizing \cup {"begin"}
  <2>1. Undoing(d)
    BY <1>2, <1>3, FailedImport
  <2>2. /\ disk' = d /\ mode' = "rollback"
        /\ pc' = IF setup.external THEN "put_back" ELSE RollBack(d)
    BY <1>1, <1>3 DEF Fails
  <2>3. CASE setup.external
    BY <2>1, <2>2, <2>3, <1>2
       DEF Undoing, Shape, Moving, Configuring, Backward, Ending, Finalizing,
           Untouched, ConfigBack, DataAside, Recorded, NoData
  <2>4. CASE ~setup.external
    <3> USE DEF Shape, Moving, Configuring, Backward, Ending, Finalizing, Untouched,
                ConfigBack, DataAside, DataBack, Recorded, NoData, Settled, Archived
    <3>1. ~setup.config
      BY <2>4 DEF TypeOK, Setups
    <3>2. CASE d.old # "none" /\ d.target # "none"
      <4>1. pc' = "clear" /\ setup.data /\ DataAside(d) /\ Untouched(d)
            /\ d.target = "new" /\ Recorded(d) /\ NoData(d)
        BY <2>1, <2>2, <2>4, <3>1, <3>2 DEF RollBack, Undoing
      <4>2. QED
        BY <2>2, <4>1, <1>2
    <3>3. CASE d.old # "none" /\ d.target = "none"
      <4>1. pc' = "put_old" /\ setup.data /\ DataAside(d) /\ Untouched(d)
            /\ d.marker # "none" /\ NoData(d)
        BY <2>1, <2>2, <2>4, <3>3 DEF RollBack, Undoing
      <4>2. QED
        BY <2>2, <3>3, <4>1, <1>2
    <3>4. CASE d.old = "none" /\ d.target = "none"
      <4>1. pc' = "adopt" /\ ~setup.data /\ Untouched(d) /\ d.replacement = "new"
            /\ d.marker # "none" /\ NoData(d)
        BY <2>1, <2>2, <2>4, <3>4 DEF RollBack, Undoing
      <4>2. QED
        BY <2>2, <3>4, <4>1, <1>2
    <3>5. CASE d.old = "none" /\ d.target # "none"
      <4>1. pc' = "drop_new" /\ Settled(d) /\ d.target \in {"before", "new"} /\ NoData(d)
        BY <2>1, <2>2, <2>4, <3>1, <3>5 DEF RollBack, Finalize, Undoing
      <4>2. QED
        BY <2>2, <4>1, <1>2
    <3>6. QED
      BY <3>2, <3>3, <3>4, <3>5
  <2>5. QED
    BY <2>3, <2>4
<1>4. CASE ~(mode = "import" /\ pc \notin Finalizing \cup {"begin"})
  <2>1. pc' = "idle" /\ disk' \in {d, Workspace(d)} /\ ~Misread(disk')
    BY <1>1, <1>4 DEF Fails, Left
  <2>2. d \in Disks
    BY <1>2, AllDisks
  <2>3. ~Misread(d)
    BY <2>1, <2>2, <1>2 DEF Misread, Workspace, Disks
  <2>4. Resting(d) /\ NoData(d)
    BY <1>2, <2>3, Interrupted
  <2>5. Resting(disk') /\ NoData(disk')
    BY <2>1, <2>2, <2>4
       DEF Workspace, Resting, NoData, Disks, Settled, Archived, DataBack, DataAside,
           ConfigBack, Untouched
  <2>6. QED
    BY <2>1, <2>5, <1>2
       DEF Shape, Moving, Configuring, Backward, Ending, Finalizing, Resting, NoData,
           Settled, Archived, DataBack, DataAside, ConfigBack, Untouched
<1>5. QED
  BY <1>3, <1>4

(* A process that is killed. *)
LEMMA CrashKeeps ==
  ASSUME TypeOK, ~spoilt, Shape, Crash, ~spoilt'
  PROVE  Shape'
<1>1. PICK d \in {disk, Done} \cup Torn \cup CutOff : disk' = d
  BY DEF Crash
<1>2. pc # "idle" /\ pc' = "idle" /\ UNCHANGED setup /\ ~Misread(d)
  BY <1>1 DEF Crash, Left, Misread
<1>3. Resting(d) /\ NoData(d)
  BY <1>1, <1>2, Interrupted
<1>4. QED
  BY <1>1, <1>2, <1>3
     DEF Shape, Moving, Configuring, Backward, Ending, Finalizing, Resting, NoData,
         Settled, Archived, DataBack, DataAside, ConfigBack, Untouched

(* The next backup command finds one of the disks of Resting. *)
LEMMA RecoverKeeps ==
  ASSUME TypeOK, ~spoilt, Shape, Recover
  PROVE  Shape'
<1> USE DEF Shape, Moving, Configuring, Backward, Ending, Finalizing, Resting, NoData,
            Settled, Archived, DataBack, DataAside, ConfigBack, Untouched, Recorded,
            Recover, MarkerPhase, Exists, TypeOK, Setups, Disks
<1>1. CASE ~Exists("target") /\ Exists("old")
  BY <1>1
<1>2. CASE Exists("target")
  BY <1>2 DEF ConfigNext, Finalize
<1>3. CASE ~Exists("target") /\ ~Exists("old")
  BY <1>3 DEF Contents
<1>4. QED
  BY <1>1, <1>2, <1>3

----------------------------------------------------------------------------
(***************************************************************************)
(* What RestoreIsWhole needs besides: where the configuration is what it   *)
(* was, and the phase that makes the rollback remove a new one; what the   *)
(* cleanup has removed so far, and which of the two states it completes.   *)
(***************************************************************************)
ConfigWas(d) == d.config = IF setup.config THEN "before" ELSE "none"
Undone(d)    == d.target = (IF setup.data THEN "before" ELSE "none") /\ ConfigWas(d)
Clean(d)     == d.old = "none" /\ d.kept = "none" /\ d.staged = "none"

\* How a transaction may be over; the last is the exception of RestoreIsWhole.
Over(d) ==
    \/ Undone(d)
    \/ Archived(d) /\ mode # "rollback"
    \/ mode = "rollback" /\ ~setup.data

ConfigFollows ==
    /\ ~setup.external => disk.config = "none"
    /\ ~setup.config => disk.kept = "none"
    /\ disk.target \in {"none", "before"} => ConfigWas(disk)
    /\ mode = "import" /\ pc \in {"keep", "stage", "staged", "swap"} => ConfigWas(disk)
    /\ mode = "import" /\ pc \in {"swap", "swapped"} => phase = "config_prepared"
    /\ pc \in {"installed", "unstage", "clear", "put_old", "adopt", "adopted"} => ConfigWas(disk)
    /\ pc = "put_back" =>
         setup.config \/ ConfigWas(disk) \/ phase \in {"config_prepared", "config_installed"}

Cleaning ==
    /\ pc \notin {"begin", "idle"} => disk.marker # "none"
    /\ pc = "begin" => Clean(disk)
    /\ pc \in Finalizing => Over(disk) /\ (mode = "import" => Archived(disk))
    /\ pc \in Finalizing \ {"drop_old"} => disk.old = "none"
    /\ pc = "drop_marker" => Clean(disk)
    /\ pc = "idle" /\ disk.marker = "none" => Over(disk) /\ Clean(disk)

\* A success is reported once the archive's state is complete, and it stays.
Reported ==
    report \in {"imported", "cleanup"} =>
      Archived(disk) /\ mode # "rollback" /\ (mode = "import" => pc = "idle")

Whole == ConfigFollows /\ Cleaning /\ Reported

(* The configuration is what it was once it is put back. *)
LEMMA PutBack ==
  ASSUME TypeOK, Shape, ConfigFollows, pc = "put_back"
  PROVE  /\ ConfigWas(ConfigPutBack)
         /\ ~setup.config => ConfigPutBack.kept = "none"
         /\ ConfigPutBack.target = disk.target /\ ConfigPutBack.marker = disk.marker
<1> USE DEF Shape, Backward, ConfigFollows, ConfigWas, Untouched, TypeOK, Setups, Disks
<1>1. CASE setup.config
  BY <1>1 DEF ConfigPutBack, Renamed, Exists
<1>2. CASE ~setup.config
  BY <1>2 DEF ConfigPutBack, Removed, Exists
<1>3. QED
  BY <1>1, <1>2

(* An operation that succeeds. *)
LEMMA StepKeepsWhole ==
  ASSUME TypeOK, ~spoilt, Shape, Whole, Step
  PROVE  Whole'
<1> USE DEF Whole, ConfigFollows, Cleaning, Reported, ConfigWas, Undone, Clean, Over,
            Shape, Moving, Configuring, Backward, Ending, NoData, DataBack, DataAside,
            ConfigBack, Untouched, Recorded, Archived, Settled, Finalizing,
            TypeOK, Setups, Disks
<1>1. CASE pc = "begin"
  BY <1>1 DEF Step, Done, After, Persisted
<1>2. CASE pc = "move"
  BY <1>2 DEF Step, Done, After, Persisted, Renamed
<1>3. CASE pc = "moved"
  BY <1>3 DEF Step, Done, After, Persisted
<1>4. CASE pc = "install"
  BY <1>4 DEF Step, Done, After, Persisted, Renamed
<1>5. CASE pc = "installed"
  BY <1>5 DEF Step, Done, After, Persisted, ConfigNext, Finalize
<1>6. CASE pc = "keep"
  BY <1>6 DEF Step, Done, After, Persisted, ConfigKept, Exists
<1>7. CASE pc = "stage"
  BY <1>7 DEF Step, Done, After, Persisted, ConfigStaged, ConfigIn
<1>8. CASE pc = "staged"
  BY <1>8 DEF Step, Done, After, Persisted
<1>9. CASE pc = "swap"
  BY <1>9 DEF Step, Done, After, Persisted, Renamed
<1>10. CASE pc = "swapped"
  BY <1>10 DEF Step, Done, After, Persisted, Finalize
<1>11. CASE pc = "put_back"
  <2>1. /\ disk' = ConfigPutBack /\ pc' = "unstage" /\ UNCHANGED <<setup, mode, report>>
    BY <1>11 DEF Step, Done, After
  <2>2. QED
    BY <1>11, <2>1, PutBack
<1>12. CASE pc = "unstage"
  BY <1>12 DEF Step, Done, After, Persisted, Removed, RollBack, Finalize
<1>13. CASE pc = "clear"
  BY <1>13 DEF Step, Done, After, Persisted, Removed
<1>14. CASE pc = "put_old"
  BY <1>14 DEF Step, Done, After, Persisted, Renamed, Finalize
<1>15. CASE pc = "adopt"
  BY <1>15 DEF Step, Done, After, Persisted, Renamed, Finalize
<1>16. CASE pc = "adopted"
  BY <1>16 DEF Step, Done, After, Persisted, ConfigNext, Finalize
<1>17. CASE pc = "drop_old"
  BY <1>17 DEF Step, Done, After, Persisted, Removed
<1>18. CASE pc = "drop_new"
  BY <1>18 DEF Step, Done, After, Persisted, Removed
<1>19. CASE pc = "drop_configs"
  <2> HIDE DEF TypeOK, Setups, Disks
  <2>1. /\ disk' = [disk EXCEPT !.staged = "none", !.kept = "none"]
        /\ pc' = "drop_marker" /\ UNCHANGED <<setup, mode, report>>
    BY <1>19 DEF Step, Done, After
  <2>2. /\ disk'.target = disk.target /\ disk'.old = disk.old
        /\ disk'.config = disk.config /\ disk'.marker = disk.marker
        /\ disk'.kept = "none" /\ disk'.staged = "none"
    BY <2>1, DroppedConfigs DEF TypeOK
  <2>3. QED
    BY <1>19, <2>1, <2>2
<1>20. CASE pc = "drop_marker"
  <2> HIDE DEF TypeOK, Setups, Disks
  <2>1. /\ disk' = Removed("marker") /\ pc' = "idle" /\ UNCHANGED <<setup, mode>>
        /\ report' \in {report, "imported", "failed"}
        /\ report' = "imported" => mode = "import" \/ report = "imported"
    BY <1>20 DEF Step, Done, After
  <2>2. /\ disk'.target = disk.target /\ disk'.old = disk.old
        /\ disk'.config = disk.config /\ disk'.marker = "none"
        /\ disk'.kept = disk.kept /\ disk'.staged = disk.staged
    BY <2>1, RemovedMarker DEF TypeOK
  <2>3. QED
    BY <1>20, <2>1, <2>2
<1>21. pc \in Operations
  BY DEF TypeOK, Step
<1> HIDE DEF Whole, ConfigFollows, Cleaning, Reported, ConfigWas, Undone, Clean, Over,
             Shape, Moving, Configuring, Backward, Ending, NoData, DataBack, DataAside,
             ConfigBack, Untouched, Recorded, Archived, Settled, Finalizing,
             TypeOK, Setups, Disks
<1>22. QED
  BY <1>1, <1>2, <1>3, <1>4, <1>5, <1>6, <1>7, <1>8, <1>9, <1>10, <1>11, <1>12, <1>13,
     <1>14, <1>15, <1>16, <1>17, <1>18, <1>19, <1>20, <1>21 DEF Operations

(* What a process leaves on the disk when it ends in the middle. *)
Leaves(d) ==
    /\ ~setup.external => d.config = "none"
    /\ ~setup.config => d.kept = "none"
    /\ d.target \in {"none", "before"} => ConfigWas(d)
    /\ d.marker = "none" => Over(d) /\ Clean(d)
    /\ report \in {"imported", "cleanup"} \/ (mode = "import" /\ pc \in Finalizing) =>
         Archived(d) /\ mode # "rollback"

LEMMA InterruptedWhole ==
  ASSUME TypeOK, ~spoilt, Shape, Whole, pc # "idle",
         NEW d \in {disk, Done} \cup Torn \cup CutOff, ~Misread(d)
  PROVE  Leaves(d)
<1> USE DEF Leaves, Whole, ConfigFollows, Cleaning, Reported, ConfigWas, Undone, Clean, Over,
            Shape, Moving, Configuring, Backward, Ending, NoData, DataBack, DataAside,
            ConfigBack, Untouched, Recorded, Archived, Settled, Finalizing,
            TypeOK, Setups, Disks, Misread
<1>1. CASE pc = "begin"
  BY <1>1 DEF Done, Torn, CutOff, Persisted
<1>2. CASE pc = "move"
  BY <1>2 DEF Done, Torn, CutOff, Renamed
<1>3. CASE pc = "moved"
  BY <1>3 DEF Done, Torn, CutOff, Persisted
<1>4. CASE pc = "install"
  BY <1>4 DEF Done, Torn, CutOff, Renamed
<1>5. CASE pc = "installed"
  BY <1>5 DEF Done, Torn, CutOff, Persisted
<1>6. CASE pc = "keep"
  BY <1>6 DEF Done, Torn, CutOff, ConfigKept, Exists
<1>7. CASE pc = "stage"
  BY <1>7 DEF Done, Torn, CutOff, ConfigStaged, ConfigIn, Removed
<1>8. CASE pc = "staged"
  BY <1>8 DEF Done, Torn, CutOff, Persisted
<1>9. CASE pc = "swap"
  BY <1>9 DEF Done, Torn, CutOff, Renamed
<1>10. CASE pc = "swapped"
  BY <1>10 DEF Done, Torn, CutOff, Persisted
<1>11. CASE pc = "put_back"
  <2>1. d = disk \/ d = ConfigPutBack
    BY <1>11 DEF Done, Torn, CutOff
  <2>2. QED
    BY <1>11, <2>1, PutBack
<1>12. CASE pc = "unstage"
  BY <1>12 DEF Done, Torn, CutOff, Removed
<1>13. CASE pc = "clear"
  BY <1>13 DEF Done, Torn, CutOff, Removed, TornBy, Exists
<1>14. CASE pc = "put_old"
  BY <1>14 DEF Done, Torn, CutOff, Renamed
<1>15. CASE pc = "adopt"
  BY <1>15 DEF Done, Torn, CutOff, Renamed
<1>16. CASE pc = "adopted"
  BY <1>16 DEF Done, Torn, CutOff, Persisted
<1>17. CASE pc = "drop_old"
  BY <1>17 DEF Done, Torn, CutOff, Removed, TornBy, Exists
<1>18. CASE pc = "drop_new"
  BY <1>18 DEF Done, Torn, CutOff, Removed, TornBy, Exists
<1>19. CASE pc = "drop_configs"
  <2> HIDE DEF TypeOK, Setups, Disks
  <2>1. \/ d = disk \/ d = Removed("staged")
        \/ d = [disk EXCEPT !.staged = "none", !.kept = "none"]
    BY <1>19 DEF Done, Torn, CutOff
  <2>2. /\ d.target = disk.target /\ d.config = disk.config /\ d.marker = disk.marker
        /\ d.kept \in {disk.kept, "none"}
    <3>1. CASE d = disk \/ d = Removed("staged")
      BY <3>1 DEF Removed, TypeOK, Disks
    <3>2. CASE d = [disk EXCEPT !.staged = "none", !.kept = "none"]
      BY <3>2, DroppedConfigs DEF TypeOK
    <3>3. QED
      BY <2>1, <3>1, <3>2
  <2>3. QED
    BY <1>19, <2>2
<1>20. CASE pc = "drop_marker"
  <2> HIDE DEF TypeOK, Setups, Disks
  <2>1. d = disk \/ d = Removed("marker")
    BY <1>20 DEF Done, Torn, CutOff
  <2>2. /\ d.target = disk.target /\ d.old = disk.old /\ d.config = disk.config
        /\ d.kept = disk.kept /\ d.staged = disk.staged
        /\ d.marker \in {disk.marker, "none"}
    BY <2>1, RemovedMarker DEF TypeOK
  <2>3. QED
    BY <1>20, <2>2
<1>21. pc \in Operations
  BY DEF TypeOK
<1> HIDE DEF Leaves, Whole, ConfigFollows, Cleaning, Reported, ConfigWas, Undone, Clean, Over,
             Shape, Moving, Configuring, Backward, Ending, NoData, DataBack, DataAside,
             ConfigBack, Untouched, Recorded, Archived, Settled, Finalizing,
             TypeOK, Setups, Disks, Misread
<1>22. QED
  BY <1>1, <1>2, <1>3, <1>4, <1>5, <1>6, <1>7, <1>8, <1>9, <1>10, <1>11, <1>12, <1>13,
     <1>14, <1>15, <1>16, <1>17, <1>18, <1>19, <1>20, <1>21 DEF Operations

(* What the rollback starts from. *)
Undoable(d) ==
    /\ ~setup.external => d.config = "none"
    /\ ~setup.config => d.kept = "none"
    /\ d.target \in {"none", "before"} => ConfigWas(d)
    /\ setup.config \/ ConfigWas(d) \/ Persisted(pc) \in {"config_prepared", "config_installed"}

LEMMA FailedImportWhole ==
  ASSUME TypeOK, ~spoilt, Shape, Whole, pc \in Operations, mode = "import",
         pc \notin Finalizing \cup {"begin"},
         NEW d \in {disk, Done} \cup Torn
  PROVE  Undoable(d)
<1> USE DEF Undoable, Whole, ConfigFollows, ConfigWas, Shape, Moving, Configuring, Backward,
            Ending, Finalizing, DataAside, Untouched, TypeOK, Setups, Disks, Persisted
<1>1. CASE pc = "move"
  <2>1. d = disk \/ d = Renamed("target", "old")
    BY <1>1 DEF Done, Torn
  <2>2. ConfigWas(disk)
    BY <1>1 DEF DataBack
  <2>3. d.config = disk.config /\ d.kept = disk.kept
    BY <2>1 DEF Renamed
  <2>4. QED
    BY <2>2, <2>3
<1>2. CASE pc = "moved"
  BY <1>2 DEF Done, Torn
<1>3. CASE pc = "install"
  BY <1>3 DEF Done, Torn, Renamed
<1>4. CASE pc = "installed"
  BY <1>4 DEF Done, Torn
<1>5. CASE pc = "keep"
  BY <1>5 DEF Done, Torn, ConfigKept, Exists
<1>6. CASE pc = "stage"
  BY <1>6 DEF Done, Torn, ConfigStaged, ConfigIn, Removed
<1>7. CASE pc = "staged"
  BY <1>7 DEF Done, Torn
<1>8. CASE pc = "swap"
  BY <1>8 DEF Done, Torn, Renamed
<1>9. CASE pc = "swapped"
  BY <1>9 DEF Done, Torn
<1>10. pc \in {"move", "moved", "install", "installed", "keep", "stage",
                "staged", "swap", "swapped"}
  BY DEF Operations
<1> HIDE DEF Undoable, Whole, ConfigFollows, ConfigWas, Shape, Moving, Configuring, Backward,
             Ending, Finalizing, DataAside, Untouched, TypeOK, Setups, Disks, Persisted
<1>11. QED
  BY <1>1, <1>2, <1>3, <1>4, <1>5, <1>6, <1>7, <1>8, <1>9, <1>10

(* An operation that fails: the rollback begins, or the process ends. *)
LEMMA FailKeepsWhole ==
  ASSUME TypeOK, ~spoilt, Shape, Whole, pc \in Operations,
         NEW d \in {disk, Done} \cup Torn, Fails(d), ~spoilt'
  PROVE  Whole'
<1>1. pc # "idle" /\ UNCHANGED setup /\ d \in Disks /\ setup \in Setups
  BY AllDisks DEF Fails, TypeOK, Operations
<1>2. CASE mode = "import" /\ pc \notin Finalizing \cup {"begin"}
  <2>1. Undoing(d) /\ Undoable(d)
    BY <1>2, FailedImport, FailedImportWhole
  <2>2. /\ disk' = d /\ mode' = "rollback" /\ phase' = Persisted(pc) /\ report' = report
        /\ pc' = IF setup.external THEN "put_back" ELSE RollBack(d)
    BY <1>2 DEF Fails
  <2>3. report \notin {"imported", "cleanup"}
    BY <1>1, <1>2 DEF Whole, Reported
  <2>4. ConfigFollows'
    BY <1>1, <2>1, <2>2
       DEF ConfigFollows, ConfigWas, Undoable, Undoing, RollBack, Finalize, Untouched, Setups
  <2>5. Cleaning'
    BY <1>1, <2>1, <2>2
       DEF Cleaning, Clean, Over, Undone, Undoable, Undoing, RollBack, Finalize, Finalizing,
           DataAside, Untouched, ConfigWas, Setups
  <2>6. QED
    BY <2>2, <2>3, <2>4, <2>5 DEF Whole, Reported
<1>3. CASE ~(mode = "import" /\ pc \notin Finalizing \cup {"begin"})
  <2>1. /\ pc' = "idle" /\ disk' \in {d, Workspace(d)} /\ mode' = mode /\ ~Misread(disk')
        /\ report' \in {report, "failed"} \/ (mode = "import" /\ pc \in Finalizing)
    BY <1>3 DEF Fails, Left
  <2>2. ~Misread(d)
    BY <2>1, <1>1 DEF Misread, Workspace, Disks
  <2>3. Leaves(d)
    BY <1>1, <2>2, InterruptedWhole
  <2>4. /\ disk'.target = d.target /\ disk'.config = d.config /\ disk'.old = d.old
        /\ disk'.kept = d.kept /\ disk'.staged = d.staged /\ disk'.marker = d.marker
    BY <1>1, <2>1 DEF Workspace, Disks
  <2>5. QED
    BY <1>1, <2>1, <2>3, <2>4
       DEF Whole, ConfigFollows, Cleaning, Reported, Leaves, ConfigWas, Undone, Clean, Over,
           Archived, Finalizing
<1>4. QED
  BY <1>2, <1>3

LEMMA CrashKeepsWhole ==
  ASSUME TypeOK, ~spoilt, Shape, Whole, Crash, ~spoilt'
  PROVE  Whole'
<1>1. PICK d \in {disk, Done} \cup Torn \cup CutOff : disk' = d
  BY DEF Crash
<1>2. pc # "idle" /\ pc' = "idle" /\ UNCHANGED <<setup, mode, report>> /\ ~Misread(d)
  BY <1>1 DEF Crash, Left, Misread
<1>3. Leaves(d)
  BY <1>2, InterruptedWhole
<1>4. QED
  BY <1>1, <1>2, <1>3
     DEF Whole, ConfigFollows, Cleaning, Reported, Leaves, ConfigWas, Undone, Clean, Over,
         Archived, Finalizing

(* The next backup command. *)
LEMMA RecoverKeepsWhole ==
  ASSUME TypeOK, ~spoilt, Shape, Whole, Recover
  PROVE  Whole'
<1> USE DEF Whole, ConfigFollows, Cleaning, Reported, ConfigWas, Undone, Clean, Over,
            Shape, Resting, NoData, DataBack, DataAside, ConfigBack, Untouched, Archived, Settled,
            Finalizing, Recover, MarkerPhase, Exists, TypeOK, Setups, Disks
<1>1. CASE ~Exists("target") /\ Exists("old")
  BY <1>1
<1>2. CASE Exists("target")
  BY <1>2 DEF ConfigNext, Finalize
<1>3. CASE ~Exists("target") /\ ~Exists("old")
  BY <1>3
<1>4. QED
  BY <1>1, <1>2, <1>3

----------------------------------------------------------------------------
(* Every path holds one of the contents, and the marker one of the phases. *)
THEOREM TypeCorrect == Spec => []TypeOK
<1>1. ASSUME Init PROVE TypeOK
  <2>1. disk \in Disks
    BY <1>1 DEF Init, Disks, Contents
  <2>2. crashes \in 0..MaxCrashes /\ errors \in 0..MaxErrors
    BY <1>1, RestoreBounds DEF Init
  <2>3. QED
    BY <1>1, <2>1, <2>2 DEF Init, TypeOK, RestorePhases, Operations
<1>2. ASSUME TypeOK, [Next]_vars PROVE TypeOK'
  <2>1. CASE Step
    <3>1. pc \in Operations
      BY <1>2, <2>1 DEF Step, TypeOK
    <3>2. Done \in Disks /\ Persisted(pc) \in RestorePhases
      BY <1>2, <3>1, AllDisks, AllPhases
    <3>3. After(Done) \in Operations \cup {"idle"}
      BY <3>1 DEF After, ConfigNext, Finalize, RollBack, Operations
    <3>4. QED
      BY <1>2, <2>1, <3>2, <3>3 DEF Step, TypeOK
  <2>2. ASSUME pc \in Operations, NEW d \in Disks, Fails(d), errors' \in 0..MaxErrors
        PROVE  TypeOK'
    <3>1. Workspace(d) \in Disks
      BY <2>2 DEF Workspace, Disks, Contents
    <3>2. Persisted(pc) \in RestorePhases
      BY <1>2, AllPhases
    <3>3. pc' \in Operations \cup {"idle"}
      BY <2>2 DEF Fails, RollBack, Finalize, Operations
    <3>4. spoilt' \in BOOLEAN
      BY <1>2, <2>2 DEF Fails, Left, TypeOK
    <3>5. disk' \in Disks
      BY <2>2, <3>1 DEF Fails
    <3>6. QED
      BY <1>2, <2>2, <3>2, <3>3, <3>4, <3>5 DEF Fails, TypeOK
  <2>3. CASE Fault
    <3>1. PICK d \in {disk, Done} \cup Torn : Fails(d)
      BY <2>3 DEF Fault
    <3>2. pc \in Operations /\ errors' \in 0..MaxErrors
      BY <1>2, <2>3, RestoreBounds DEF Fault, TypeOK
    <3>3. QED
      BY <1>2, <3>1, <3>2, <2>2, AllDisks
  <2>4. CASE NothingToCopy
    <3>1. Removed("staged") \in Disks
      BY <1>2 DEF Removed, TypeOK, Disks, Contents
    <3>2. pc \in Operations /\ errors' \in 0..MaxErrors
      BY <1>2, <2>4 DEF NothingToCopy, TypeOK
    <3>3. QED
      BY <2>4, <3>1, <3>2, <2>2 DEF NothingToCopy
  <2>5. CASE Crash
    <3>1. pc \in Operations
      BY <1>2, <2>5 DEF Crash, TypeOK
    <3>2. disk' \in Disks
      BY <1>2, <2>5, <3>1, AllDisks DEF Crash
    <3>3. spoilt' \in BOOLEAN /\ crashes' \in 0..MaxCrashes
      BY <1>2, <2>5, RestoreBounds DEF Crash, Left, TypeOK
    <3>4. QED
      BY <1>2, <2>5, <3>2, <3>3 DEF Crash, TypeOK
  <2>6. CASE Recover
    BY <1>2, <2>6 DEF Recover, MarkerPhase, Exists, TypeOK, Disks, Operations, ConfigNext, Finalize
  <2>7. CASE OtherCommand
    <3>1. [disk EXCEPT !.target = "fresh"] \in Disks
      BY <1>2 DEF TypeOK, Disks, Contents
    <3>2. QED
      BY <1>2, <2>7, <3>1 DEF OtherCommand, TypeOK
  <2>8. CASE UNCHANGED vars
    BY <1>2, <2>8 DEF vars, TypeOK
  <2>9. QED
    BY <1>2, <2>1, <2>3, <2>4, <2>5, <2>6, <2>7, <2>8 DEF Next
<1>3. QED
  BY <1>1, <1>2, PTL DEF Spec

LEMMA ShapeAlways == Spec => []IInv
<1>1. Init => IInv
  BY DEF Init, IInv, Shape, Moving, Configuring, Backward, Ending, Finalizing, NoData,
         DataBack, ConfigBack, Untouched, Setups
<1>2. ASSUME TypeOK, IInv, [Next]_vars PROVE IInv'
  <2>1. SUFFICES ASSUME ~spoilt' PROVE Shape'
    BY DEF IInv
  <2>2. CASE UNCHANGED vars
    BY <1>2, <2>1, <2>2
       DEF vars, IInv, Shape, Moving, Configuring, Backward, Ending, Finalizing, Resting,
           NoData, Settled, Archived, DataBack, DataAside, ConfigBack, Untouched, Recorded
  <2>3. CASE Step
    BY <1>2, <2>1, <2>3, StepKeeps DEF Step, IInv
  <2>4. CASE Fault
    <3>1. ~spoilt
      BY <2>1, <2>4 DEF Fault, Fails, Left
    <3>2. QED
      BY <1>2, <2>1, <2>4, <3>1, FaultKeeps DEF IInv
  <2>5. CASE NothingToCopy
    <3>1. ~spoilt
      BY <2>1, <2>5 DEF NothingToCopy, Fails, Left
    <3>2. FALSE
      BY <1>2, <2>5, <3>1 DEF NothingToCopy, CanStage, ConfigIn, IInv, Shape, Configuring
    <3>3. QED
      BY <3>2
  <2>6. CASE Crash
    <3>1. ~spoilt
      BY <2>1, <2>6 DEF Crash, Left
    <3>2. QED
      BY <1>2, <2>1, <2>6, <3>1, CrashKeeps DEF IInv
  <2>7. CASE Recover
    BY <1>2, <2>1, <2>7, RecoverKeeps DEF Recover, IInv
  <2>8. CASE OtherCommand
    BY <2>1, <2>8 DEF OtherCommand
  <2>9. QED
    BY <1>2, <2>2, <2>3, <2>4, <2>5, <2>6, <2>7, <2>8 DEF Next
<1>3. QED
  BY <1>1, <1>2, TypeCorrect, PTL DEF Spec

(* Neither data nor configuration is gone before the archive's are both in *)
(* place, for every number of crashes and failed operations.               *)
THEOREM NothingIsLost == Spec => []NothingLost
<1>1. ASSUME TypeOK, IInv PROVE NothingLost
  BY <1>1 DEF IInv, NothingLost, AsArchived, Shape, Moving, Configuring, Backward, Ending,
              Finalizing, Resting, NoData, Settled, Archived, DataBack, DataAside,
              ConfigBack, Untouched, TypeOK, Setups, Operations
<1>2. QED
  BY <1>1, TypeCorrect, ShapeAlways, PTL

(* Once no marker is left data and configuration belong together and no    *)
(* copy is left, and a success was reported only for the archive's state,  *)
(* for every number of crashes and failed operations.                      *)
THEOREM RestoresAreWhole == Spec => []RestoreIsWhole
<1> DEFINE WInv == ~spoilt => Whole
<1>1. Init => WInv
  BY DEF Init, Whole, ConfigFollows, Cleaning, Reported, ConfigWas, Undone, Clean, Over,
         Finalizing, Setups
<1>2. ASSUME TypeOK, IInv, WInv, [Next]_vars PROVE WInv'
  <2>1. SUFFICES ASSUME ~spoilt' PROVE Whole'
    OBVIOUS
  <2>2. ~spoilt /\ ~OtherCommand
    <3>1. ~OtherCommand
      BY <2>1 DEF OtherCommand
    <3>2. spoilt' = spoilt \/ spoilt' = (spoilt \/ (pc' = "idle" /\ Misread(disk')))
      BY <1>2, <3>1 DEF Next, Step, Fault, NothingToCopy, Crash, Recover, Fails, Left, vars
    <3>3. spoilt \in BOOLEAN
      BY <1>2 DEF TypeOK
    <3>4. QED
      BY <2>1, <3>1, <3>2, <3>3
  <2>3. Shape /\ Whole
    BY <1>2, <2>2 DEF IInv
  <2>4. CASE UNCHANGED vars
    BY <2>3, <2>4 DEF vars, Whole, ConfigFollows, Cleaning, Reported, ConfigWas, Undone, Clean,
                      Over, Archived
  <2>5. CASE Step
    BY <1>2, <2>2, <2>3, <2>5, StepKeepsWhole
  <2>6. CASE Fault
    BY <1>2, <2>1, <2>2, <2>3, <2>6, FailKeepsWhole DEF Fault, TypeOK
  <2>7. CASE NothingToCopy
    BY <2>3, <2>7 DEF NothingToCopy, CanStage, ConfigIn, Shape, Configuring
  <2>8. CASE Crash
    BY <1>2, <2>1, <2>2, <2>3, <2>8, CrashKeepsWhole
  <2>9. CASE Recover
    BY <1>2, <2>2, <2>3, <2>9, RecoverKeepsWhole
  <2>10. QED
    BY <1>2, <2>2, <2>4, <2>5, <2>6, <2>7, <2>8, <2>9 DEF Next
<1>3. ASSUME TypeOK, WInv PROVE RestoreIsWhole
  BY <1>3 DEF RestoreIsWhole, AtRest, Exists, AsBefore, AsArchived, Whole, Cleaning, Reported,
              Over, Undone, ConfigWas, Archived, Clean
<1>4. QED
  BY <1>1, <1>2, <1>3, TypeCorrect, ShapeAlways, PTL DEF Spec

----------------------------------------------------------------------------
(***************************************************************************)
(* What RecoveryEnds rests on besides fairness: a recovery always finds    *)
(* something to go on from, every process ends, whatever fails in it, and  *)
(* one that nothing disturbs removes the marker.                           *)
(***************************************************************************)
(* _recover_interrupted_restore never meets a marker with neither data     *)
(* nor archive beside it, where it gives up, and never data without the    *)
(* config.json that it is about to install.                                *)
RecoveryGoesOn ==
    ~spoilt =>
        /\ pc = "stage" => CanStage
        /\ pc = "idle" /\ Exists("marker") =>
             Exists("target") \/ Exists("old") \/ Exists("replacement")

\* Without data to put back, what the archive brings stays until it is in place.
Source(d) == ~setup.data /\ d.marker # "none" /\ d.target = "none" => d.replacement = "new"

(* No operation, done or cut off, takes the archive's data away.           *)
LEMMA SourceStays ==
  ASSUME TypeOK, Shape, Source(disk), pc \in Operations,
         NEW d \in {disk, Done} \cup Torn \cup CutOff
  PROVE  Source(d)
<1> SUFFICES ASSUME ~setup.data, d.marker # "none", d.target = "none" PROVE d.replacement = "new"
  BY DEF Source
<1>1. pc \notin {"move", "clear", "put_old"}
  BY DEF Shape, Moving, Backward
<1>2. CASE pc \in {"begin", "moved", "installed", "adopted", "staged", "swapped"}
  <2>1. d = disk \/ d = [disk EXCEPT !.marker = Persisted(pc)]
    BY <1>2 DEF Done, Torn, CutOff
  <2>2. d.target = disk.target /\ d.replacement = disk.replacement
    BY <2>1 DEF TypeOK, Disks
  <2>3. CASE pc = "begin"
    BY <2>2, <2>3 DEF Shape, Moving
  <2>4. CASE pc # "begin"
    <3>1. disk.marker # "none"
      BY <1>2, <2>4 DEF Shape, Moving, Configuring, Backward, Recorded
    <3>2. QED
      BY <2>2, <3>1 DEF Source
  <2>5. QED
    BY <2>3, <2>4
<1>3. CASE pc \in {"install", "adopt"}
  <2>1. disk.replacement = "new" /\ disk.target = "none"
    BY <1>3 DEF Shape, Moving, Backward
  <2>2. d = disk \/ d = Renamed("replacement", "target")
    BY <1>3 DEF Done, Torn, CutOff
  <2>3. Renamed("replacement", "target").target = "new"
    BY <2>1 DEF Renamed, TypeOK, Disks
  <2>4. QED
    BY <2>1, <2>2, <2>3
<1>4. CASE pc \in {"keep", "stage", "swap"} \cup Finalizing
  <2>1. disk.target \in {"before", "new"}
    BY <1>4 DEF Shape, Configuring, Ending, Finalizing
  <2>2. d.target = disk.target
    BY <1>4 DEF Done, Torn, CutOff, TornBy, ConfigKept, ConfigStaged, Renamed, Removed, Exists,
                Finalizing, TypeOK, Disks
  <2>3. QED
    BY <2>1, <2>2
<1>5. CASE pc \in {"put_back", "unstage"}
  <2>1. /\ d.target = disk.target /\ d.marker = disk.marker
        /\ d.replacement = disk.replacement
    BY <1>5 DEF Done, Torn, CutOff, ConfigPutBack, Renamed, Removed, Exists, TypeOK, Disks
  <2>2. QED
    BY <2>1 DEF Source
<1>6. QED
  BY <1>1, <1>2, <1>3, <1>4, <1>5 DEF Operations, Finalizing

THEOREM RecoveriesGoOn == Spec => []RecoveryGoesOn
<1> DEFINE SInv == ~spoilt => Source(disk)
<1>1. Init => SInv
  BY DEF Init, Source
<1>2. ASSUME TypeOK, IInv, SInv, [Next]_vars PROVE SInv'
  <2>1. SUFFICES ASSUME ~spoilt' PROVE Source(disk)'
    OBVIOUS
  <2>2. ~spoilt /\ ~OtherCommand /\ setup' = setup
    <3>1. ~OtherCommand
      BY <2>1 DEF OtherCommand
    <3>2. spoilt' = spoilt \/ spoilt' = (spoilt \/ (pc' = "idle" /\ Misread(disk')))
      BY <1>2, <3>1 DEF Next, Step, Fault, NothingToCopy, Crash, Recover, Fails, Left, vars
    <3>3. setup' = setup
      BY <1>2, <3>1 DEF Next, Step, Fault, NothingToCopy, Crash, Recover, Fails, vars
    <3>4. spoilt \in BOOLEAN
      BY <1>2 DEF TypeOK
    <3>5. QED
      BY <2>1, <3>1, <3>2, <3>3, <3>4
  <2>3. Shape /\ Source(disk)
    BY <1>2, <2>2 DEF IInv
  <2>4. CASE disk' = disk
    BY <2>2, <2>3, <2>4 DEF Source
  <2>5. ASSUME pc \in Operations, NEW d \in {disk, Done} \cup Torn \cup CutOff,
               disk' = d \/ disk' = Workspace(d)
        PROVE  Source(disk)'
    <3>1. Source(d)
      BY <1>2, <2>3, <2>5, SourceStays
    <3>2. Workspace(d).marker = "none" \/ Workspace(d) = d
      <4>1. d \in Disks
        BY <1>2, <2>5, AllDisks
      <4>2. QED
        BY <4>1 DEF Workspace, Disks
    <3>4. QED
      BY <2>2, <2>5, <3>1, <3>2 DEF Source
  <2>6. CASE Step
    BY <1>2, <2>5, <2>6 DEF Step, TypeOK
  <2>7. CASE Fault
    <3>1. PICK d \in {disk, Done} \cup Torn : Fails(d)
      BY <2>7 DEF Fault
    <3>2. pc \in Operations /\ (disk' = d \/ disk' = Workspace(d))
      BY <1>2, <2>7, <3>1 DEF Fault, Fails, TypeOK
    <3>3. QED
      BY <2>5, <3>1, <3>2
  <2>8. CASE NothingToCopy
    BY <2>3, <2>8 DEF NothingToCopy, CanStage, ConfigIn, Shape, Configuring
  <2>9. CASE Crash
    BY <1>2, <2>5, <2>9 DEF Crash, TypeOK
  <2>10. CASE Recover \/ UNCHANGED vars
    BY <2>4, <2>10 DEF Recover, vars
  <2>11. QED
    BY <1>2, <2>2, <2>6, <2>7, <2>8, <2>9, <2>10 DEF Next
<1>3. ASSUME TypeOK, IInv, SInv PROVE RecoveryGoesOn
  <2>1. SUFFICES ASSUME ~spoilt PROVE RecoveryGoesOn
    BY DEF RecoveryGoesOn
  <2>2. Shape /\ Source(disk)
    BY <1>3, <2>1 DEF IInv
  <2>3. pc = "stage" => CanStage
    BY <2>2 DEF Shape, Configuring, CanStage, ConfigIn
  <2>4. ASSUME pc = "idle", disk.marker # "none", disk.target = "none", disk.old = "none"
        PROVE  disk.replacement # "none"
    <3>1. ~setup.data
      BY <2>2, <2>4 DEF Shape, Resting, DataAside
    <3>2. QED
      BY <2>2, <2>4, <3>1 DEF Source
  <2>5. QED
    BY <2>3, <2>4 DEF RecoveryGoesOn, Exists
<1>4. QED
  BY <1>1, <1>2, <1>3, TypeCorrect, ShapeAlways, PTL DEF Spec

----------------------------------------------------------------------------
\* How many operations follow one at most, if none fails.
Follow(op) ==
    CASE op = "begin"                     -> 14
      [] op \in {"move", "put_back"}      -> 13
      [] op \in {"moved", "unstage"}      -> 12
      [] op \in {"install", "adopt"}      -> 11
      [] op \in {"installed", "adopted"}  -> 10
      [] op = "keep"                      -> 9
      [] op = "stage"                     -> 8
      [] op = "staged"                    -> 7
      [] op \in {"swap", "clear"}         -> 6
      [] op \in {"swapped", "put_old"}    -> 5
      [] op = "drop_old"                  -> 4
      [] op = "drop_new"                  -> 3
      [] op = "drop_configs"              -> 2
      [] op = "drop_marker"               -> 1
      [] OTHER                            -> 0

\* An import may have its rollback before it.
Remaining == Follow(pc) + (IF mode = "import" /\ pc # "idle" THEN 15 ELSE 0)

(* Every process ends: each operation, whether it succeeds, fails or is    *)
(* cut off, leaves fewer to do.  An operation that fails may start the     *)
(* rollback, but the rollback does not start another.                      *)
ProcessEnds ==
    [][pc # "idle" => Remaining \in Nat /\ Remaining' \in Nat /\ Remaining' < Remaining]_vars

LEMMA FollowOf ==
  /\ Follow("begin") = 14 /\ Follow("move") = 13 /\ Follow("put_back") = 13
  /\ Follow("moved") = 12 /\ Follow("unstage") = 12 /\ Follow("install") = 11
  /\ Follow("adopt") = 11 /\ Follow("installed") = 10 /\ Follow("adopted") = 10
  /\ Follow("keep") = 9 /\ Follow("stage") = 8 /\ Follow("staged") = 7
  /\ Follow("swap") = 6 /\ Follow("clear") = 6 /\ Follow("swapped") = 5
  /\ Follow("put_old") = 5 /\ Follow("drop_old") = 4 /\ Follow("drop_new") = 3
  /\ Follow("drop_configs") = 2 /\ Follow("drop_marker") = 1 /\ Follow("idle") = 0
BY DEF Follow

(* An operation that succeeds is followed by one nearer to the end.        *)
LEMMA NearerEnd ==
  ASSUME pc \in Operations, NEW d
  PROVE  Follow(After(d)) < Follow(pc)
<1> USE FollowOf
<1>1. Finalize(d) \in {"drop_old", "drop_new"}
  BY DEF Finalize
<1>2. ConfigNext(d) \in {"keep", "drop_old", "drop_new"}
  BY <1>1 DEF ConfigNext
<1>3. RollBack(d) \in {"clear", "put_old", "adopt", "drop_old", "drop_new", "idle"}
  BY <1>1 DEF RollBack
<1>4. CASE pc \in {"begin", "move", "moved", "install", "keep", "stage"}
  BY <1>4 DEF After
<1>5. CASE pc \in {"staged", "swap", "clear", "put_back"}
  BY <1>5 DEF After
<1>6. CASE pc \in {"drop_old", "drop_new", "drop_configs", "drop_marker"}
  BY <1>6 DEF After
<1>7. CASE pc \in {"installed", "adopted"}
  <2>1. After(d) = ConfigNext(d)
    BY <1>7 DEF After
  <2>2. QED
    BY <1>2, <1>7, <2>1
<1>8. CASE pc \in {"swapped", "put_old"}
  <2>1. After(d) = Finalize(d)
    BY <1>8 DEF After
  <2>2. QED
    BY <1>1, <1>8, <2>1
<1>9. CASE pc = "adopt"
  <2>1. After(d) \in {"adopted", Finalize(d)}
    BY <1>9 DEF After
  <2>2. QED
    BY <1>1, <1>9, <2>1
<1>10. CASE pc = "unstage"
  <2>1. After(d) \in {"put_old", RollBack(d)}
    BY <1>10 DEF After
  <2>2. QED
    BY <1>3, <1>10, <2>1
<1>11. QED
  BY <1>4, <1>5, <1>6, <1>7, <1>8, <1>9, <1>10 DEF Operations

THEOREM ProcessesEnd == Spec => ProcessEnds
<1>1. \A op : Follow(op) \in 0 .. 14
  BY DEF Follow
<1>2. \A op \in Operations : Follow(op) > 0
  BY DEF Follow, Operations
<1>3. Follow("idle") = 0
  BY DEF Follow
<1>4. ASSUME TypeOK, [Next]_vars
      PROVE  [pc # "idle" => Remaining \in Nat /\ Remaining' \in Nat /\ Remaining' < Remaining]_vars
  <2>1. SUFFICES ASSUME Next, pc # "idle" PROVE Remaining' < Remaining
    BY <1>1, <1>4 DEF Remaining
  <2>2. pc \in Operations /\ Follow(pc) > 0
    BY <1>2, <1>4, <2>1 DEF TypeOK
  <2>3. CASE pc' = "idle"
    BY <2>2, <2>3, <1>1, <1>3 DEF Remaining
  <2>4. CASE Step
    <3>1. pc' = After(Done) /\ mode' = mode
      BY <2>4 DEF Step
    <3>2. Follow(pc') < Follow(pc)
      BY <2>2, <3>1, NearerEnd
    <3>3. QED
      BY <2>1, <3>1, <3>2, <1>1, <1>3 DEF Remaining
  <2>5. ASSUME NEW d, Fails(d) PROVE Remaining' < Remaining
    <3>1. CASE mode = "import" /\ pc \notin Finalizing \cup {"begin"}
      <4>1. mode' = "rollback"
        BY <2>5, <3>1 DEF Fails
      <4>2. QED
        BY <2>1, <3>1, <4>1, <1>1, <1>2, <2>2 DEF Remaining
    <3>2. CASE ~(mode = "import" /\ pc \notin Finalizing \cup {"begin"})
      BY <2>3, <2>5, <3>2 DEF Fails
    <3>3. QED
      BY <3>1, <3>2
  <2>6. CASE Fault \/ NothingToCopy
    BY <2>5, <2>6 DEF Fault, NothingToCopy
  <2>7. CASE Crash
    BY <2>3, <2>7 DEF Crash
  <2>8. QED
    BY <2>1, <2>4, <2>6, <2>7 DEF Next, Recover, OtherCommand
<1>5. QED
  BY <1>4, TypeCorrect, PTL DEF Spec, ProcessEnds

(* A process in which nothing fails and that nobody kills ends with the    *)
(* marker gone: the transaction is over.                                   *)
UndisturbedEndsClean ==
    [][pc # "idle" /\ pc' = "idle" /\ UNCHANGED <<crashes, errors>>
         => spoilt' \/ ~Exists("marker")']_vars

THEOREM UndisturbedProcessesEndClean == Spec => UndisturbedEndsClean
<1>1. ASSUME TypeOK, RecoveryGoesOn, IInv, [Next]_vars
      PROVE  [pc # "idle" /\ pc' = "idle" /\ UNCHANGED <<crashes, errors>>
                => spoilt' \/ ~Exists("marker")']_vars
  <2>1. SUFFICES ASSUME Next, pc # "idle", pc' = "idle", UNCHANGED <<crashes, errors>>, ~spoilt'
                 PROVE  disk'.marker = "none"
    BY <1>1 DEF Exists
  <2>2. Step \/ NothingToCopy
    BY <1>1, <2>1 DEF Next, Fault, Crash, Recover, OtherCommand, TypeOK
  <2>3. ~spoilt
    BY <2>1, <2>2 DEF Step, NothingToCopy, Fails, Left
  <2>4. Step /\ Shape
    BY <1>1, <2>2, <2>3 DEF NothingToCopy, RecoveryGoesOn, IInv
  <2>5. pc \in Operations /\ After(Done) = "idle" /\ disk' = Done
    BY <1>1, <2>1, <2>4 DEF Step, TypeOK
  <2>6. CASE pc = "drop_marker"
    BY <1>1, <2>5, <2>6 DEF Done, Removed, TypeOK, Disks
  <2>7. CASE pc = "unstage"
    <3>1. Done.target = disk.target /\ Done.old = disk.old /\ Done.replacement = disk.replacement
      BY <1>1, <2>7 DEF Done, Removed, TypeOK, Disks
    <3>2. disk.target = "none" /\ disk.old = "none" /\ disk.replacement = "none"
      BY <2>5, <2>7, <3>1 DEF After, RollBack, Finalize
    <3>3. QED
      BY <2>4, <2>7, <3>2 DEF Shape, Backward, DataAside
  <2>8. pc \in {"drop_marker", "unstage"}
    BY <2>5 DEF After, Finalize, ConfigNext, RollBack, Operations
  <2>9. QED
    BY <2>6, <2>7, <2>8
<1>2. QED
  BY <1>1, TypeCorrect, RecoveriesGoOn, ShapeAlways, PTL DEF Spec, UndisturbedEndsClean
====
