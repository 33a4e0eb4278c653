---- MODULE Restore ----
(***************************************************************************)
(* The import of a backup (backup/archive.py): BackupManager moves the     *)
(* data directory aside, renames the extracted replacement into its place, *)
(* copies the new configuration over a configuration file that lives       *)
(* outside the data directory, and removes what is left over.  A marker    *)
(* file beside the data directory says how far it got.  An OSError rolls   *)
(* the import back; a crash leaves the marker, and the next backup command *)
(* reads it and goes on or back.                                           *)
(*                                                                         *)
(* A step is one operation on the file system with the fsync that follows  *)
(* it, so that a crash of the process and a loss of power are the same.    *)
(* An operation that fails may have taken effect or not.  The contents of  *)
(* a path are what the properties tell apart: what was there before the    *)
(* import, what the archive brings, or the remains of an operation that    *)
(* was cut off.                                                            *)
(***************************************************************************)
EXTENDS Naturals

CONSTANTS
    MaxCrashes,     \* bound: crashes in a behaviour
    MaxErrors       \* bound: operations that fail with an OSError

ASSUME RestoreBounds == MaxCrashes \in Nat /\ MaxErrors \in Nat

VARIABLES
    setup,      \* what the machine looked like before the import
    disk,       \* what every path of the transaction holds, "none" if nothing
    phase,      \* transaction.phase of the running process
    mode,       \* which of import, rollback and recovery is running
    pc,         \* the operation it does next, "idle" when no process runs
    spoilt,     \* history: a process left a disk the marker does not describe
    report,     \* what the import told its user
    crashes, errors

vars == <<setup, disk, phase, mode, pc, spoilt, report, crashes, errors>>

RestorePhases == {"prepared", "old_moved", "data_installed",
                  "config_prepared", "config_installed"}

\* target: the data directory; old: the directory it was moved to; config:
\* the external configuration file; kept and staged: old_config, staged_config.
Setups == { s \in [data : BOOLEAN, external : BOOLEAN, config : BOOLEAN, inner : BOOLEAN] :
              /\ s.config => s.external
              /\ s.inner  => s.data }

Contents == {"none", "before", "inner", "new", "fresh", "torn", "hollow", "part"}

Operations ==
    {"begin", "move", "moved", "install", "installed",
     "keep", "stage", "staged", "swap", "swapped",
     "put_back", "unstage", "clear", "put_old", "adopt", "adopted",
     "drop_old", "drop_new", "drop_configs", "drop_marker"}

Disks == [target : Contents, old : Contents, replacement : Contents,
          config : Contents, kept : Contents, staged : Contents,
          marker : {"none"} \cup RestorePhases]

\* Every path holds one of the contents, the marker one of the phases.
TypeOK ==
    /\ setup \in Setups
    /\ disk \in Disks
    /\ phase \in RestorePhases
    /\ mode \in {"import", "rollback", "recover"}
    /\ pc \in Operations \cup {"idle"}
    /\ spoilt \in BOOLEAN
    /\ report \in {"none", "imported", "failed", "cleanup"}
    /\ crashes \in 0..MaxCrashes
    /\ errors \in 0..MaxErrors

Exists(path) == disk[path] # "none"

(* config.json of a data directory: the archive brings one, the old data   *)
(* may have one although the configuration in use is another file.         *)
ConfigIn(content) ==
    CASE content = "new"                   -> "new"
      [] content = "before" /\ setup.inner -> "inner"
      [] content = "torn"                  -> "torn"
      [] OTHER                             -> "none"

----------------------------------------------------------------------------
(* The operations: what each leaves on the disk.                           *)

Renamed(from, to) == [disk EXCEPT ![to] = disk[from], ![from] = "none"]
Removed(path)     == [disk EXCEPT ![path] = "none"]

\* _persist_restore_transaction: the phase the marker gets.
Persisted(at) ==
    CASE at = "begin"                  -> "prepared"
      [] at = "moved"                  -> "old_moved"
      [] at \in {"installed", "adopted"} -> "data_installed"
      [] at = "staged"                 -> "config_prepared"
      [] at = "swapped"                -> "config_installed"
      [] OTHER                         -> phase

\* Mutant: the new file goes only once its installation is recorded.
ConfigPutBackLate ==
    IF Exists("kept") THEN Renamed("kept", "config")
    ELSE IF ~setup.config /\ phase = "config_installed" THEN Removed("config")
         ELSE disk

\* _restore_external_config: the copy goes back, or what was not there goes.
ConfigPutBack ==
    IF Exists("kept") THEN Renamed("kept", "config")
    ELSE IF ~setup.config /\ phase \in {"config_prepared", "config_installed"}
         THEN Removed("config")
         ELSE disk

\* _install_external_config keeps a copy of a file that was there, once.
ConfigKept ==
    IF setup.config /\ ~Exists("kept") THEN [disk EXCEPT !.kept = disk.config] ELSE disk

\* A staged copy that is left over is unlinked; config.json must be there.
CanStage == ConfigIn(disk.target) # "none"
ConfigStaged == [disk EXCEPT !.staged = ConfigIn(disk.target)]

\* What the operation at hand leaves when it succeeds.
Done ==
    CASE pc \in {"begin", "moved", "installed", "adopted", "staged", "swapped"}
                              -> [disk EXCEPT !.marker = Persisted(pc)]
      [] pc = "move"          -> Renamed("target", "old")
      [] pc \in {"install", "adopt"} -> Renamed("replacement", "target")
      [] pc = "keep"          -> ConfigKept
      [] pc = "stage"         -> ConfigStaged
      [] pc = "swap"          -> Renamed("staged", "config")
      [] pc = "put_back"      -> ConfigPutBack
      [] pc = "unstage"       -> Removed("staged")
      [] pc = "clear"         -> Removed("target")
      [] pc = "put_old"       -> Renamed("old", "target")
      [] pc = "drop_old"      -> Removed("old")
      [] pc = "drop_new"      -> Removed("replacement")
      [] pc = "drop_configs"  -> [disk EXCEPT !.staged = "none", !.kept = "none"]
      [] pc = "drop_marker"   -> Removed("marker")

\* shutil.rmtree stops in the middle; config.json may or may not be gone.
TornBy(path) ==
    IF ~Exists(path) THEN {}
    ELSE {[disk EXCEPT ![path] = "torn"]}
         \cup (IF path = "target" THEN {[disk EXCEPT ![path] = "hollow"]} ELSE {})

\* What else the operation at hand may leave when it fails.
Torn ==
    CASE pc = "clear"        -> TornBy("target")
      [] pc = "drop_old"     -> TornBy("old")
      [] pc = "drop_new"     -> TornBy("replacement")
      [] pc = "drop_configs" -> {Removed("staged")}
      [] pc = "stage"        -> {Removed("staged")}
      [] OTHER               -> {}

\* A copy that a crash cuts off stays; one that fails is unlinked.
CutOff ==
    CASE pc = "keep"  -> IF ConfigKept = disk THEN {} ELSE {[disk EXCEPT !.kept = "part"]}
      [] pc = "stage" -> {[disk EXCEPT !.staged = "part"]}
      [] OTHER        -> {}

----------------------------------------------------------------------------
(* The order of the operations.                                            *)

\* _finalize_restore_transaction, _install_external_config: their first steps.
Finalize(d) == IF d.old # "none" THEN "drop_old" ELSE "drop_new"
ConfigNext(d) == IF setup.external THEN "keep" ELSE Finalize(d)

\* Mutant: a data directory that is there is taken for the old one.
RollBackInPlace(d) ==
    IF d.target # "none" THEN Finalize(d)
    ELSE IF d.old # "none" THEN "put_old" ELSE "adopt"

\* _rollback_restore_transaction after the configuration is back.
RollBack(d) ==
    IF d.old # "none" THEN IF d.target # "none" THEN "clear" ELSE "put_old"
    ELSE IF d.target = "none" /\ d.replacement # "none" THEN "adopt"
    ELSE IF d.target # "none" THEN Finalize(d)
    ELSE "idle"

\* The operation after the one at hand, which left the disk d.
After(d) ==
    CASE pc = "begin"         -> IF setup.data THEN "move" ELSE "moved"
      [] pc = "move"          -> "moved"
      [] pc = "moved"         -> "install"
      [] pc = "install"       -> "installed"
      [] pc = "installed"     -> ConfigNext(d)
      [] pc = "keep"          -> "stage"
      [] pc = "stage"         -> "staged"
      [] pc = "staged"        -> "swap"
      [] pc = "swap"          -> "swapped"
      [] pc = "swapped"       -> Finalize(d)
      [] pc = "put_back"      -> "unstage"
      [] pc = "unstage"       -> IF mode = "recover" THEN "put_old" ELSE RollBack(d)
      [] pc = "clear"         -> "put_old"
      [] pc = "put_old"       -> Finalize(d)
      [] pc = "adopt"         -> IF mode = "recover" THEN "adopted" ELSE Finalize(d)
      [] pc = "adopted"       -> ConfigNext(d)
      [] pc = "drop_old"      -> "drop_new"
      [] pc = "drop_new"      -> "drop_configs"
      [] pc = "drop_configs"  -> "drop_marker"
      [] pc = "drop_marker"   -> "idle"

(* What the next recovery mistakes for something else: the remains of a    *)
(* directory that was being removed, or a new one, for the import's; the   *)
(* old data back in its place for the import's, whose config.json it then  *)
(* installs; the import's for data that was never moved.                   *)
Misread(d) ==
    \/ d.target \in {"torn", "hollow", "fresh"}
    \/ setup.external /\ d.target = "before" /\ d.marker \notin {"none", "prepared"}
    \/ setup.external /\ d.target = "new" /\ d.marker = "prepared"

\* The process ends: what it leaves is what the next one reads.
Left == spoilt' = (spoilt \/ (pc' = "idle" /\ Misread(disk')))

Finalizing == {"drop_old", "drop_new", "drop_configs", "drop_marker"}

----------------------------------------------------------------------------
Init ==
    /\ setup \in Setups
    /\ disk = [target |-> IF setup.data THEN "before" ELSE "none", old |-> "none",
               replacement |-> "new",
               config |-> IF setup.config THEN "before" ELSE "none",
               kept |-> "none", staged |-> "none", marker |-> "none"]
    /\ phase = "prepared" /\ mode = "import" /\ pc = "begin"
    /\ spoilt = FALSE /\ report = "none"
    /\ crashes = 0 /\ errors = 0

\* The operation at hand succeeds; config.json must be there to be copied.
Step ==
    /\ pc # "idle"
    /\ pc = "stage" => CanStage
    /\ disk' = Done
    /\ phase' = Persisted(pc)
    /\ pc' = After(Done)
    /\ report' = IF pc' # "idle" \/ mode = "recover" THEN report
                 ELSE IF mode = "import" THEN "imported" ELSE "failed"
    /\ UNCHANGED <<setup, mode, spoilt, crashes, errors>>

\* Mutant: the workspace of an import goes however it ends.
WorkspaceGone(d) == [d EXCEPT !.replacement = "none"]

\* The end of import_archive: the workspace stays if a recovery may need it.
Workspace(d) == IF d.marker = "none" THEN [d EXCEPT !.replacement = "none"] ELSE d

(* An OSError.  While the import installs, the rollback begins; before the *)
(* first marker and in every other mode the process ends.                  *)
Fails(d) ==
    /\ phase' = Persisted(pc)
    /\ IF mode = "import" /\ pc \notin Finalizing \cup {"begin"}
       THEN /\ mode' = "rollback"
            /\ pc' = IF setup.external THEN "put_back" ELSE RollBack(d)
            /\ disk' = d
            /\ UNCHANGED report
       ELSE /\ pc' = "idle"
            /\ disk' = IF mode = "recover" THEN d ELSE Workspace(d)
            /\ report' = IF mode = "recover" THEN report
                         ELSE IF mode = "import" /\ pc \in Finalizing THEN "cleanup"
                         ELSE "failed"
            /\ UNCHANGED mode
    /\ Left
    /\ UNCHANGED <<setup, crashes>>

\* Any operation may fail, with its effect, without it or in the middle.
Fault ==
    /\ pc # "idle" /\ errors < MaxErrors
    /\ errors' = errors + 1
    /\ \E d \in {disk} \cup Torn \cup (IF pc = "stage" THEN {} ELSE {Done}) : Fails(d)

\* _copy_file_durable: there is no config.json in the data directory.
NothingToCopy ==
    /\ pc = "stage" /\ ~CanStage
    /\ Fails(Removed("staged"))
    /\ UNCHANGED errors

\* The process is killed, or the power goes.
Crash ==
    /\ pc # "idle" /\ crashes < MaxCrashes
    /\ crashes' = crashes + 1
    /\ disk' \in {disk, Done} \cup Torn \cup CutOff
    /\ pc' = "idle"
    /\ Left
    /\ UNCHANGED <<setup, phase, mode, report, errors>>

\* _read_restore_transaction: the marker is the one an import has written.
MarkerPhase == disk.marker

(* The next backup command: BackupManager.__init__ reads the marker and    *)
(* decides on what it finds.                                               *)
Recover ==
    /\ pc = "idle" /\ Exists("marker")
    /\ mode' = "recover" /\ phase' = MarkerPhase
    /\ \/ ~Exists("target") /\ Exists("old")
          /\ pc' = IF setup.external THEN "put_back" ELSE "put_old"
       \/ Exists("target")
          /\ pc' = IF MarkerPhase # "prepared" THEN ConfigNext(disk) ELSE Finalize(disk)
       \/ ~Exists("target") /\ ~Exists("old") /\ Exists("replacement")
          /\ pc' = "adopt"
    /\ UNCHANGED <<setup, disk, spoilt, report, crashes, errors>>

(* Every other command, the daemon too, takes no notice of the marker and  *)
(* makes the data directory it does not find.                              *)
OtherCommand ==
    /\ pc = "idle" /\ Exists("marker") /\ ~Exists("target")
    /\ disk' = [disk EXCEPT !.target = "fresh"]
    /\ spoilt' = TRUE
    /\ UNCHANGED <<setup, phase, mode, pc, report, crashes, errors>>

Next == Step \/ Fault \/ NothingToCopy \/ Crash \/ Recover \/ OtherCommand

(* A process goes on until it ends.  Recovery is run by whoever gives the  *)
(* next backup command; that someone does is the reader's assumption.      *)
Spec == Init /\ [][Next]_vars /\ WF_vars(Step \/ NothingToCopy) /\ WF_vars(Recover)

----------------------------------------------------------------------------
(* Properties.                                                             *)

AsBefore ==
    /\ disk.target = (IF setup.data THEN "before" ELSE "none")
    /\ disk.config = (IF setup.config THEN "before" ELSE "none")

AsArchived ==
    /\ disk.target = "new"
    /\ setup.external => disk.config = "new"

AtRest == pc = "idle" /\ ~Exists("marker")

(* Neither the data nor the configuration of the user is gone before the   *)
(* archive's data and configuration are both in place, whatever operation  *)
(* failed or was cut off, in the import, its rollback or any recovery:     *)
(* _finalize_restore_transaction is reached only then, or once what was    *)
(* there is back.                                                          *)
NothingLost ==
    ~spoilt =>
        /\ setup.data => "before" \in {disk.target, disk.old} \/ AsArchived
        /\ setup.config => "before" \in {disk.config, disk.kept} \/ AsArchived

(* Once no marker is left, data and configuration belong together: both    *)
(* are the archive's, or both are what they were, and the copies made on   *)
(* the way are gone.  An import that reports success has installed both;   *)
(* one that was rolled back has installed neither.  The exception is the   *)
(* code's: with no data to put back, _rollback_restore_transaction keeps   *)
(* or even installs the archive's data and restores the configuration.     *)
RestoreIsWhole ==
    ~spoilt =>
        /\ report \in {"imported", "cleanup"} => AsArchived
        /\ AtRest =>
            /\ \/ AsBefore
               \/ AsArchived /\ mode # "rollback"
               \/ mode = "rollback" /\ ~setup.data
            /\ {disk.old, disk.kept, disk.staged} = {"none"}

(* An interrupted import does not stay interrupted: backup commands end    *)
(* with the marker gone, however often they are cut off themselves.        *)
RecoveryEnds == Exists("marker") ~> (~Exists("marker") \/ spoilt)
====
