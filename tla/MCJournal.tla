----------------------------- MODULE MCJournal -----------------------------
(***************************************************************************)
(* TLC instance of Journal: two runs that compete for an external key; one *)
(* has a repeatable and a one-shot step, shared by two workers.            *)
(***************************************************************************)
EXTENDS Journal

CONSTANTS r1, s1

MCStepRun  == [s \in Steps |-> r1]
MCSafety   == [s \in Steps |-> IF s = s1 THEN "read_only" ELSE "opaque_side_effect"]
MCSequence == [s \in Steps |-> IF s = s1 THEN 0 ELSE 1]
=============================================================================
