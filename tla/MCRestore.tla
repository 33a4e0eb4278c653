---- MODULE MCRestore ----
(* One import on every machine there is, cut off and failing up to three   *)
(* times each.                                                             *)
EXTENDS Restore
====
