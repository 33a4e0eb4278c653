---------------------------- MODULE MCScheduler -----------------------------
(***************************************************************************)
(* TLC instances of Scheduler.                                             *)
(***************************************************************************)
EXTENDS Scheduler, TLC

Rule(kind, start, every, policy, count, delivers) ==
  [kind |-> kind, start |-> start, every |-> every, policy |-> policy, count |-> count,
   grace |-> 0, delivers |-> delivers]

\* One occurrence with delivery.
Once == 1 :> Rule("once", 0, 1, "fire_once", 1, TRUE)

\* Due together: a one-time job, and an interval that catches up with two.
OnceAndInterval ==
  (1 :> Rule("once", 1, 1, "fire_once", 1, FALSE)) @@
  (2 :> Rule("interval", 0, 1, "bounded", 2, FALSE))
=============================================================================
