---------------------------- MODULE StepOutcome ----------------------------
(***************************************************************************)
(* What the journal promises about steps, without workers, leases, clocks  *)
(* or receipts: a planned step is granted to somebody, the grant ends in a *)
(* result or is lost, and a lost grant of a step whose effect must not be  *)
(* repeated leaves the step in doubt.  Module Journal implements this.     *)
(***************************************************************************)
EXTENDS Integers

CONSTANTS
  Steps,
  Unsafe    \* the steps whose effect must not be repeated, a subset of Steps

VARIABLES outcome, grants

vars == <<outcome, grants>>

Results == {"committed", "failed", "cancelled"}

Init ==
  /\ outcome = [s \in Steps |-> "absent"]
  /\ grants  = [s \in Steps |-> 0]

Becomes(s, from, to) ==
  /\ outcome[s] \in from
  /\ outcome' = [outcome EXCEPT ![s] = to]

Plan(s) == Becomes(s, {"absent"}, "open") /\ UNCHANGED grants

Grant(s) ==
  /\ Becomes(s, {"open"}, "granted")
  /\ grants' = [grants EXCEPT ![s] = @ + 1]

\* The grantee reports a result, or that it cannot tell.
Settle(s) ==
  /\ \E result \in {"committed", "failed", "in_doubt"} : Becomes(s, {"granted"}, result)
  /\ UNCHANGED grants

Withdraw(s) ==
  /\ Becomes(s, {"open", "granted", "in_doubt"}, "cancelled")
  /\ UNCHANGED grants

\* The grantees of the steps in lost are given up together.
Lose(lost) ==
  /\ \A s \in lost : outcome[s] = "granted"
  /\ outcome' = [s \in Steps |-> IF s \notin lost THEN outcome[s]
                                 ELSE IF s \in Unsafe THEN "in_doubt" ELSE "open"]
  /\ UNCHANGED grants

Next ==
  \/ \E s \in Steps : Plan(s) \/ Grant(s) \/ Settle(s) \/ Withdraw(s)
  \/ \E lost \in SUBSET Steps : Lose(lost)

Spec == Init /\ [][Next]_vars
=============================================================================
