------------------------------ MODULE MCLedger ------------------------------
(***************************************************************************)
(* TLC instance of Ledger: two runs share the reservation ids; one has a   *)
(* limit on calls and tokens, the other none on tokens.                    *)
(***************************************************************************)
EXTENDS Ledger

CONSTANTS r1, r2

MCLimit ==
  [r \in Runs |-> [x \in Resources |-> IF x = "calls" THEN 2 ELSE IF r = r1 THEN 3 ELSE Unlimited]]
MCAmounts == {[calls |-> 1, tokens |-> n] : n \in 1..2}
MCActuals == {[calls |-> 1, tokens |-> n] : n \in {0, 1, 3}}
=============================================================================
