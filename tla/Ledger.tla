------------------------------- MODULE Ledger -------------------------------
(***************************************************************************)
(* The accounting half of the journal: provider calls and the budget of a  *)
(* run, reserved before a call and settled after it.                       *)
(*                                                                         *)
(* The rows live in the same database as those of module Journal and each  *)
(* operation is one transaction.  As there, a call that raises is a        *)
(* stuttering step; so is a repeated call that the code answers from the   *)
(* stored row (ReserveRepeats, SettleRepeats).                             *)
(***************************************************************************)
EXTENDS Integers, FiniteSets

CONSTANTS
  Runs, Steps,     \* existing run rows and step rows
  Calls,           \* provider call ids
  Reservations,    \* budget reservation ids, unique across runs
  Resources,       \* calls, tokens, micro_usd, wall_seconds
  Limit,           \* the budget limits of each run
  Amounts,         \* amounts that callers reserve
  Actuals,         \* amounts that callers settle
  Unlimited,       \* a NULL limit
  None

ASSUME LedgerAssumption ==
  /\ Unlimited \notin Nat
  /\ Limit \in [Runs -> [Resources -> Nat \cup {Unlimited}]]
  /\ Amounts \subseteq [Resources -> Nat]
  /\ Actuals \subseteq [Resources -> Nat]
  /\ None \notin Runs \cup Steps

VARIABLES
  callStatus,   \* provider_calls.status; "absent" before the row exists
  callStep,     \* provider_calls.step_id
  resStatus,    \* budget_reservations.status; "absent" before the row exists
  resRun,       \* budget_reservations.run_id
  resAmount,    \* budget_reservations.calls, .tokens, ...
  resActual,    \* budget_reservations.actual_calls, ...
  reserved,     \* runs.reserved_calls, ...
  used,         \* runs.used_calls, ...
  overrun       \* history: what settlements used beyond their reservations

callVars   == <<callStatus, callStep>>
budgetVars == <<resStatus, resRun, resAmount, resActual, reserved, used, overrun>>
vars       == <<callVars, budgetVars>>

----------------------------------------------------------------------------
FinalCall == {"completed", "failed", "uncertain"}
Zero      == [x \in Resources |-> 0]

Init ==
  /\ callStatus = [c \in Calls |-> "absent"]
  /\ callStep   = [c \in Calls |-> None]
  /\ resStatus  = [i \in Reservations |-> "absent"]
  /\ resRun     = [i \in Reservations |-> None]
  /\ resAmount  = [i \in Reservations |-> Zero]
  /\ resActual  = [i \in Reservations |-> Zero]
  /\ reserved   = [r \in Runs |-> Zero]
  /\ used       = [r \in Runs |-> Zero]
  /\ overrun    = [r \in Runs |-> Zero]

StartProviderCall(c, s) ==
  /\ callStatus[c] = "absent"
  /\ callStatus' = [callStatus EXCEPT ![c] = "started"]
  /\ callStep'   = [callStep EXCEPT ![c] = s]
  /\ UNCHANGED budgetVars

CompleteProviderCall(c, status) ==
  /\ callStatus[c] = "started"
  /\ callStatus' = [callStatus EXCEPT ![c] = status]
  /\ UNCHANGED <<callStep, budgetVars>>

\* reserve_budget finds the id and the same data: it answers with the id,
\* whatever the status of the stored reservation.
ReserveRepeats(i, r, amount) ==
  resStatus[i] # "absent" /\ resRun[i] = r /\ resAmount[i] = amount

\* Mutant: what was used already is not counted.
FitsReservedOnly(r, amount) ==
  \A x \in Resources : Limit[r][x] # Unlimited => reserved[r][x] + amount[x] <= Limit[r][x]

Fits(r, amount) ==
  \A x \in Resources :
    Limit[r][x] # Unlimited => reserved[r][x] + used[r][x] + amount[x] <= Limit[r][x]

\* Mutant: an open reservation is made again.
ReserveTwice(i, r, amount) ==
  /\ resStatus[i] # "settled"
  /\ Fits(r, amount)
  /\ resStatus' = [resStatus EXCEPT ![i] = "reserved"]
  /\ resRun'    = [resRun EXCEPT ![i] = r]
  /\ resAmount' = [resAmount EXCEPT ![i] = amount]
  /\ reserved'  = [reserved EXCEPT ![r] = [x \in Resources |-> @[x] + amount[x]]]
  /\ UNCHANGED <<callVars, resActual, used, overrun>>

ReserveBudget(i, r, amount) ==
  /\ resStatus[i] = "absent"
  /\ Fits(r, amount)
  /\ resStatus' = [resStatus EXCEPT ![i] = "reserved"]
  /\ resRun'    = [resRun EXCEPT ![i] = r]
  /\ resAmount' = [resAmount EXCEPT ![i] = amount]
  /\ reserved'  = [reserved EXCEPT ![r] = [x \in Resources |-> @[x] + amount[x]]]
  /\ UNCHANGED <<callVars, resActual, used, overrun>>

\* settle_budget of a settled reservation: accepted when nothing differs.
SettleRepeats(i, r, actual) ==
  resStatus[i] = "settled" /\ resRun[i] = r /\ resActual[i] = actual

Excess(actual, amount) ==
  [x \in Resources |-> IF actual[x] > amount[x] THEN actual[x] - amount[x] ELSE 0]

SettleBudget(i, r, actual) ==
  /\ resStatus[i] = "reserved"
  /\ resRun[i] = r
  /\ resStatus' = [resStatus EXCEPT ![i] = "settled"]
  /\ resActual' = [resActual EXCEPT ![i] = actual]
  /\ reserved'  = [reserved EXCEPT ![r] = [x \in Resources |-> @[x] - resAmount[i][x]]]
  /\ used'      = [used EXCEPT ![r] = [x \in Resources |-> @[x] + actual[x]]]
  /\ overrun'   = [overrun EXCEPT ![r] =
                     [x \in Resources |-> @[x] + Excess(actual, resAmount[i])[x]]]
  /\ UNCHANGED <<callVars, resRun, resAmount>>

Next ==
  \/ \E c \in Calls, s \in Steps \cup {None} : StartProviderCall(c, s)
  \/ \E c \in Calls, status \in FinalCall : CompleteProviderCall(c, status)
  \/ \E i \in Reservations, r \in Runs, amount \in Amounts : ReserveBudget(i, r, amount)
  \/ \E i \in Reservations, r \in Runs, actual \in Actuals : SettleBudget(i, r, actual)

Spec == Init /\ [][Next]_vars

----------------------------------------------------------------------------
(***************************************************************************)
(* Properties.  A sum over reservations is written as the cardinality of   *)
(* the disjoint union of its terms, one pair per reserved unit.            *)
(***************************************************************************)

\* Every column holds a value of its type; in particular no counter of a run
\* ever becomes negative.
TypeOK ==
  /\ callStatus \in [Calls -> FinalCall \cup {"absent", "started"}]
  /\ callStep   \in [Calls -> Steps \cup {None}]
  /\ resStatus  \in [Reservations -> {"absent", "reserved", "settled"}]
  /\ resRun     \in [Reservations -> Runs \cup {None}]
  /\ resAmount  \in [Reservations -> [Resources -> Nat]]
  /\ resActual  \in [Reservations -> [Resources -> Nat]]
  /\ reserved   \in [Runs -> [Resources -> Nat]]
  /\ used       \in [Runs -> [Resources -> Nat]]
  /\ overrun    \in [Runs -> [Resources -> Nat]]

Units(i, amount, x) == {i} \X (1 .. amount[x])
OutstandingUnits(r, x) ==
  UNION {Units(i, resAmount[i], x) :
           i \in {j \in Reservations : resStatus[j] = "reserved" /\ resRun[j] = r}}

\* The reserved counters of a run are exactly what its unsettled reservations
\* hold: no reservation is counted twice, and none is released twice.
ReservedIsOutstanding ==
  \A r \in Runs, x \in Resources : reserved[r][x] = Cardinality(OutstandingUnits(r, x))

\* Concurrent reservations never take a run past its limit: only a settlement
\* above what was reserved can, and by no more than that excess.
LimitRespected ==
  \A r \in Runs, x \in Resources :
    Limit[r][x] # Unlimited => reserved[r][x] + used[r][x] <= Limit[r][x] + overrun[r][x]
=============================================================================
