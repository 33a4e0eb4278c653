---------------------------- MODULE LedgerProofs ----------------------------
(***************************************************************************)
(* Theorems about Ledger for every set of runs, reservations and limits.   *)
(***************************************************************************)
EXTENDS Ledger, FiniteSetTheorems, TLAPS

\* The inductive invariant.  Typing needs the accounting (a release must not
\* take a counter below zero) and the accounting needs typing.
Finite == \A r \in Runs, x \in Resources : IsFiniteSet(OutstandingUnits(r, x))
LInv   == TypeOK /\ Finite /\ ReservedIsOutstanding

USE LedgerAssumption

\* A reservation contributes one pair per reserved unit.
LEMMA UnitsCount ==
  ASSUME NEW i, NEW n \in Nat
  PROVE  IsFiniteSet({i} \X (1 .. n)) /\ Cardinality({i} \X (1 .. n)) = n
<1>1. IsFiniteSet({i}) /\ Cardinality({i}) = 1
  BY FS_Singleton
<1>2. IsFiniteSet(1 .. n) /\ Cardinality(1 .. n) = n
  BY FS_Interval
<1>3. /\ IsFiniteSet({i} \X (1 .. n))
      /\ Cardinality({i} \X (1 .. n)) = Cardinality({i}) * Cardinality(1 .. n)
  BY <1>1, <1>2, FS_Product
<1>4. 1 * n = n
  OBVIOUS
<1> QED BY <1>1, <1>2, <1>3, <1>4

\* Whose units a pair can be.
LEMMA UnitOwner ==
  ASSUME NEW r, NEW x, NEW u
  PROVE  u \in OutstandingUnits(r, x) <=>
           \E i \in Reservations : /\ resStatus[i] = "reserved"
                                   /\ resRun[i] = r
                                   /\ u \in Units(i, resAmount[i], x)
  BY DEF OutstandingUnits

\* Adding a set of new elements adds its size; removing a part subtracts it.
LEMMA CardinalityAdd ==
  ASSUME NEW S, IsFiniteSet(S), NEW T, IsFiniteSet(T), S \cap T = {}
  PROVE  IsFiniteSet(S \cup T) /\ Cardinality(S \cup T) = Cardinality(S) + Cardinality(T)
<1>1. /\ IsFiniteSet(S \cup T)
      /\ Cardinality(S \cup T) = Cardinality(S) + Cardinality(T) - Cardinality(S \cap T)
  BY FS_Union
<1>2. Cardinality(S \cap T) = 0
  BY FS_EmptySet
<1>3. Cardinality(S) \in Nat /\ Cardinality(T) \in Nat
  BY FS_CardinalityType
<1> QED BY <1>1, <1>2, <1>3

LEMMA CardinalityRemove ==
  ASSUME NEW S, IsFiniteSet(S), NEW T \in SUBSET S
  PROVE  /\ IsFiniteSet(S \ T)
         /\ Cardinality(S \ T) = Cardinality(S) - Cardinality(T)
         /\ Cardinality(S \ T) \in Nat
<1>1. S \cap T = T
  OBVIOUS
<1> QED BY <1>1, FS_Difference, FS_CardinalityType

LEMMA ReserveStep ==
  ASSUME LInv, NEW i \in Reservations, NEW r \in Runs, NEW amount \in Amounts,
         ReserveBudget(i, r, amount)
  PROVE  LInv'
<1>1. TypeOK'
  BY DEF LInv, TypeOK, ReserveBudget, callVars
<1>2. ASSUME NEW q \in Runs, NEW x \in Resources
      PROVE  IsFiniteSet(OutstandingUnits(q, x)') /\ reserved'[q][x] = Cardinality(OutstandingUnits(q, x)')
  <2> DEFINE Old == OutstandingUnits(q, x)
  <2> DEFINE New == {i} \X (1 .. amount[x])
  <2>1. amount[x] \in Nat
    OBVIOUS
  <2>2. IsFiniteSet(Old) /\ reserved[q][x] = Cardinality(Old)
    BY DEF LInv, Finite, ReservedIsOutstanding
  <2>3. \A j \in Reservations \ {i} : /\ resStatus'[j] = resStatus[j]
                                      /\ resRun'[j] = resRun[j]
                                      /\ resAmount'[j] = resAmount[j]
    BY DEF LInv, TypeOK, ReserveBudget
  <2>4. resStatus[i] = "absent" /\ resStatus'[i] = "reserved" /\ resRun'[i] = r /\ resAmount'[i] = amount
    BY DEF LInv, TypeOK, ReserveBudget
  <2>5. CASE q # r
    <3>1. OutstandingUnits(q, x)' = Old
      BY <2>3, <2>4, <2>5 DEF OutstandingUnits, Units
    <3>2. reserved'[q] = reserved[q]
      BY <2>5 DEF LInv, TypeOK, ReserveBudget
    <3> QED BY <2>2, <3>1, <3>2
  <2>6. CASE q = r
    <3>1. OutstandingUnits(q, x)' = Old \cup New
      BY <2>3, <2>4, <2>6 DEF OutstandingUnits, Units
    <3>2. Old \cap New = {}
      BY <2>4 DEF OutstandingUnits, Units
    <3>3. IsFiniteSet(New) /\ Cardinality(New) = amount[x]
      BY <2>1, UnitsCount
    <3>4. reserved'[q][x] = reserved[q][x] + amount[x]
      BY <2>6 DEF LInv, TypeOK, ReserveBudget
    <3> QED BY <2>2, <3>1, <3>2, <3>3, <3>4, CardinalityAdd
  <2> QED BY <2>5, <2>6
<1> QED BY <1>1, <1>2 DEF LInv, Finite, ReservedIsOutstanding

LEMMA SettleStep ==
  ASSUME LInv, NEW i \in Reservations, NEW r \in Runs, NEW actual \in Actuals,
         SettleBudget(i, r, actual)
  PROVE  LInv'
<1>1. ASSUME NEW q \in Runs, NEW x \in Resources
      PROVE  /\ IsFiniteSet(OutstandingUnits(q, x)')
             /\ reserved'[q][x] = Cardinality(OutstandingUnits(q, x)')
             /\ reserved'[q][x] \in Nat
  <2> DEFINE Old == OutstandingUnits(q, x)
  <2> DEFINE Gone == {i} \X (1 .. resAmount[i][x])
  <2>1. resAmount[i][x] \in Nat /\ reserved[q][x] \in Nat
    BY DEF LInv, TypeOK
  <2>2. IsFiniteSet(Old) /\ reserved[q][x] = Cardinality(Old)
    BY DEF LInv, Finite, ReservedIsOutstanding
  <2>3. /\ \A j \in Reservations \ {i} : resStatus'[j] = resStatus[j]
        /\ resStatus[i] = "reserved" /\ resStatus'[i] = "settled" /\ resRun[i] = r
        /\ resRun' = resRun /\ resAmount' = resAmount
    BY DEF LInv, TypeOK, SettleBudget
  <2>4. CASE q # r
    <3>1. OutstandingUnits(q, x)' = Old
      BY <2>3, <2>4 DEF OutstandingUnits, Units
    <3>2. reserved'[q] = reserved[q]
      BY <2>4 DEF LInv, TypeOK, SettleBudget
    <3> QED BY <2>1, <2>2, <3>1, <3>2
  <2>5. CASE q = r
    <3>1. OutstandingUnits(q, x)' = Old \ Gone
      BY <2>3, <2>5 DEF OutstandingUnits, Units
    <3>2. Gone \in SUBSET Old
      BY <2>3, <2>5 DEF OutstandingUnits, Units
    <3>3. Cardinality(Gone) = resAmount[i][x]
      BY <2>1, UnitsCount
    <3>4. reserved'[q][x] = reserved[q][x] - resAmount[i][x]
      BY <2>5 DEF LInv, TypeOK, SettleBudget
    <3>5. /\ IsFiniteSet(Old \ Gone)
          /\ Cardinality(Old \ Gone) = Cardinality(Old) - Cardinality(Gone)
          /\ Cardinality(Old \ Gone) \in Nat
      <4> HIDE DEF Old, Gone
      <4> QED BY <2>2, <3>2, CardinalityRemove
    <3> QED BY <2>2, <3>1, <3>3, <3>4, <3>5
  <2> QED BY <2>4, <2>5
<1>2. reserved' \in [Runs -> [Resources -> Nat]]
  <2>1. /\ reserved' = [reserved EXCEPT ![r] = [x \in Resources |-> reserved[r][x] - resAmount[i][x]]]
        /\ reserved \in [Runs -> [Resources -> Nat]]
    BY DEF SettleBudget, LInv, TypeOK
  <2>2. ASSUME NEW q \in Runs PROVE reserved'[q] \in [Resources -> Nat]
    <3>1. CASE q = r
      <4>1. reserved'[q] = [x \in Resources |-> reserved[r][x] - resAmount[i][x]]
        BY <2>1, <3>1
      <4>2. \A x \in Resources : reserved[r][x] - resAmount[i][x] = reserved'[q][x]
        BY <4>1
      <4> QED BY <1>1, <4>1, <4>2
    <3>2. CASE q # r
      BY <2>1, <3>2
    <3> QED BY <3>1, <3>2
  <2> QED BY <2>1, <2>2
<1>3. TypeOK'
  <2>1. actual \in [Resources -> Nat] /\ resAmount[i] \in [Resources -> Nat]
    BY DEF LInv, TypeOK
  <2>2. Excess(actual, resAmount[i]) \in [Resources -> Nat]
    BY <2>1 DEF Excess
  <2>3. used' \in [Runs -> [Resources -> Nat]]
    BY <2>1 DEF LInv, TypeOK, SettleBudget
  <2>4. overrun' \in [Runs -> [Resources -> Nat]]
    BY <2>2 DEF LInv, TypeOK, SettleBudget
  <2> QED BY <1>2, <2>3, <2>4 DEF LInv, TypeOK, SettleBudget, callVars
<1> QED BY <1>1, <1>3 DEF LInv, Finite, ReservedIsOutstanding

LEMMA LInvStep == ASSUME LInv, [Next]_vars PROVE LInv'
<1>1. ASSUME UNCHANGED budgetVars, TypeOK' PROVE LInv'
  BY <1>1 DEF LInv, Finite, ReservedIsOutstanding, OutstandingUnits, Units, budgetVars
<1>2. ASSUME NEW c \in Calls, NEW s \in Steps \cup {None}, StartProviderCall(c, s)
      PROVE  UNCHANGED budgetVars /\ TypeOK'
  BY <1>2 DEF StartProviderCall, LInv, TypeOK, budgetVars
<1>3. ASSUME NEW c \in Calls, NEW status \in FinalCall, CompleteProviderCall(c, status)
      PROVE  UNCHANGED budgetVars /\ TypeOK'
  BY <1>3 DEF CompleteProviderCall, LInv, TypeOK, budgetVars
<1>4. CASE UNCHANGED vars
  BY <1>4, <1>1 DEF vars, callVars, budgetVars, LInv, TypeOK
<1> QED BY <1>1, <1>2, <1>3, <1>4, ReserveStep, SettleStep DEF Next

LEMMA LInvInit == ASSUME Init PROVE LInv
<1>1. TypeOK
  BY DEF Init, TypeOK, Zero
<1>2. ASSUME NEW r \in Runs, NEW x \in Resources
      PROVE  OutstandingUnits(r, x) = {} /\ reserved[r][x] = 0
  BY DEF Init, OutstandingUnits, Zero
<1> QED BY <1>1, <1>2, FS_EmptySet DEF LInv, Finite, ReservedIsOutstanding

LEMMA LInvAlways == Spec => []LInv
  BY LInvInit, LInvStep, PTL DEF Spec

\* A run none of whose reservations is open has nothing reserved.
LEMMA NothingReserved ==
  ASSUME LInv, NEW r \in Runs, NEW x \in Resources,
         \A i \in Reservations : resStatus[i] # "reserved"
  PROVE  reserved[r][x] = 0
<1>1. OutstandingUnits(r, x) = {}
  BY DEF OutstandingUnits
<1> QED BY <1>1, FS_EmptySet DEF LInv, ReservedIsOutstanding

\* Every reachable ledger is well typed: no counter is ever negative.
THEOREM LedgerTypeCorrect == Spec => []TypeOK
<1>1. LInv => TypeOK
  BY DEF LInv
<1> QED BY <1>1, LInvAlways, PTL

\* The reserved counters of a run are what its unsettled reservations hold.
THEOREM ReservationsAccounted == Spec => []ReservedIsOutstanding
<1>1. LInv => ReservedIsOutstanding
  BY DEF LInv
<1> QED BY <1>1, LInvAlways, PTL

----------------------------------------------------------------------------
\* No interleaving of reservations and settlements takes a run beyond its
\* limit by more than its settlements exceeded their own reservations.
THEOREM LimitsRespected == Spec => []LimitRespected
<1>1. ASSUME Init PROVE LimitRespected
  <2> SUFFICES ASSUME NEW r \in Runs, NEW x \in Resources, Limit[r][x] # Unlimited
               PROVE  reserved[r][x] + used[r][x] <= Limit[r][x] + overrun[r][x]
    BY DEF LimitRespected
  <2>1. Limit[r][x] \in Nat
    OBVIOUS
  <2>2. reserved[r][x] = 0 /\ used[r][x] = 0 /\ overrun[r][x] = 0
    BY <1>1 DEF Init, Zero
  <2> QED BY <2>1, <2>2
<1>2. ASSUME TypeOK, LimitRespected, [Next]_vars PROVE LimitRespected'
  <2> SUFFICES ASSUME NEW q \in Runs, NEW x \in Resources, Limit[q][x] # Unlimited
               PROVE  reserved'[q][x] + used'[q][x] <= Limit[q][x] + overrun'[q][x]
    BY DEF LimitRespected
  <2>1. /\ Limit[q][x] \in Nat
        /\ reserved[q][x] \in Nat /\ used[q][x] \in Nat /\ overrun[q][x] \in Nat
        /\ reserved[q][x] + used[q][x] <= Limit[q][x] + overrun[q][x]
    BY <1>2 DEF TypeOK, LimitRespected
  <2>2. CASE UNCHANGED budgetVars
    BY <2>1, <2>2 DEF budgetVars
  <2>3. ASSUME NEW i \in Reservations, NEW r \in Runs, NEW amount \in Amounts,
               ReserveBudget(i, r, amount)
        PROVE  reserved'[q][x] + used'[q][x] <= Limit[q][x] + overrun'[q][x]
    <3>1. used' = used /\ overrun' = overrun
      BY <2>3 DEF ReserveBudget
    <3>2. CASE q # r
      <4>1. reserved'[q] = reserved[q]
        BY <1>2, <2>3, <3>2 DEF TypeOK, ReserveBudget
      <4> QED BY <2>1, <3>1, <4>1
    <3>3. CASE q = r
      <4>1. reserved'[q][x] = reserved[q][x] + amount[x] /\ amount[x] \in Nat
        BY <1>2, <2>3, <3>3 DEF TypeOK, ReserveBudget
      <4>2. reserved[q][x] + used[q][x] + amount[x] <= Limit[q][x]
        BY <2>3, <3>3 DEF ReserveBudget, Fits
      <4> QED BY <2>1, <3>1, <4>1, <4>2
    <3> QED BY <3>2, <3>3
  <2>4. ASSUME NEW i \in Reservations, NEW r \in Runs, NEW actual \in Actuals,
               SettleBudget(i, r, actual)
        PROVE  reserved'[q][x] + used'[q][x] <= Limit[q][x] + overrun'[q][x]
    <3>1. CASE q # r
      <4>1. reserved'[q] = reserved[q] /\ used'[q] = used[q] /\ overrun'[q] = overrun[q]
        BY <1>2, <2>4, <3>1 DEF TypeOK, SettleBudget
      <4> QED BY <2>1, <4>1
    <3>2. CASE q = r
      <4>1. actual[x] \in Nat /\ resAmount[i][x] \in Nat
        BY <1>2 DEF TypeOK
      <4>2. /\ reserved'[q][x] = reserved[q][x] - resAmount[i][x]
            /\ used'[q][x] = used[q][x] + actual[x]
            /\ overrun'[q][x] = overrun[q][x] + Excess(actual, resAmount[i])[x]
        BY <1>2, <2>4, <3>2 DEF TypeOK, SettleBudget
      <4>3. Excess(actual, resAmount[i])[x] =
              IF actual[x] > resAmount[i][x] THEN actual[x] - resAmount[i][x] ELSE 0
        BY DEF Excess
      <4>4. CASE actual[x] > resAmount[i][x]
        BY <2>1, <4>1, <4>2, <4>3, <4>4
      <4>5. CASE ~(actual[x] > resAmount[i][x])
        BY <2>1, <4>1, <4>2, <4>3, <4>5
      <4> QED BY <4>4, <4>5
    <3> QED BY <3>1, <3>2
  <2>5. ASSUME \/ \E c \in Calls, s \in Steps \cup {None} : StartProviderCall(c, s)
               \/ \E c \in Calls, status \in FinalCall : CompleteProviderCall(c, status)
               \/ UNCHANGED vars
        PROVE  UNCHANGED budgetVars
    BY <2>5 DEF StartProviderCall, CompleteProviderCall, vars
  <2> QED BY <1>2, <2>2, <2>3, <2>4, <2>5 DEF Next
<1> QED BY <1>1, <1>2, LedgerTypeCorrect, PTL DEF Spec
=============================================================================
