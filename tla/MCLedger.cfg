\* Two runs, three reservations, one provider call.
SPECIFICATION Spec
CONSTANTS
  r1 = r1  r2 = r2
  None = None
  Unlimited = Unlimited
  Runs = {r1, r2}
  Steps = {s1}
  Calls = {c1}
  Reservations = {b1, b2, b3}
  Resources = {"calls", "tokens"}
  Limit <- MCLimit
  Amounts <- MCAmounts
  Actuals <- MCActuals
INVARIANTS ReservedIsOutstanding LimitRespected
CHECK_DEADLOCK FALSE
