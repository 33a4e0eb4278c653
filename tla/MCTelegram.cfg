\* Three updates, two bots, two weeks without updates, three lives of the daemon.
SPECIFICATION FairPollerSpec
CONSTANTS
  Updates = {1, 2, 3}
  BotOf <- BotOfEach
  Bots = {1, 2}
  MaxId = 3
  MaxWeeks = 2
  MaxLives = 3
  MaxConflicts = 2
CHECK_DEADLOCK FALSE
INVARIANTS
  ForgottenIsStored
  OneEventPerUpdate
PROPERTIES
  UpdateArrives
