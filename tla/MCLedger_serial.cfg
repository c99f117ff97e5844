CONSTANTS
  Player = {1, 2, 3, 4}
  Group <- BothGroups
  GroupOf <- MCGroupOf
  Board = {"9x9", "19x19"}
  Overall = "overall"
  Result = {"blackWon"}
  Entry <- MCEntry
  Seed <- MCSeed
  ZeroEntry = 0
  DefaultEntry = 5
  Rate <- MCRate
  Recorder = {r1}
  Replayer = {q1}
  OneAtATime = TRUE
  ReadErrors = FALSE
  MaxGames = 3
SPECIFICATION Spec
INVARIANT Reproducible
PROPERTY ImplementsLeague
CHECK_DEADLOCK FALSE
