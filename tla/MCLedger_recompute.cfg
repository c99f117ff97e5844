CONSTANTS
  Player = {1, 2, 4}
  Group <- BothGroups
  GroupOf <- MCGroupOf
  Board = {"9x9", "19x19"}
  Overall = "overall"
  Result = {"blackWon"}
  Entry <- MCEntry
  Seed <- MCSeed
  ZeroEntry = 0
  DefaultEntry = 5
  Rate <- MCRate
  Recorder = {r1}
  Replayer = {q1}
  OneAtATime = FALSE
  ReadErrors = TRUE
  MaxGames = 2
SPECIFICATION Spec
INVARIANTS
  RowsConsistent
  CountsNeverExceed
PROPERTIES
  GamesAppendOnly
  RecomputeRepairs
CHECK_DEADLOCK FALSE
