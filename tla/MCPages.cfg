CONSTANTS
  Player = {1, 2, 3}
  Group <- OnePlayerGroup
  GroupOf <- MCGroupOf
  Board = {"9x9", "19x19"}
  Overall = "overall"
  Result = {"blackWon"}
  Entry <- MCEntry
  Seed <- MCSeed
  ZeroEntry = 0
  DefaultEntry = 5
  Rate <- MCRate
  Recorder = {r1, r2}
  Replayer = {}
  OneAtATime = FALSE
  ReadErrors = FALSE
  MaxGames = 2
  Viewer = {v1}
  Watched = {1}
  RecentLimit = 1
SPECIFICATION PagesSpec
SYMMETRY Interchangeable
INVARIANTS
  BeforeWasHeld
  RatingIsLastGame
PROPERTY PagesExplained
CHECK_DEADLOCK FALSE
