CONSTANTS
  Player = {1, 2, 3}
  Roster <- ThreePlayers
  Formats = {"round_robin"}
  Rounds = {0, 2}
  Handicaps = {FALSE, TRUE}
  Ratings <- TwoRatings
  RankOf <- HalfRank
  Handler = {h1}
  Starter = {h1}
  Advancer = {h1}
  FailAt = {}
  MaxPairings = 6
  MaxGames = 6
  MaxCuts = 1
SPECIFICATION Spec
INVARIANT FinishedAllPlayed
CHECK_DEADLOCK FALSE
