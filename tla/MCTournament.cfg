CONSTANTS
  Player = {1, 2, 3, 4}
  Roster <- Starts
  Formats = {"round_robin", "mcmahon"}
  Rounds = {0, 2}
  Handicaps = {TRUE}
  Ratings <- TwoRatings
  RankOf <- HalfRank
  Handler = {h1, h2}
  Starter = {h1}
  Advancer = {h2}
  FailAt <- Failures
  MaxPairings = 6
  MaxGames = 3
  MaxCuts = 2
SPECIFICATION Spec
INVARIANTS
  LinkMatches
  RoundsSeatRoster
  EveryoneMeetsOnce
  RoundsInOrder
PROPERTIES
  
  ResultsStay
CHECK_DEADLOCK FALSE
