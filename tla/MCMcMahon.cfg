CONSTANTS
  Sizes = {2, 3, 4, 5}
  Ratings <- MoreRatings
  RankOf <- HalfRank
  MaxRounds <- UpToFive
SPECIFICATION Spec
INVARIANTS
  EveryoneOncePerRound
  PlacesCountBetter
  ByesGoRound
  BlacksClose
  RematchesLow
CHECK_DEADLOCK FALSE
