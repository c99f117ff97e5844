CONSTANT MaxField = 18
SPECIFICATION CircleSpec
INVARIANTS
  OneBoardEach
  EveryoneMeets
  ColoursBalanced
CHECK_DEADLOCK FALSE
