CONSTANTS
  Process = {server, cli}
  Old = {1, 2}
  Fresh = {3}
  Player = {p1, p2, p3}
  Veteran = {p1, p2}
  ReadErrors = TRUE
  MaxCrashes = 2
SPECIFICATION FairSpec
INVARIANT ConvertedOnce
PROPERTIES
  SurviveUnlessMistaken
  OpenSucceeds
CHECK_DEADLOCK FALSE
