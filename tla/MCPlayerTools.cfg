CONSTANTS
  User = {u1, u2}
  Email = {e1, e2}
  None = none
  Group = {g1}
  Handler = {h1, h2}
  Name = {n1, n2}
  Caller = {c1, c2}
  Change <- MCChange
  AtOnce = 2
  MaxPlayers = 2
  MaxGames = 1
SPECIFICATION ToolsSpec
SYMMETRY Interchangeable
PROPERTIES
  EmptyOnlyWhenCrossed
  Appointed
  AbandonedStays
  AskedByAdmin
  UpdateKeepsRest
  GameOfNamed
CHECK_DEADLOCK FALSE
