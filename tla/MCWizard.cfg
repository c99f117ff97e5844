CONSTANTS
  Tablet = {t1}
  MaxGap = 960
  SessionLead = {0, 40}
  SessionBoard = {19}
  Edit <- MCEdit
  MaxPosts = 2
  MaxGames = 3
SPECIFICATION Spec
INVARIANTS
  RatedEven
  AsConfirmed
  RecordedOnce
CHECK_DEADLOCK FALSE
