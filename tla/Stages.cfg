CONSTANTS
  Top = 1
  MaxLen = 3
  MaxCount = 3
  MaxArms = 2
INIT Init
NEXT Next
INVARIANTS
  MapsKeepMeaning
  MatchesKeepMeaning
  SelectionsKeepMeaning
  FoldsKeepMeaning
CHECK_DEADLOCK FALSE
