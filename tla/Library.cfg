CONSTANTS
  Width = 4
  MaxLen = 3
  MaxRow = 2
  MaxFloat = 4
INIT Init
NEXT Next
INVARIANTS
  SequencesKeepMeaning
  ScalarsKeepMeaning
  PartsRebuildTheWhole
  FaultsMatchChecks
CHECK_DEADLOCK FALSE
