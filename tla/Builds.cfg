SPECIFICATION BuildsSpec
CONSTANTS
  v1 = v1
  v2 = v2
  builder = builder
  Absent = Absent
  Torn = Torn
  Versions <- MCVersions
  Kinds <- MCKinds
  Builders <- MCBuilders
  p1 = p1
  p2 = p2
  p3 = p3
  Nobody = Nobody
  Processes <- MCProcesses
  Rebuilders <- MCRebuilders
  Copied <- MCCopied
  RequiredFiles <- MCRequiredFiles
  MaxCrashes = 1
INVARIANTS
  OutputIsCurrent
  SuccessIsCached
  BuildsAreSerialized
  MissingFilesTakeARebuild
PROPERTIES
  OnlyRebuildersReplace
  ProcessesEnd
CHECK_DEADLOCK FALSE
