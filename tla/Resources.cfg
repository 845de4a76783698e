CONSTANTS
  Connections = {c1, c2}
  RowStreams = {r1, r2}
  FileStreams = {f1, f2}
  Maps = {m1, m2}
  Names = {n1, n2, n3}
  NoStream = NoStream
  NoConnection = NoConnection
SYMMETRY Symmetric
INIT Init
NEXT Next
INVARIANTS RefsCountHolders ConsumedStreamsAreClosed StaleReadsAreReuses
CHECK_DEADLOCK FALSE
