----------------------------- MODULE MCResources -----------------------------
(* Resources with interchangeable connections, streams and names.           *)
EXTENDS Resources, TLC

Symmetric ==
  Permutations(Connections) \cup Permutations(RowStreams) \cup
  Permutations(FileStreams) \cup Permutations(Maps) \cup Permutations(Names)
=============================================================================
