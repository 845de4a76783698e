-------------------------- MODULE MCChainSchedule --------------------------
(***************************************************************************)
(* Instance of ChainSchedule  for TLC: bodies of four chains, where the    *)
(* first may end in a tuple target and the third in a discard or a fault   *)
(* map.  A TypeScript body has one pattern per kind of batch, of two or    *)
(* three chains, patterns of two batches in a row, and one where a call    *)
(* is discarded.                                                           *)
(***************************************************************************)
EXTENDS ChainSchedule

MCFormsOf == [c \in 1 .. 4 |-> CASE c = 1 -> {"variable", "tuple"}
                                 [] c = 3 -> {"variable", "discard", "faultMap"}
                                 [] OTHER -> {"variable"}]
MCKindPatterns ==
  {<<"plain", k, k, k>> : k \in {"async", "reduce", "worker", "map"}}
  \cup {<<"async", "async", "plain", "async">>, <<"reduce", "reduce", "map", "map">>,
        <<"worker", "worker", "async", "plain">>, <<"range", "map", "map", "map">>,
        <<"range", "map", "map", "plain">>, <<"plain", "range", "map", "reduce">>,
        <<"plain", "plain", "short", "plain">>}
=============================================================================
