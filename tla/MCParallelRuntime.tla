------------------------- MODULE MCParallelRuntime -------------------------
(***************************************************************************)
(* A program whose main makes two calls one after the other: a batch of    *)
(* two tasks, of which one runs a batch of its own and the other maps over *)
(* three items in two chunks; and a map over two items, of which one runs  *)
(* a batch (serially, inside a parallel map) and the other an empty map.   *)
(***************************************************************************)
EXTENDS ParallelRuntime

MCCalls == {"main", "batch", "pair", "map", "outer", "inner", "empty"}
MCKind  == [c \in MCCalls |-> IF c \in {"batch", "pair", "inner"} THEN "tasks" ELSE "for"]
MCCount == [c \in MCCalls |-> CASE c = "map" -> 3 [] c = "empty" -> 0 [] OTHER -> 2]
MCGrain == [c \in MCCalls |-> CASE c = "main" -> 64 [] c = "map" -> 2 [] OTHER -> 1]
MCChild == [c \in MCCalls |-> [i \in 0 .. MCCount[c] - 1 |->
  CASE c = "main"  /\ i = 0 -> "batch"
    [] c = "main"  /\ i = 1 -> "outer"
    [] c = "batch" /\ i = 0 -> "pair"
    [] c = "batch" /\ i = 1 -> "map"
    [] c = "outer" /\ i = 0 -> "inner"
    [] c = "outer" /\ i = 1 -> "empty"
    [] OTHER -> "none"]]
=============================================================================
