------------------------------ MODULE ForkJoin ------------------------------
(***************************************************************************)
(* What generated code relies on when it makes a fork-join call, whatever  *)
(* threads run it: every item of the call runs exactly once, after the     *)
(* call was made, and the call returns only when every item has run.       *)
(* Generated code reads the items' results right after the return without  *)
(* any further synchronisation.                                            *)
(***************************************************************************)
EXTENDS CallTree

VARIABLES
  status,   (* status[c]: "idle", "running" or "done".                     *)
  ran       (* ran[c][i]: how often item i of c has run to completion.     *)

vars == <<status, ran>>

Init ==
  /\ status = [c \in Calls |-> "idle"]
  /\ ran    = [c \in Calls |-> [i \in Items(c) |-> 0]]

\* Call c is made, by main or by an item of a running call that has not run.
Begin(c) ==
  /\ status[c] = "idle"
  /\ \/ c = Root
     \/ \E p \in Calls : \E i \in Items(p) :
          Child[p][i] = c /\ status[p] = "running" /\ ran[p][i] = 0
  /\ status' = [status EXCEPT ![c] = IF Count[c] = 0 THEN "done" ELSE "running"]
  /\ UNCHANGED ran

\* Item i of c runs to completion; the call it makes, if any, has returned.
RunItem(c, i) ==
  /\ status[c] = "running"
  /\ ran[c][i] = 0
  /\ Child[c][i] # NoCall => status[Child[c][i]] = "done"
  /\ ran' = [ran EXCEPT ![c][i] = 1]
  /\ UNCHANGED status

\* Call c returns.
Return(c) ==
  /\ status[c] = "running"
  /\ \A i \in Items(c) : ran[c][i] = 1
  /\ status' = [status EXCEPT ![c] = "done"]
  /\ UNCHANGED ran

Next ==
  \E c \in Calls :
    \/ Begin(c)
    \/ \E i \in Items(c) : RunItem(c, i)
    \/ Return(c)

SafetySpec == Init /\ [][Next]_vars

Spec == SafetySpec /\ WF_vars(Next)
=============================================================================
