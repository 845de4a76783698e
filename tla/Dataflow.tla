------------------------------ MODULE Dataflow ------------------------------
(***************************************************************************)
(* What the body of a node promises (docs/overview.md, docs/syntax.md      *)
(* section 4): its chains are an unordered collection of edges, each       *)
(* evaluated once, in any order in which its inputs come first.            *)
(***************************************************************************)
EXTENDS Naturals

CONSTANT Chains  (* The chains of the body.                                *)

VARIABLES
  needs,     (* needs[c]: the chains that bind what c reads.               *)
  times      (* times[c]: how often chain c was evaluated.                 *)

Init ==
  /\ needs \in [Chains -> SUBSET Chains]
  /\ times = [c \in Chains |-> 0]

Evaluate(c) ==
  /\ times[c] = 0
  /\ \A d \in needs[c] : times[d] = 1
  /\ times' = [times EXCEPT ![c] = 1]
  /\ UNCHANGED needs

Next == \E c \in Chains : Evaluate(c)

Spec == Init /\ [][Next]_<<needs, times>>
=============================================================================
