------------------------------ MODULE Effects ------------------------------
(***************************************************************************)
(* Effects in the front end, and what code generation makes of them.  The  *)
(* type checker (src/src/typecheck.rs) infers which nodes are effectful,   *)
(* sweeping the declarations until nothing changes, and then rejects an    *)
(* effectful node where the language wants a pure one.  The C code         *)
(* generator (src/src/codegen/runtime_c.rs) decides again, by names, which *)
(* nodes may run in parallel.                                              *)
(*                                                                         *)
(* A program is what its nodes use: a set of uses, each by one node, of a  *)
(* node, a standard-library name or a foreign node, in one of the ways     *)
(* Ways, in a chain of the node or in an inline evaluation.  Generic nodes *)
(* are already expanded (src/src/monomorphize.rs).                         *)
(***************************************************************************)
EXTENDS Naturals, FiniteSets

CONSTANTS
  NodeCount,  (* Nodes declared, in this order.                            *)
  Library,    (* Names of the standard library.                            *)
  Foreign,    (* Foreign nodes.                                            *)
  Boundary,   (* Those of both that are declared io.                       *)
  Mappable,   (* stdlib::supports_higher_order_call.                       *)
  Denied,     (* The names is_parallel_safe_builtin refuses.               *)
  MaxUses     (* Bound: uses in a program.                                 *)

Nodes == 1 .. NodeCount
Names == Nodes \cup Library \cup Foreign

ASSUME EffectsAssumption ==
  /\ NodeCount \in Nat /\ MaxUses \in Nat
  /\ Library \cap Foreign = {} /\ Nodes \cap (Library \cup Foreign) = {}
  /\ Boundary \subseteq Library \cup Foreign
  /\ Mappable \subseteq Library
  /\ Denied \subseteq Library

\* How a node uses a name: as a stage or the target of a match arm; under map
\* or fault map; under filter, scan or repeat; as the guard of a match arm.
\* (reduce takes standard operators only, none of them effectful.)  A use is
\* inline when it is in an evaluation inside an endpoint: in the source of a
\* chain, an argument, a count, the value of a match arm.
Ways == {"stage", "map", "pick", "guard"}
Uses == [by : Nodes, way : Ways, of : Names, inline : BOOLEAN]

VARIABLES
  uses,     (* The program.                                                *)
  effect,   (* effect[n]: CallableInfo.effect of node n, "pure" or "io".   *)
  visited,  (* Declarations the current sweep has behind it.               *)
  changed,  (* infer_effects' flag of that name.                           *)
  verdict   (* "infers", "checks", "accepted" or "rejected".               *)

vars == <<uses, effect, visited, changed, verdict>>
-----------------------------------------------------------------------------
Init ==
  /\ \E picked \in [1 .. MaxUses -> Uses] : uses = {picked[i] : i \in 1 .. MaxUses}
  /\ effect  = [n \in Nodes |-> "pure"]
  /\ visited = 0
  /\ changed = FALSE
  /\ verdict = "infers"

\* symbol_effect
EffectOf(name) ==
  IF name \in Nodes THEN effect[name] ELSE IF name \in Boundary THEN "io" ELSE "pure"

\* callable_uses_io looks at the stages of chains, map-like stages and targets of
\* arms, but at no guard and not into endpoints.
Seen == {u \in uses : u.way \in {"stage", "map", "pick"} /\ ~u.inline}
UsesIo(n) == \E u \in Seen : u.by = n /\ EffectOf(u.of) = "io"

\* One declaration of a sweep of infer_effects.
VisitForgetful ==  \* Fault: a change does not ask for another sweep.
  LET n == visited + 1
  IN  /\ verdict = "infers" /\ visited < NodeCount
      /\ effect' = [effect EXCEPT ![n] = IF UsesIo(n) THEN "io" ELSE @]
      /\ visited' = n
      /\ UNCHANGED <<uses, changed, verdict>>
VisitAlternating ==  \* Fault: an effect once inferred is inferred again.
  LET n == visited + 1
  IN  /\ verdict = "infers" /\ visited < NodeCount
      /\ effect'  = [effect EXCEPT ![n] = IF UsesIo(n) THEN "io" ELSE @]
      /\ changed' = (changed \/ UsesIo(n))
      /\ visited' = n
      /\ UNCHANGED <<uses, verdict>>
Visit ==
  LET n == visited + 1
  IN  /\ verdict = "infers" /\ visited < NodeCount
      /\ effect'  = [effect EXCEPT ![n] = IF UsesIo(n) THEN "io" ELSE @]
      /\ changed' = (changed \/ (effect[n] = "pure" /\ UsesIo(n)))
      /\ visited' = n
      /\ UNCHANGED <<uses, verdict>>

\* The end of a sweep.
EndSweep ==
  /\ verdict = "infers" /\ visited = NodeCount
  /\ visited' = 0
  /\ changed' = FALSE
  /\ verdict' = IF changed THEN "infers" ELSE "checks"
  /\ UNCHANGED <<uses, effect>>

\* apply_node as a function, for apply_map and apply_fault_map (effects are
\* allowed) and for apply_filter, apply_scan and apply_repeat (they are not).
MayMap(name)  == name \in Library => name \in Mappable
MayPick(name) == MayMap(name) /\ EffectOf(name) = "pure"
\* apply_match looks at the guard's effect.
MayGuardUnchecked(name) == TRUE  \* Fault: the guard's effect is not looked at.
MayGuard(name) == EffectOf(name) = "pure"

\* check_callable, for one declaration, inline evaluations included
\* (inline_eval_type); the first error rejects the program.
Check ==
  LET n == visited + 1
      ill == \E u \in uses :
               /\ u.by = n
               /\ \/ u.way = "map"   /\ ~MayMap(u.of)
                  \/ u.way = "pick"  /\ ~MayPick(u.of)
                  \/ u.way = "guard" /\ ~MayGuard(u.of)
  IN  /\ verdict = "checks" /\ visited < NodeCount
      /\ visited' = n
      /\ verdict' = IF ill THEN "rejected" ELSE IF n = NodeCount THEN "accepted" ELSE verdict
      /\ UNCHANGED <<uses, effect, changed>>

Next == Visit \/ EndSweep \/ Check

\* The compiler is a sequential program: it takes its next step.
Spec == Init /\ [][Next]_vars /\ WF_vars(Next)
-----------------------------------------------------------------------------
\* is_parallel_safe_name: every path through the uses of a node ends, and none
\* ends at a denied name.  A node met again on its own path is not safe.
ParallelSafeShallow ==  \* Fault: the nodes a node uses are not followed.
  {n \in Nodes : \A u \in uses : u.by = n => u.of \notin Denied}
ParallelSafe ==
  {n \in Nodes : \A S \in SUBSET Nodes :
     (\A m \in Nodes :
        (\A u \in uses : u.by = m => u.of \in S \cup (Names \ (Nodes \cup Denied))) => m \in S)
     => n \in S}

\* emit_map runs the items of a map through fa_parallel_for.
RunsInParallel(name) ==
  IF name \in Nodes THEN name \in ParallelSafe ELSE name \notin Denied

\* The nodes that reach some of the given names through the given uses: the
\* least set closed under them.
ReachingSome(names, via) ==
  {n \in Nodes : \A S \in SUBSET Nodes :
     (\A u \in via : u.of \in S \cup names => u.by \in S) => n \in S}
Effectful(via) == Boundary \cup ReachingSome(Boundary, via)
InChains == {u \in uses : ~u.inline}
-----------------------------------------------------------------------------
\* When inference ends, a node is io exactly if a chain of stages leads from it
\* to the boundary, whatever the order of the declarations and however the
\* nodes use each other: infer_effects computes the least fixed point.
InferenceIsExact ==
  verdict # "infers" => {n \in Nodes : effect[n] = "io"} = ReachingSome(Boundary, Seen)

\* The checker rejects a program exactly if it maps or picks with a library name
\* that cannot be, or picks or guards, in a chain or in an inline evaluation,
\* with something that reaches the boundary through chains, guards on the way
\* included.  Effects reached through inline evaluations only are not found:
\* EffectsAreFollowed says what the documentation expects of them.
OnlyImpureProgramsAreRejected ==
  verdict \in {"accepted", "rejected"} =>
    LET impure == Effectful(InChains)
    IN  verdict = "rejected" <=>
          \E u \in uses : \/ u.way \in {"map", "pick"} /\ u.of \in Library \ Mappable
                          \/ u.way \in {"pick", "guard"} /\ u.of \in impure

\* A map over something that reaches, in any way at all, a name of the boundary
\* that is_parallel_safe_builtin knows runs its items one after another.  (Of
\* the names it does not know EffectsAreFollowed speaks.)
EffectfulMapsAreSequential ==
  verdict = "accepted" =>
    LET denied == Denied \cup ReachingSome(Denied, uses)
    IN  \A u \in uses : u.way = "map" /\ u.of \in denied => ~RunsInParallel(u.of)

\* The documentation says of whatever calls a boundary node that it is effectful
\* by composition (docs/overview.md:471-472), and of a map over it that it runs
\* in input order (docs/overview.md:497-500).  For one or the other reason the
\* generated code would not run such a map in parallel.
EffectsAreFollowed ==
  verdict = "accepted" =>
    \A u \in uses :
      u.way = "map" /\ u.of \in Effectful(uses) =>
        EffectOf(u.of) = "io" \/ ~RunsInParallel(u.of)

\* Inference and checking end with a verdict.
CheckingEnds == <>(verdict \in {"accepted", "rejected"})
=============================================================================
