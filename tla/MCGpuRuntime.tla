---------------------------- MODULE MCGpuRuntime -----------------------------
(* Small programs and arguments for GpuRuntime: vectors of up to two       *)
(* numbers, longer ones to reduce, matrices of up to two rows, empty and   *)
(* uneven ones, and workgroups of two invocations.                         *)
EXTENDS GpuRuntime

CONSTANTS c1, c2

-----------------------------------------------------------------------------
(* Nodes to map.                                                            *)

Var(n) == <<"var", n>>
Lit(n) == <<"lit", n>>
Both(a, b) == <<"tuple", <<a, b>>>>
To(n) == <<"bind", <<"name", n>>>>
Via(n) == <<"call", n>>
Chain(source, stages) == [source |-> source, stages |-> stages]
Node(inputs, chains) == [inputs |-> inputs, output |-> "y", scalar |-> TRUE,
                         chains |-> chains]

MCNodes ==
  [double |-> Node(<<"x">>, <<Chain(Both(Var("x"), Lit(2)), <<Via("mul"), To("y")>>)>>),
   \* rebinds its own names, and a caller's, in another order
   inner |-> Node(<<"v">>, <<Chain(Var("v"), <<Via("abs"), To("x")>>),
                             Chain(Both(Lit(1), Var("x")), <<Via("sub"), To("y")>>)>>),
   outer |-> Node(<<"x">>, <<Chain(Var("x"), <<Via("inner"), To("v")>>),
                             Chain(Both(Var("x"), Var("v")), <<Via("sub"), To("y")>>)>>),
   \* an inline evaluation with a name of its own, and a tuple taken apart
   local |-> Node(<<"x">>,
     <<Chain(<<"eval", Var("x"), <<Via("neg"), To("x")>> >>, <<To("n")>>),
       Chain(Both(Var("n"), Var("x")), << <<"bind", <<"targets", <<"b", "a">>>>>> >>),
       Chain(Both(Var("a"), Lit(1)), <<Via("lt"), To("low")>>),
       Chain(<<"tuple", <<Var("low"), Var("b"), Lit(7)>>>>, <<Via("select"), To("y")>>)>>),
   \* a stage no kernel has
   mapping |-> Node(<<"x">>, <<Chain(Var("x"), << <<"other">>, To("y")>>)>>),
   \* a node of two inputs with the name of a built-in, and one that calls it
   sub |-> [Node(<<"l", "r">>, <<Chain(Both(Var("r"), Var("l")), <<Via("mul"), To("y")>>)>>)
            EXCEPT !.scalar = FALSE],
   calls |-> Node(<<"x">>, <<Chain(Both(Var("x"), Lit(3)), <<Via("sub"), To("y")>>)>>)]

-----------------------------------------------------------------------------
Upto(S, n) == UNION {[1 .. k -> S] : k \in 0 .. n}
Numbers == {-1, 0, 2}
Vectors == Upto(Numbers, 2)
Short == {<<>>, <<2>>, <<0, -1>>, <<2, 1>>}
Grids ==
  {<<>>, << <<>> >>, << <<1>>, <<1, 2>> >>, << <<0>> >>, << <<2>> >>,
   << <<-1, 2>> >>, << <<0, 1>> >>, << <<1>>, <<2>> >>, << <<0>>, <<-1>> >>,
   << <<1, 2>>, <<-1, 1>> >>, << <<0, 1>>, <<2, 2>> >>, << <<1, 0>>, <<1, 3>> >>}
Few == {<< <<2>> >>, << <<-1, 2>> >>, << <<1>>, <<2>> >>, << <<1, 2>>, <<-1, 1>> >>, <<>>}

VectorCalls ==
  UNION {{<<"vector", op, xs, ys>> : op \in Elementwise, xs \in Vectors, ys \in Vectors},
         {<<"vector", op, xs, y>> : op \in ScalarRight, xs \in Vectors, y \in Numbers},
         {<<"vector", op, y, xs>> : op \in ScalarLeft, xs \in Vectors, y \in Numbers},
         {<<"vector", op, xs>> : op \in DOMAIN UnaryCode, xs \in Vectors},
         {<<"vector", op, xs>> : op \in DOMAIN ReduceForm, xs \in Upto({-1, 2}, 5)},
         {<<"vector", "dot", xs, ys>> : xs \in Vectors, ys \in Short},
         {<<"vector", "squared_norm", xs>> : xs \in Vectors},
         {<<"vector", "softmax", xs>> : xs \in Upto({-1, 2}, 3)}}
MatrixCalls ==
  UNION {{<<"matrix", op, l, r>> : op \in Elementwise \cup {"matmul"},
                                   l \in Grids, r \in Grids},
         {<<"matrix", op, m, y>> : op \in ScalarRight, m \in Grids, y \in {0, 2}},
         {<<"matrix", op, y, m>> : op \in ScalarLeft, m \in Grids, y \in {0, 2}},
         {<<"matrix", op, m, xs>> : op \in RowWise \cup {"matvec"},
                                    m \in Grids, xs \in Short},
         {<<"matrix", "vecmat", xs, m>> : xs \in Short, m \in Grids},
         {<<"matrix", "outer", xs, ys>> : xs \in Short, ys \in Short},
         {<<"matrix", "row_softmax", m>> : m \in Grids}}

Adding(terms) == [passes |-> TRUE, terms |-> terms,
                  sum |-> [i \in 1 .. Len(terms) + 1 |-> Len(terms) + 1 - i]]
Bodies(terms) == {Adding(s) : s \in {s \in [1 .. 3 -> terms] : IsInjective(s)}}
StageCalls ==
  UNION {{<<"map", n, xs>> : n \in {n \in DOMAIN MCNodes : MCNodes[n].scalar},
                             xs \in Upto(Numbers, 2) \cup {<<2, -1, 0, 2, -1>>}},
         {<<"reduce", op, xs, identity>> : op \in DOMAIN ReduceCode,
                                           xs \in Upto({-1, 2}, 4), identity \in {0, 3}},
         {<<"vector_score", body, xs, ys, 1, n>> :
            body \in Bodies(VectorTerms), xs \in Short, ys \in Short, n \in {-1, 0, 2}},
         {<<"matrix_score", body, l, r, v, 1, n>> :
            body \in Bodies(MatrixTerms), l \in Few, r \in Few, v \in Short, n \in {0, 2}}}

(* One caller with any call, or two with calls of several submissions.      *)
Concurrent ==
  {<<"reduce", "max", <<2, -1, 2>>, 0>>, <<"reduce", "add", <<2, -1, 2, 2>>, 0>>,
   <<"map", "outer", <<2, -1, 0>>>>, <<"map", "outer", <<>>>>,
   <<"vector_score", Adding(<<"PairMul", "LeftSquare", "PairDiffSquare">>),
     <<2, -1>>, <<1, 1>>, 1, 2>>,
   <<"vector_score", Adding(<<"PairMul", "LeftSquare", "PairDiffSquare">>),
     <<2, -1>>, <<1>>, 1, 2>>,
   <<"vector", "add", <<2, -1>>, <<1, 1>>>>, <<"vector", "dot", <<2, -1>>, <<1>>>>}
Pairing(first, second, width) ==
  [c \in {c1, c2} |-> [call |-> IF c = c1 THEN first ELSE second, width |-> width]]
(* The accumulators are run over doubles here.                               *)
Width(call) == IF call[1] \in {"vector_score", "matrix_score"} THEN "f64" ELSE "f32"
MCWorkloads ==
  {Pairing(call, NoCall, Width(call)) :
     call \in VectorCalls \cup MatrixCalls \cup StageCalls}
  \cup {Pairing(first, second, "f64") : first \in Concurrent, second \in Concurrent}

(* A body that adds one of the three reductions, and one that adds two.     *)
MCAccumulatorWorkloads ==
  {Pairing(<<"vector_score", Adding(terms), xs, ys, 1, n>>, NoCall, "f64") :
     terms \in {<<"PairMul">>, <<"LeftSquare", "PairDiffSquare">>},
     xs \in Short, ys \in Short, n \in 1 .. 2}
=============================================================================
