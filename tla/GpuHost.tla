------------------------------ MODULE GpuHost --------------------------------
(***************************************************************************)
(* What the host does around a GPU call: how the compiler lowers a stage   *)
(* or a standard library node to a call of the runtime, what the emitted   *)
(* helpers and the runtime's entry points check, the work they give the    *)
(* device and the shape they return its answer in.                         *)
(*                                                                         *)
(* A call is <<kind, node, argument, ...>>.  Kinds "vector" and "matrix"   *)
(* are std nodes, which only the TypeScript back end lowers; "map",        *)
(* "reduce" and the accumulators "vector_score" and "matrix_score" are     *)
(* stages every back end lowers.                                           *)
(***************************************************************************)
EXTENDS GpuKernels

-----------------------------------------------------------------------------
(* repeat of a body that adds reductions to a score.  A body is             *)
(* [passes, terms, sum]: whether it returns its other inputs as they came,  *)
(* the reductions it binds, and what its score is the sum of, where 0 is    *)
(* the incoming score and k the k-th reduction.                             *)

(* recognize_vector_score_accumulator, recognize_matrix_score_accumulator:  *)
(* the sum has the score and every reduction once.                          *)
Recognized(body) ==
  /\ body.passes
  /\ body.terms # <<>>
  /\ Len(body.sum) = Len(body.terms) + 1
  /\ {body.sum[i] : i \in DOMAIN body.sum} = 0 .. Len(body.terms)

(* What one reduction is.                                                   *)
VectorTerm(term, xs, ys) ==
  CASE term = "PairMul" -> Dot(xs, ys)
    [] term = "PairDiffSquare" -> SquaredDistance(xs, ys)
    [] term = "LeftSquare" -> SquaredNorm(xs)
MatrixTerm(term, l, r, v) ==
  CASE term = "ProductSum" -> Then(Matmul(l, r), LAMBDA m : Ok(MatrixSum(m)))
    [] term = "MatvecSum" -> Then(Matvec(l, v), LAMBDA xs : Ok(Total(xs)))
    [] term = "RowSumTotal" -> Ok(MatrixSum(l))
(* The score after one run of the body.                                     *)
Advanced(body, score, Term(_)) ==
  Then(Mapped(body.terms, Term),
       LAMBDA values :
         Ok(Total([i \in DOMAIN body.sum |->
                     IF body.sum[i] = 0 THEN score ELSE values[body.sum[i]]])))
Repeated(body, score, n, Term(_)) ==
  FoldLeft(LAMBDA result, i : Then(result, LAMBDA s : Advanced(body, s, Term)),
           Ok(score), [i \in 1 .. n |-> i])

-----------------------------------------------------------------------------
(* What a call means.                                                       *)

BaseOp(node) ==
  CASE node \in {"add", "add_scalar", "add_row"} -> "add"
    [] node \in {"sub", "sub_scalar", "scalar_sub", "sub_row"} -> "sub"
    [] node \in {"mul", "mul_scalar", "scalar_mul", "mul_row"} -> "mul"
    [] node \in {"div", "div_scalar", "scalar_div", "div_row"} -> "div"
ScalarRight == {"add_scalar", "sub_scalar", "mul_scalar", "div_scalar"}
ScalarLeft == {"scalar_sub", "scalar_mul", "scalar_div"}
RowWise == {"add_row", "sub_row", "mul_row", "div_row"}

VectorMeaning(call) ==
  LET node == call[2] IN
  CASE node \in {"add", "sub", "mul", "div"} -> VectorBinary(node, call[3], call[4])
    [] node \in ScalarRight ->
         VectorScalar(BaseOp(node), call[3], call[4], FALSE)
    [] node \in ScalarLeft ->
         VectorScalar(BaseOp(node), call[4], call[3], TRUE)
    [] node \in {"sum", "min", "max"} -> VectorReduce(node, call[3])
    [] node = "dot" -> Dot(call[3], call[4])
    [] node = "squared_norm" -> SquaredNorm(call[3])
    [] node = "softmax" -> Softmax(call[3])
    [] OTHER -> VectorUnary(node, call[3])
MatrixMeaning(call) ==
  LET node == call[2] IN
  CASE node \in {"add", "sub", "mul", "div"} -> MatrixBinary(node, call[3], call[4])
    [] node \in ScalarRight ->
         MatrixScalar(BaseOp(node), call[3], call[4], FALSE)
    [] node \in ScalarLeft ->
         MatrixScalar(BaseOp(node), call[4], call[3], TRUE)
    [] node \in RowWise ->
         MatrixRow(BaseOp(node), call[3], call[4])
    [] node = "matvec" -> Matvec(call[3], call[4])
    [] node = "vecmat" -> Vecmat(call[3], call[4])
    [] node = "matmul" -> Matmul(call[3], call[4])
    [] node = "outer" -> Outer(call[3], call[4])
    [] node = "row_softmax" -> RowSoftmax(call[3])
Meaning(call) ==
  CASE call[1] = "vector" -> VectorMeaning(call)
    [] call[1] = "matrix" -> MatrixMeaning(call)
    [] call[1] = "map" ->
         Ok([i \in DOMAIN call[3] |-> NodeMeaning(call[2], call[3][i])])
    [] call[1] = "reduce" ->
         Ok(FoldLeft(LAMBDA a, b : CASE call[2] = "add" -> a + b
                                     [] call[2] = "min" -> Smaller(a, b)
                                     [] call[2] = "max" -> Larger(a, b),
                     call[4], call[3]))
    [] call[1] = "vector_score" ->
         Repeated(call[2], call[5], call[6],
                  LAMBDA term : VectorTerm(term, call[3], call[4]))
    [] call[1] = "matrix_score" ->
         Repeated(call[2], call[6], call[7],
                  LAMBDA term : MatrixTerm(term, call[3], call[4], call[5]))

(* Whether the back end gives the call to the GPU at all.                   *)
OnGpu(call, target) ==
  CASE call[1] \in {"vector", "matrix"} -> target = "wasm"
    [] call[1] = "map" -> HasKernel(call[2])
    [] call[1] = "reduce" -> TRUE
    [] OTHER -> Recognized(call[2])

-----------------------------------------------------------------------------
(* gpu_vector_call_expr, gpu_matrix_call_expr and the stages' own lowering: *)
(* a call of a helper is <<helper, operation, argument, ...>>, the scalar   *)
(* of a scalar form second and followed by whether it is the left operand.  *)

ScalarForm ==
  [add_scalar |-> <<"add", FALSE>>, sub_scalar |-> <<"sub", FALSE>>,
   mul_scalar |-> <<"mul", FALSE>>, div_scalar |-> <<"div", FALSE>>,
   scalar_sub |-> <<"sub", TRUE>>, scalar_mul |-> <<"mul", TRUE>>,
   scalar_div |-> <<"div", TRUE>>]
RowForm == [add_row |-> "add", sub_row |-> "sub", mul_row |-> "mul", div_row |-> "div"]
ReduceForm == [sum |-> "add", min |-> "min", max |-> "max"]
Elementwise == {"add", "sub", "mul", "div"}

ScalarCall(helper, form, call) ==
  <<helper, form[1], call[IF form[2] THEN 4 ELSE 3],
    call[IF form[2] THEN 3 ELSE 4], form[2]>>

VectorLowered(call) ==
  LET node == call[2] IN
  CASE node \in Elementwise -> <<"VectorBinary", node, call[3], call[4]>>
    [] node \in DOMAIN ScalarForm -> ScalarCall("VectorScalar", ScalarForm[node], call)
    [] node \in DOMAIN ReduceForm -> <<"VectorReduce", ReduceForm[node], call[3]>>
    [] node = "dot" -> <<"VectorDot", node, call[3], call[4]>>
    [] node = "squared_norm" -> <<"VectorDot", node, call[3], call[3]>>
    [] node = "softmax" -> <<"VectorSoftmax", node, call[3]>>
    [] OTHER -> <<"VectorUnary", node, call[3]>>
MatrixLowered(call) ==
  LET node == call[2] IN
  CASE node \in Elementwise -> <<"MatrixBinary", node, call[3], call[4]>>
    [] node \in DOMAIN ScalarForm -> ScalarCall("MatrixScalar", ScalarForm[node], call)
    [] node \in DOMAIN RowForm -> <<"MatrixRowBinary", RowForm[node], call[3], call[4]>>
    [] node = "matvec" -> <<"MatrixMatvec", node, call[3], call[4]>>
    [] node = "vecmat" -> <<"MatrixVecmat", node, call[3], call[4]>>
    [] node = "matmul" -> <<"MatrixMatmul", node, call[3], call[4]>>
    [] node = "outer" -> <<"MatrixOuter", node, call[3], call[4]>>
    [] node = "row_softmax" -> <<"MatrixRowSoftmax", node, call[3]>>
Lowered(call) ==
  CASE call[1] = "vector" -> VectorLowered(call)
    [] call[1] = "matrix" -> MatrixLowered(call)
    [] OTHER -> call

-----------------------------------------------------------------------------
(* The emitted helpers (faGpu...): what they check, and how they pack.      *)

Rows(m) == Len(m)
Cols(m) == IF m = <<>> THEN 0 ELSE Len(m[1])
Rectangular(m) == \A r \in DOMAIN m : Len(m[r]) = Cols(m)
Flat(m) == FlattenSeq(m)
Shaped(values, rows, cols) ==
  [r \in 1 .. rows |-> SubSeq(values, (r - 1) * cols + 1, r * cols)]
NoZero(xs) == \A i \in DOMAIN xs : xs[i] # 0

(* A helper throws unless: matrices are rectangular, nothing is divided by  *)
(* zero, and min and max have an element.                                   *)
VectorHelperAccepts(h) ==
  CASE h[1] = "VectorBinary" -> h[2] = "div" => NoZero(h[4])
    [] h[1] = "VectorScalar" ->
         h[2] = "div" => IF h[5] THEN NoZero(h[3]) ELSE h[4] # 0
    [] h[1] = "VectorReduce" -> h[2] # "add" => h[3] # <<>>
    [] OTHER -> TRUE
MatrixHelperAccepts(h) ==
  CASE h[1] \in {"MatrixBinary", "MatrixMatmul"} ->
         Rectangular(h[3]) /\ Rectangular(h[4]) /\ (h[2] = "div" => NoZero(Flat(h[4])))
    [] h[1] = "MatrixScalar" ->
         /\ Rectangular(h[3])
         /\ h[2] = "div" => IF h[5] THEN NoZero(Flat(h[3])) ELSE h[4] # 0
    [] h[1] = "MatrixRowBinary" -> Rectangular(h[3]) /\ (h[2] = "div" => NoZero(h[4]))
    [] h[1] = "MatrixMatvec" -> Rectangular(h[3])
    [] h[1] = "MatrixVecmat" -> Rectangular(h[4])
    [] h[1] = "MatrixRowSoftmax" -> Rectangular(h[3])
    [] h[1] = "matrix_score" -> Rectangular(h[3]) /\ Rectangular(h[4])
    [] OTHER -> TRUE
HelperAccepts(h) == VectorHelperAccepts(h) /\ MatrixHelperAccepts(h)

(* repeat runs no helper unless the count is positive.                      *)
Idle(h) ==
  \/ h[1] = "vector_score" /\ h[6] <= 0
  \/ h[1] = "matrix_score" /\ h[7] <= 0
Score(h) == IF h[1] = "vector_score" THEN h[5] ELSE h[6]

(* The runtime's entry points: shapes must fit.                             *)
VectorEntryAccepts(h) ==
  h[1] \in {"VectorBinary", "VectorDot", "vector_score"} => Len(h[3]) = Len(h[4])
MatrixEntryAccepts(h) ==
  CASE h[1] = "MatrixBinary" -> Rows(h[3]) = Rows(h[4]) /\ Cols(h[3]) = Cols(h[4])
    [] h[1] = "MatrixRowBinary" -> Len(h[4]) = Cols(h[3])
    [] h[1] = "MatrixMatvec" -> Len(h[4]) = Cols(h[3])
    [] h[1] = "MatrixVecmat" -> Len(h[3]) = Rows(h[4])
    [] h[1] = "MatrixMatmul" -> Cols(h[3]) = Rows(h[4])
    [] h[1] = "matrix_score" -> Cols(h[3]) = Rows(h[4]) /\ Len(h[5]) = Cols(h[3])
    [] OTHER -> TRUE
EntryAccepts(h) == VectorEntryAccepts(h) /\ MatrixEntryAccepts(h)

(* The native entry points check the rows they flatten themselves.          *)
NativeAccepts(h) ==
  CASE h[1] = "vector_score" -> Len(h[3]) = Len(h[4])
    [] h[1] = "matrix_score" ->
         /\ Rectangular(h[3]) /\ Rectangular(h[4])
         /\ Cols(h[3]) = Rows(h[4])
         /\ Len(h[5]) = Cols(h[3])
    [] OTHER -> TRUE

-----------------------------------------------------------------------------
(* The runtime's methods: the program dispatched, for how many items, over  *)
(* which words and arrays, and whether its cells are then reduced.          *)

(* Not the code: sub and mul numbered the other way round.                  *)
ElementwiseCodeSwapped == [add |-> 0, sub |-> 2, mul |-> 1, div |-> 3]
ElementwiseCode == [add |-> 0, sub |-> 1, mul |-> 2, div |-> 3]
UnaryCode == [neg |-> 0, abs |-> 1, exp |-> 2, relu |-> 3, sigmoid |-> 4, silu |-> 5]
ReduceCode == [add |-> 0, min |-> 1, max |-> 2]

Program(kernel, items, words, inputs) ==
  [kernel |-> kernel, items |-> items, words |-> words, inputs |-> inputs,
   scalar |-> 0, expr |-> Unsupported, reduces |-> FALSE, op |-> 0, identity |-> 0,
   include |-> FALSE]
NoTask == Program("refused", 0, <<>>, <<<<>>>>)
(* reduce_program: the cells are summed from zero.                          *)
Summed(program) == [program EXCEPT !.reduces = TRUE]
(* dispatch_reduce: no program, only passes, the first with the identity.   *)
Reduction(op, xs, identity) ==
  [Program("none", Len(xs), <<>>, <<xs>>) EXCEPT
     !.reduces = TRUE, !.op = ReduceCode[op], !.identity = identity, !.include = TRUE]

(* program_params_buffer: the work items, four slices, four matrices.       *)
ProgramWords(items, sizes, shapes) ==
  LET At(values, k) == IF k \in DOMAIN values THEN values[k] ELSE 0 IN
  <<items, 0>> \o [k \in 1 .. 4 |-> At(sizes, k)] \o [k \in 1 .. 8 |-> At(shapes, k)]

VectorTask(h) ==
  LET n == Len(h[3]) IN
  CASE h[1] = "VectorUnary" ->
         Program("vector_unary", n, <<n, UnaryCode[h[2]], 0, 0>>, <<h[3]>>)
    [] h[1] = "VectorBinary" ->
         Program("vector_binary", n, <<n, ElementwiseCode[h[2]], 0, 0>>, <<h[3], h[4]>>)
    [] h[1] = "VectorScalar" ->
         [Program("vector_scalar", n,
                  <<n, ElementwiseCode[h[2]], IF h[5] THEN 1 ELSE 0, 0>>, <<h[3]>>)
          EXCEPT !.scalar = h[4]]
    [] h[1] = "VectorReduce" ->  \* min and max start from the first element
         Reduction(h[2], h[3], IF h[2] = "add" THEN 0 ELSE h[3][1])
    [] h[1] = "VectorDot" ->
         Summed(Program("vector_dot", n, ProgramWords(n, <<n, Len(h[4])>>, <<>>),
                        <<h[3], h[4]>>))
    [] h[1] = "VectorSoftmax" -> Program("vector_softmax", n, <<n, 0, 0, 0>>, <<h[3]>>)

MatrixElementwiseTask(h) ==
  LET values == Flat(h[3])
      n == Len(values)
      words == <<n, ElementwiseCode[h[2]], Rows(h[3]), Cols(h[3])>>
  IN CASE h[1] = "MatrixBinary" ->
            Program("vector_binary", n, words, <<values, Flat(h[4])>>)
       [] h[1] = "MatrixScalar" ->
            [Program("vector_scalar", n,
                     <<n, ElementwiseCode[h[2]], IF h[5] THEN 1 ELSE 0, 0>>, <<values>>)
             EXCEPT !.scalar = h[4]]
       [] h[1] = "MatrixRowBinary" ->
            Program("matrix_row_binary", n, words, <<values, h[4]>>)
MatrixProductTask(h) ==
  CASE h[1] = "MatrixMatvec" ->
         Program("matvec", Rows(h[3]), <<Rows(h[3]), Cols(h[3]), 0, 0>>,
                 <<Flat(h[3]), h[4]>>)
    [] h[1] = "MatrixVecmat" ->
         Program("vecmat", Cols(h[4]), <<Rows(h[4]), Cols(h[4]), 0, 0>>,
                 <<h[3], Flat(h[4])>>)
    [] h[1] = "MatrixMatmul" ->
         Program("matmul", Rows(h[3]) * Cols(h[4]),
                 <<Rows(h[3]), Cols(h[3]), Cols(h[4]), 0>>, <<Flat(h[3]), Flat(h[4])>>)
    [] h[1] = "MatrixOuter" ->
         Program("outer", Len(h[3]) * Len(h[4]), <<Len(h[3]), Len(h[4]), 0, 0>>,
                 <<h[3], h[4]>>)
    [] h[1] = "MatrixRowSoftmax" ->
         Program("row_softmax", Rows(h[3]) * Cols(h[3]),
                 <<Rows(h[3]), Cols(h[3]), 0, 0>>, <<Flat(h[3])>>)

(* The accumulators' and the stages' tasks, the same on every back end.     *)
ScoreTask(h) ==
  IF h[1] = "vector_score"
  THEN LET n == Len(h[3]) IN
       Summed(Program("vector_score", n, ProgramWords(n, <<n, n>>, <<>>), <<h[3], h[4]>>))
  ELSE LET n == Rows(h[3]) * Cols(h[3]) IN
       Summed(Program("matrix_score", n,
                      ProgramWords(n, <<Len(h[5])>>,
                                   <<Rows(h[3]), Cols(h[3]), Rows(h[4]), Cols(h[4])>>),
                      <<h[5], Flat(h[3]), Flat(h[4])>>))
MapTask(h) ==
  [Program("map", Len(h[3]), <<Len(h[3]), 0, 0, 0>>, <<h[3]>>)
   EXCEPT !.expr = Kernels[h[2]]]
Task(h) ==
  CASE h[1] = "map" -> MapTask(h)
    [] h[1] = "reduce" -> Reduction(h[2], h[3], h[4])
    [] h[1] \in {"vector_score", "matrix_score"} -> ScoreTask(h)
    [] h[1] \in {"VectorUnary", "VectorBinary", "VectorScalar", "VectorReduce",
                 "VectorDot", "VectorSoftmax"} -> VectorTask(h)
    [] h[1] \in {"MatrixBinary", "MatrixScalar", "MatrixRowBinary"} ->
         MatrixElementwiseTask(h)
    [] OTHER -> MatrixProductTask(h)

(* What a task of no items answers without the device.                      *)
NothingToDo(task) ==
  IF ~task.reduces THEN <<>> ELSE <<task.identity>>

(* A double needs the device's f64 support, but for an empty map.           *)
NeedsDouble(h, width) == width = "f64" /\ ~(h[1] = "map" /\ h[3] = <<>>)

-----------------------------------------------------------------------------
(* From the cells read back to the value of the call.                       *)
Answer(h, cells) ==
  CASE h[1] \in {"VectorReduce", "VectorDot", "reduce"} -> cells[1]
    [] h[1] = "vector_score" -> h[5] + h[6] * cells[1]
    [] h[1] = "matrix_score" -> h[6] + h[7] * cells[1]
    [] h[1] \in {"MatrixBinary", "MatrixScalar", "MatrixRowBinary", "MatrixRowSoftmax"} ->
         Shaped(cells, Rows(h[3]), Cols(h[3]))
    [] h[1] = "MatrixMatmul" -> Shaped(cells, Rows(h[3]), Cols(h[4]))
    [] h[1] = "MatrixOuter" -> Shaped(cells, Len(h[3]), Len(h[4]))
    [] OTHER -> cells
=============================================================================
