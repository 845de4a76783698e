----------------------------- MODULE GpuKernels ------------------------------
(***************************************************************************)
(* The WGSL programs of the GPU runtime, one invocation at a time: an      *)
(* invocation past the bound a kernel checks returns, any other computes   *)
(* its cell of the output.  Kernels see flat arrays and a block of words;  *)
(* word k is the k-th field of the parameter structure.                    *)
(***************************************************************************)
EXTENDS GpuPlan

\* Invocations of a workgroup: 64 in the code.
CONSTANT WorkgroupSize
ASSUME WorkgroupAssumption == WorkgroupSize \in Nat \ {0}

\* What a cell nobody wrote holds, and a read out of range returns: a value
\* of the array or zero, here one no input has.
Stray == 5

Word(words, k) == IF k \in DOMAIN words THEN words[k] ELSE 0
Read(array, i) == IF i + 1 \in DOMAIN array THEN array[i + 1] ELSE Stray
Counted(n, F(_)) == [k \in 1 .. n |-> F(k - 1)]

-----------------------------------------------------------------------------
(* Operations are numbered; a number no branch tests is the last operation. *)

UnaryCell(op, v) ==
  CASE op = 0 -> -v
    [] op = 1 -> Absolute(v)
    [] op = 2 -> Exp(v)
    [] op = 3 -> Larger(v, 0)
    [] op = 4 -> Ratio(1, 1 + Exp(-v))
    [] OTHER -> Ratio(v, 1 + Exp(-v))
BinaryCell(op, l, r) ==
  CASE op = 0 -> l + r
    [] op = 1 -> l - r
    [] op = 2 -> l * r
    [] OTHER -> IF r = 0 THEN Stray ELSE Ratio(l, r)

ScalarCell(words, scalar, input, i) ==
  LET scalarLeft == Word(words, 3) # 0
      value == Read(input, i)
  IN  BinaryCell(Word(words, 2), IF scalarLeft THEN scalar ELSE value,
                 IF scalarLeft THEN value ELSE scalar)
RowBinaryCell(words, matrix, row, i) ==
  BinaryCell(Word(words, 2), Read(matrix, i), Read(row, i % Word(words, 4)))

SoftmaxCell(base, cols, input, i) ==
  LET row == Counted(cols, LAMBDA col : Read(input, base + col))
      greatest == FoldLeft(Larger, row[1], Tail(row))
      denominator == Total([k \in DOMAIN row |-> Exp(row[k] - greatest)])
  IN  Ratio(Exp(Read(input, i) - greatest), denominator)
RowSoftmaxCell(words, input, i) ==
  LET cols == Word(words, 2) IN SoftmaxCell((i \div cols) * cols, cols, input, i)

MatvecCell(words, matrix, vector, row) ==
  LET cols == Word(words, 2) IN
  Total(Counted(cols, LAMBDA col : Read(matrix, row * cols + col) * Read(vector, col)))
VecmatCell(words, vector, matrix, col) ==
  LET cols == Word(words, 2) IN
  Total(Counted(Word(words, 1),
                LAMBDA row : Read(vector, row) * Read(matrix, row * cols + col)))
MatmulCell(words, left, right, i) ==
  LET leftCols == Word(words, 2)
      rightCols == Word(words, 3)
      row == i \div rightCols
      col == i % rightCols
  IN  Total(Counted(leftCols, LAMBDA k : Read(left, row * leftCols + k)
                                         * Read(right, k * rightCols + col)))
OuterCell(words, left, right, i) ==
  LET rightLen == Word(words, 2) IN
  Read(left, i \div rightLen) * Read(right, i % rightLen)

(* The accumulators' programs: every term a body may add, whichever it has. *)
VectorScoreCell(left, right) ==
  left * right + (left - right) * (left - right) + left * left
MatrixScoreCell(words, vector, leftMatrix, right, i) ==
  LET inner == Word(words, 8)
      rightCols == Word(words, 10)
      k == i % inner
      left == Read(leftMatrix, i)
      rightSum == Total(Counted(rightCols,
                                LAMBDA col : Read(right, k * rightCols + col)))
  IN  left * rightSum + left * Read(vector, k) + left

-----------------------------------------------------------------------------
(* One dispatch.  kernel is the program's name, and expr the expression of  *)
(* a map's program.                                                         *)

Bound(kernel, words) ==
  IF kernel \in {"matmul"} THEN Word(words, 1) * Word(words, 3)
  ELSE IF kernel \in {"outer", "row_softmax"} THEN Word(words, 1) * Word(words, 2)
  ELSE IF kernel = "vecmat" THEN Word(words, 2)
  ELSE Word(words, 1)

Cell(task, i) ==
  LET words == task.words
      first == task.inputs[1]
      second == task.inputs[2]
  IN CASE task.kernel = "map" -> Computed(task.expr, Read(first, i))
       [] task.kernel = "vector_unary" -> UnaryCell(Word(words, 2), Read(first, i))
       [] task.kernel = "vector_binary" ->
            BinaryCell(Word(words, 2), Read(first, i), Read(second, i))
       [] task.kernel = "vector_scalar" -> ScalarCell(words, task.scalar, first, i)
       [] task.kernel = "vector_dot" -> Read(first, i) * Read(second, i)
       [] task.kernel = "vector_softmax" -> SoftmaxCell(0, Word(words, 1), first, i)
       [] task.kernel = "matrix_row_binary" -> RowBinaryCell(words, first, second, i)
       [] task.kernel = "matvec" -> MatvecCell(words, first, second, i)
       [] task.kernel = "vecmat" -> VecmatCell(words, first, second, i)
       [] task.kernel = "matmul" -> MatmulCell(words, first, second, i)
       [] task.kernel = "outer" -> OuterCell(words, first, second, i)
       [] task.kernel = "row_softmax" -> RowSoftmaxCell(words, first, i)
       [] task.kernel = "vector_score" ->
            VectorScoreCell(Read(first, i), Read(second, i))
       [] task.kernel = "matrix_score" ->
            MatrixScoreCell(words, first, second, task.inputs[3], i)

(* checked_workgroups.                                                      *)
Workgroups(items) == (items + WorkgroupSize - 1) \div WorkgroupSize

(* The output buffer has a cell per item.                                   *)
Dispatched(task) ==
  Counted(task.items,
          LAMBDA i : IF i < Workgroups(task.items) * WorkgroupSize
                        /\ i < Bound(task.kernel, task.words)
                     THEN Cell(task, i) ELSE Stray)

-----------------------------------------------------------------------------
(* REDUCE_WGSL: a pass halves the array.  The first may take the identity   *)
(* for element 0; an element with no partner is combined with the identity. *)

ReduceCell(op, l, r) ==
  CASE op = 0 -> l + r
    [] op = 1 -> Smaller(l, r)
    [] OTHER -> Larger(l, r)
(* div_ceil(2) of the elements and the identity the pass includes.          *)
PassLength(length, include) == (length + (IF include THEN 1 ELSE 0) + 1) \div 2
Pass(op, identity, include, length, input) ==
  LET offset == IF include THEN 1 ELSE 0
      virtual == length + offset
      ValueAt(k) == IF include /\ k = 0 THEN identity ELSE Read(input, k - offset)
  IN  Counted(PassLength(length, include),
              LAMBDA i : ReduceCell(op, ValueAt(2 * i),
                                    IF 2 * i + 1 < virtual THEN ValueAt(2 * i + 1)
                                    ELSE identity))
=============================================================================
