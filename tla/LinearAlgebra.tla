---------------------------- MODULE LinearAlgebra ----------------------------
(***************************************************************************)
(* std.vector and std.matrix, as their FlowArrow sources define them: what *)
(* a call means on a back end that has no kernel for it.  Vectors are      *)
(* sequences of numbers, matrices sequences of rows, which need not be of  *)
(* one length.  A node that faults where a plain value is due ends the     *)
(* program.                                                                *)
(*                                                                         *)
(* Numbers are integers, a quotient is a ratio in lowest terms, and exp is *)
(* a positive, injective stand-in: no rounding, so two formulas agree here *)
(* when they agree over the reals.                                         *)
(***************************************************************************)
EXTENDS Integers, SequencesExt, FiniteSetsExt, Results

Total(xs) == FoldLeft(LAMBDA a, b : a + b, 0, xs)
Absolute(x) == IF x < 0 THEN -x ELSE x
Larger(x, y) == IF x < y THEN y ELSE x
Smaller(x, y) == IF x < y THEN x ELSE y

(* a / b for b # 0, in lowest terms with a positive denominator.            *)
Ratio(a, b) ==
  LET size == Absolute(b)
      top == IF b < 0 THEN -a ELSE a
      common == Max({d \in 1 .. size : size % d = 0 /\ Absolute(top) % d = 0})
      sign == IF top < 0 THEN -1 ELSE 1
  IN  <<sign * (Absolute(top) \div common), size \div common>>
TimesRatio(x, r) == Ratio(x * r[1], r[2])
Exp(x) == x + 9

-----------------------------------------------------------------------------
(* std.vector.                                                              *)

(* add_pair, sub_pair, mul_pair, div_pair.                                  *)
DivPair(x, y) == IF y = 0 THEN Dead ELSE Ok(Ratio(x, y))
Pair(op, x, y) ==
  CASE op = "add" -> Ok(x + y)
    [] op = "sub" -> Ok(x - y)
    [] op = "mul" -> Ok(x * y)
    [] op = "div" -> DivPair(x, y)

(* A map whose node may end the program.                                    *)
Mapped(xs, F(_)) ==
  LET items == [i \in DOMAIN xs |-> F(xs[i])] IN
  IF \E i \in DOMAIN items : ~items[i].ok THEN Dead
  ELSE Ok([i \in DOMAIN items |-> items[i].value])
Then(result, F(_)) == IF result.ok THEN F(result.value) ELSE result

(* zip faults unless the lengths agree.                                     *)
Zipped(xs, ys) ==
  IF Len(xs) # Len(ys) THEN Dead ELSE Ok([i \in DOMAIN xs |-> <<xs[i], ys[i]>>])
BroadcastRight(xs, y) == [i \in DOMAIN xs |-> <<xs[i], y>>]
BroadcastLeft(x, ys) == [i \in DOMAIN ys |-> <<x, ys[i]>>]

VectorBinary(op, xs, ys) ==
  Then(Zipped(xs, ys), LAMBDA ps : Mapped(ps, LAMBDA p : Pair(op, p[1], p[2])))
VectorScalar(op, xs, y, scalarLeft) ==
  Mapped(IF scalarLeft THEN BroadcastLeft(y, xs) ELSE BroadcastRight(xs, y),
         LAMBDA p : Pair(op, p[1], p[2]))

Sigmoid(x) == Ratio(1, Exp(-x) + 1)
UnaryValue(op, x) ==
  CASE op = "neg" -> -x
    [] op = "abs" -> Absolute(x)
    [] op = "exp" -> Exp(x)
    [] op = "relu" -> Larger(x, 0)
    [] op = "sigmoid" -> Sigmoid(x)
    [] op = "silu" -> TimesRatio(x, Sigmoid(x))
VectorUnary(op, xs) == Ok([i \in DOMAIN xs |-> UnaryValue(op, xs[i])])

(* min and max start from the head of a sequence that must have one.        *)
VectorReduce(op, xs) ==
  IF op = "sum" THEN Ok(Total(xs))
  ELSE IF xs = <<>> THEN Dead
  ELSE Ok(FoldLeft(LAMBDA a, b : IF op = "min" THEN Smaller(a, b) ELSE Larger(a, b),
                   Head(xs), Tail(xs)))

Dot(xs, ys) ==
  Then(VectorBinary("mul", xs, ys), LAMBDA products : Ok(Total(products)))
SquaredNorm(xs) == Ok(Total([i \in DOMAIN xs |-> xs[i] * xs[i]]))
SquaredDistance(xs, ys) == Then(VectorBinary("sub", xs, ys), SquaredNorm)

(* The exponentials of the offsets from the greatest, over their sum.       *)
Softmax(xs) ==
  Then(VectorReduce("max", xs),
       LAMBDA offset :
         LET powers == [i \in DOMAIN xs |-> Exp(xs[i] - offset)]
         IN  VectorScalar("div", powers, Total(powers), FALSE))

-----------------------------------------------------------------------------
(* std.matrix.                                                              *)

(* seq.transpose faults on rows of different lengths.                       *)
Transposed(m) ==
  IF \E r \in DOMAIN m : Len(m[r]) # Len(m[1]) THEN Dead
  ELSE Ok(IF m = <<>> THEN <<>>
          ELSE [c \in DOMAIN m[1] |-> [r \in DOMAIN m |-> m[r][c]]])

MatrixBinary(op, l, r) ==
  Then(Zipped(l, r),
       LAMBDA ps : Mapped(ps, LAMBDA p : VectorBinary(op, p[1], p[2])))
MatrixScalar(op, m, y, scalarLeft) ==
  Mapped(m, LAMBDA row : VectorScalar(op, row, y, scalarLeft))
MatrixRow(op, m, row) ==
  Mapped(BroadcastRight(m, row), LAMBDA p : VectorBinary(op, p[1], p[2]))

(* dot_row over every row, over every column, and over both.                *)
Matvec(m, v) == Mapped(m, LAMBDA row : Dot(row, v))
Vecmat(v, m) == Then(Transposed(m), LAMBDA columns : Matvec(columns, v))
Matmul(l, r) ==
  Then(Transposed(r), LAMBDA columns : Mapped(l, LAMBDA row : Matvec(columns, row)))

Outer(xs, ys) == Mapped(xs, LAMBDA x : VectorScalar("mul", ys, x, TRUE))
RowSoftmax(m) == Mapped(m, Softmax)
MatrixSum(m) == Total([r \in DOMAIN m |-> Total(m[r])])
=============================================================================
