----------------------------- MODULE Arithmetic -----------------------------
(***************************************************************************)
(* Numeric nodes as each target computes them: the functions of            *)
(* stdlib/runtime.c, which the C back end and native LLVM call; the        *)
(* functions direct_llvm.rs defines inside a WASM module; and the          *)
(* TypeScript prelude.  A node declared to return a plain number aborts    *)
(* where the one declared Faultable faults: "checked" and "faultable".     *)
(* i32 and i64 differ only in Width.                                       *)
(***************************************************************************)
EXTENDS Integers, Results

CONSTANT Width   \* the bits of an integer

ASSUME WidthAssumption == Width \in Nat \ {0}

(* The powers of two: the integers a register of n bits can hold, and what  *)
(* a shift by n multiplies or divides by.                                   *)
Power[n \in 0 .. Width] == IF n = 0 THEN 1 ELSE 2 * Power[n - 1]

IntMin == -Power[Width - 1]
IntMax == Power[Width - 1] - 1
Ints == IntMin .. IntMax
(* Two's complement: the Ints an n-bit register can hold for n.             *)
Wrap(n) == ((n - IntMin) % Power[Width]) + IntMin
Unsigned(n) == n % Power[Width]

Magnitude(n) == IF n < 0 THEN -n ELSE n
(* Division that truncates toward zero, as in C, LLVM and BigInt.           *)
TruncDiv(a, b) ==
  LET q == Magnitude(a) \div Magnitude(b) IN IF (a < 0) = (b < 0) THEN q ELSE -q
TruncRem(a, b) == a - b * TruncDiv(a, b)

Exact(op, a, b) ==
  CASE op = "add" -> a + b
    [] op = "sub" -> a - b
    [] op = "mul" -> a * b
    [] op = "div" -> TruncDiv(a, b)
    [] op = "rem" -> TruncRem(a, b)
Overflowing == {"add", "sub", "mul"}
Dividing == {"div", "rem"}

-----------------------------------------------------------------------------
(* stdlib/runtime.c: __builtin_*_overflow computes the wrapped result and   *)
(* tells whether it is not the exact one.                                   *)
BuiltinOverflow(op, a, b) == Wrap(Exact(op, a, b)) # Exact(op, a, b)

CChecked(op, a, b) ==
  IF op \in Overflowing
  THEN IF BuiltinOverflow(op, a, b) THEN Dead ELSE Ok(Exact(op, a, b))
  ELSE IF b = 0 \/ (a = IntMin /\ b = -1) THEN Dead
  ELSE Ok(Exact(op, a, b))

(* Not the code: the smallest integer divided by -1 is not excluded. *)
CFaultableDividingMin(op, a, b) ==
  IF op \in Overflowing
  THEN IF BuiltinOverflow(op, a, b) THEN Fault("overflow") ELSE Ok(Exact(op, a, b))
  ELSE IF b = 0 THEN Fault("by_zero") ELSE Ok(Wrap(Exact(op, a, b)))

CFaultable(op, a, b) ==
  IF op \in Overflowing
  THEN IF BuiltinOverflow(op, a, b) THEN Fault("overflow") ELSE Ok(Exact(op, a, b))
  ELSE IF b = 0 THEN Fault("by_zero")
  ELSE IF a = IntMin /\ b = -1 THEN Fault("overflow")
  ELSE Ok(Exact(op, a, b))

Unary(op, a) == IF op = "neg" \/ a < 0 THEN -a ELSE a
CCheckedUnary(op, a) == IF a = IntMin THEN Dead ELSE Ok(Unary(op, a))
CFaultableUnary(op, a) == IF a = IntMin THEN Fault("overflow") ELSE Ok(Unary(op, a))

CMin(a, b) == Ok(IF a < b THEN a ELSE b)
CMax(a, b) == Ok(IF a > b THEN a ELSE b)

(* A shift count outside the register is undefined: no result is named.     *)
CShiftLeftBits(a, n) == Ok(Wrap(a * Power[n]))
CShiftRightBits(a, n) == Ok(a \div Power[n])

-----------------------------------------------------------------------------
(* Direct LLVM on a native target calls the C functions; these are its own  *)
(* instructions.                                                            *)
LlvmShiftLeftBits(a, n) == Ok(Wrap(a * Power[n]))
(* lshr: zeros are shifted in.                                              *)
LlvmShiftRightBits(a, n) == Ok(Wrap(Unsigned(a) \div Power[n]))

(* WASM: llvm.s*.with.overflow and a trap, or a fault without a message.    *)
TrapIf(bad, result) == IF bad THEN Dead ELSE Ok(result)
FaultIf(bad, result) == IF bad THEN Fault("") ELSE Ok(result)

WasmCheckedOverflow(op, a, b) ==
  TrapIf(BuiltinOverflow(op, a, b), Wrap(Exact(op, a, b)))
WasmFaultableOverflow(op, a, b) ==
  FaultIf(BuiltinOverflow(op, a, b), Wrap(Exact(op, a, b)))
WasmCheckedDivRem(op, a, b) ==
  LET isZero == b = 0
      overflow == a = IntMin /\ b = -1
  IN IF isZero \/ overflow THEN Dead ELSE Ok(Exact(op, a, b))

(* Not the code: the overflow test asks for either of its conditions. *)
WasmFaultableDivRemEither(op, a, b) ==
  IF b = 0 \/ a = IntMin \/ b = -1 THEN Fault("") ELSE Ok(Exact(op, a, b))

WasmFaultableDivRem(op, a, b) ==
  LET isZero == b = 0
      overflow == a = IntMin /\ b = -1
  IN IF isZero \/ overflow THEN Fault("") ELSE Ok(Exact(op, a, b))

WasmUnaryValue(op, a) == Wrap(IF op = "neg" \/ a < 0 THEN -a ELSE a)
WasmCheckedUnary(op, a) == TrapIf(a = IntMin, WasmUnaryValue(op, a))
WasmFaultableUnary(op, a) == FaultIf(a = IntMin, WasmUnaryValue(op, a))
WasmChecked(op, a, b) ==
  IF op \in Overflowing THEN WasmCheckedOverflow(op, a, b) ELSE WasmCheckedDivRem(op, a, b)
WasmFaultable(op, a, b) ==
  IF op \in Overflowing THEN WasmFaultableOverflow(op, a, b)
  ELSE WasmFaultableDivRem(op, a, b)

-----------------------------------------------------------------------------
(* TypeScript: an unbounded result (a BigInt, or a double that holds any    *)
(* i32 result's magnitude) tested against the bounds of the type.           *)
AssertInt(n) == IF n < IntMin \/ n > IntMax THEN Dead ELSE Ok(n)
TsChecked(op, a, b) ==
  IF op \in Overflowing THEN AssertInt(Exact(op, a, b))
  ELSE IF b = 0 \/ (a = IntMin /\ b = -1) THEN Dead
  ELSE Ok(Exact(op, a, b))
TsFaultable(op, a, b) ==
  IF op \in Overflowing
  THEN LET n == Exact(op, a, b)
       IN IF n < IntMin \/ n > IntMax THEN Fault("overflow") ELSE Ok(n)
  ELSE IF b = 0 THEN Fault("by_zero")
  ELSE IF a = IntMin /\ b = -1 THEN Fault("overflow")
  ELSE Ok(Exact(op, a, b))
TsCheckedUnary(op, a) == IF a = IntMin THEN Dead ELSE Ok(Unary(op, a))
TsFaultableUnary(op, a) == IF a = IntMin THEN Fault("overflow") ELSE Ok(Unary(op, a))
TsMin(a, b) == Ok(IF a <= b THEN a ELSE b)
TsMax(a, b) == Ok(IF a >= b THEN a ELSE b)
(* BigInt shifts do not wrap, and a negative count shifts the other way.    *)
TsShiftRightBits(a, n) == Ok(IF n < 0 THEN a * Power[-n] ELSE a \div Power[n])
TsShiftLeftBits(a, n) == TsShiftRightBits(a, -n)

(* The functions written again into the source of a scalar worker.  A       *)
(* mapper is compiled to one only if its faultable nodes are additions,     *)
(* subtractions and multiplications: the others run on the main thread.     *)
WorkerChecked(op, a, b) ==
  IF op \in Overflowing THEN AssertInt(Exact(op, a, b))
  ELSE IF b = 0 \/ (a = IntMin /\ b = -1) THEN Dead
  ELSE Ok(Exact(op, a, b))
WorkerFaultable(op, a, b) ==
  IF op \notin Overflowing THEN TsFaultable(op, a, b)
  ELSE IF Exact(op, a, b) < IntMin \/ Exact(op, a, b) > IntMax THEN Fault("overflow")
  ELSE Ok(Exact(op, a, b))
WorkerCheckedUnary(op, a) == IF a = IntMin THEN Dead ELSE Ok(Unary(op, a))

-----------------------------------------------------------------------------
(* Floating point: integers stand for finite values, and four values for    *)
(* the special ones.  Rounding is left out: every target rounds alike.      *)
NegZero == 1000
Infinity == 2000
NegInfinity == -2000
NaN == 3000

Infinite(x) == x \in {Infinity, NegInfinity}
Numeric(x) == IF x = NegZero THEN 0 ELSE x
Less(x, y) == NaN \notin {x, y} /\ Numeric(x) < Numeric(y)
Equal(x, y) == NaN \notin {x, y} /\ Numeric(x) = Numeric(y)
SignBit(x) == x = NegZero \/ x < 0
(* A zero, or an infinity, with the sign of a product or quotient.          *)
Signed(zero, negative) ==
  IF zero THEN IF negative THEN NegZero ELSE 0
  ELSE IF negative THEN NegInfinity ELSE Infinity

FNeg(x) ==
  CASE x = NaN -> NaN [] x = 0 -> NegZero [] x = NegZero -> 0 [] OTHER -> -x
(* fmod, and JavaScript's %: exact, with the sign of the left operand.      *)
FRem(x, y) ==
  IF NaN \in {x, y} \/ Infinite(x) THEN NaN
  ELSE IF Infinite(y) THEN x
  ELSE LET r == TruncRem(Numeric(x), Numeric(y))
       IN IF r = 0 THEN Signed(TRUE, SignBit(x)) ELSE r
(* trunc(x / y) for a y that is not zero.                                   *)
FTruncQuotient(x, y) ==
  LET negative == SignBit(x) # SignBit(y)
  IN IF NaN \in {x, y} \/ (Infinite(x) /\ Infinite(y)) THEN NaN
     ELSE IF Infinite(x) THEN Signed(FALSE, negative)
     ELSE IF Infinite(y) THEN Signed(TRUE, negative)
     ELSE LET q == TruncDiv(Numeric(x), Numeric(y))
          IN IF q = 0 THEN Signed(TRUE, negative) ELSE q
FMul(x, y) ==
  LET negative == SignBit(x) # SignBit(y)
  IN IF NaN \in {x, y} \/ (Infinite(x) /\ Numeric(y) = 0)
                       \/ (Infinite(y) /\ Numeric(x) = 0) THEN NaN
     ELSE IF Infinite(x) \/ Infinite(y) THEN Signed(FALSE, negative)
     ELSE IF Numeric(x) * Numeric(y) = 0 THEN Signed(TRUE, negative)
     ELSE x * y
FSub(x, y) ==
  IF NaN \in {x, y} \/ (Infinite(x) /\ x = y) THEN NaN
  ELSE IF Infinite(x) THEN x
  ELSE IF Infinite(y) THEN FNeg(y)
  ELSE IF x = NegZero /\ y = 0 THEN NegZero
  ELSE Numeric(x) - Numeric(y)

(* The quotient itself is the same instruction everywhere: only the test    *)
(* for zero differs, and the remainder of WASM.                             *)
FloatValue(op, x, y) == IF op = "rem" THEN FRem(x, y) ELSE FTruncQuotient(x, y)
CCheckedFloat(op, x, y) == IF Equal(y, 0) THEN Dead ELSE Ok(FloatValue(op, x, y))
CFaultableFloat(op, x, y) ==
  IF Equal(y, 0) THEN Fault("by_zero") ELSE Ok(FloatValue(op, x, y))
WasmFloatValue(op, x, y) ==
  IF op = "rem" THEN FSub(x, FMul(FTruncQuotient(x, y), y)) ELSE FTruncQuotient(x, y)
WasmCheckedFloat(op, x, y) == TrapIf(Equal(y, 0), WasmFloatValue(op, x, y))
WasmFaultableFloat(op, x, y) == FaultIf(Equal(y, 0), WasmFloatValue(op, x, y))
TsCheckedFloat(op, x, y) == IF Equal(y, 0) THEN Dead ELSE Ok(FloatValue(op, x, y))
TsFaultableFloat(op, x, y) ==
  IF Equal(y, 0) THEN Fault("by_zero") ELSE Ok(FloatValue(op, x, y))
WorkerCheckedFloat(op, x, y) ==
  IF Equal(y, 0) THEN Dead ELSE Ok(FloatValue(op, x, y))

(* The root of a square; a negative number has none.                        *)
Root(x) ==
  CASE x \in {NaN, NegZero, Infinity} -> x
    [] OTHER -> CHOOSE r \in 0 .. x : r * r <= x /\ (r + 1) * (r + 1) > x
CCheckedSqrt(x) == IF Less(x, 0) THEN Dead ELSE Ok(Root(x))
CFaultableSqrt(x) == IF Less(x, 0) THEN Fault("negative") ELSE Ok(Root(x))
WasmCheckedSqrt(x) == IF Less(x, 0) THEN Dead ELSE Ok(Root(x))
WasmFaultableSqrt(x) == IF Less(x, 0) THEN Fault("") ELSE Ok(Root(x))
TsCheckedSqrt(x) == IF Less(x, 0) THEN Dead ELSE Ok(Root(x))
WorkerCheckedSqrt(x) == IF Less(x, 0) THEN Dead ELSE Ok(Root(x))
TsFaultableSqrt(x) == IF Less(x, 0) THEN Fault("negative") ELSE Ok(Root(x))

CFloatAbs(x) == IF x # NaN /\ SignBit(x) THEN FNeg(x) ELSE x
(* Negated where less than zero, which a negative zero is not.              *)
LlvmFloatAbs(x) == IF Less(x, 0) THEN FNeg(x) ELSE x
CFloatMin(x, y) == IF Less(x, y) THEN x ELSE y
CFloatMax(x, y) == IF Less(y, x) THEN x ELSE y
TsFloatMin(x, y) == IF Less(x, y) \/ Equal(x, y) THEN x ELSE y
TsFloatMax(x, y) == IF Less(y, x) \/ Equal(x, y) THEN x ELSE y

(* Comparison of two integers or two floats.                                *)
Compare(op, x, y) ==
  LET holds == CASE op = "eq" -> Equal(x, y)
                 [] op = "lt" -> Less(x, y)
                 [] op = "gt" -> Less(y, x)
                 [] op = "le" -> Less(x, y) \/ Equal(x, y)
                 [] op = "ge" -> Less(y, x) \/ Equal(x, y)
  IN Ok(IF holds THEN 1 ELSE 0)
=============================================================================
