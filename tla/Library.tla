------------------------------ MODULE Library ------------------------------
(***************************************************************************)
(* A chain of standard library calls, run side by side on every target:    *)
(* the C back end, direct LLVM for a native process and for WASM,          *)
(* TypeScript, and a TypeScript scalar worker.  The value in the pipe is   *)
(* followed on each of them and by its documented meaning.  A call on which *)
(* some targets are known to part from that meaning names them in `stray`  *)
(* and ends the behaviour.                                                 *)
(***************************************************************************)
EXTENDS SequenceLibrary, Arithmetic
Seqs == INSTANCE SequencesExt

CONSTANTS
  MaxLen,    \* bound: the longest sequence
  MaxRow,    \* bound: the longest row of a nested sequence at the start
  MaxFloat   \* bound: the greatest finite float

Bits == 0 .. 1

(* Lengths and bits are integers, and finite floats are not special ones.   *)
ASSUME LibraryBounds ==
  /\ MaxLen \in Nat /\ MaxRow \in Nat /\ MaxFloat \in Nat
  /\ Bits \cup {MaxLen, MaxRow} \subseteq Ints
  /\ MaxFloat < NegZero

Targets == {"c", "llvm", "wasm", "ts", "worker"}
Llvm == {"llvm", "wasm"}
TypeScript == {"ts", "worker"}
SeqsOf(S, n) == UNION {[1 .. k -> S] : k \in 0 .. n}
ItemSeqs == SeqsOf(Bits, MaxLen)
Floats == (-MaxFloat .. MaxFloat) \cup {NegZero, Infinity, NegInfinity, NaN}
Faultables == {Ok(v) : v \in Bits} \cup {Fault("first"), Fault("second")}
Counts == -1 .. MaxLen + 1

VARIABLES
  shape,   \* the type of the value: "int", "float", "bit", "seq", "rows", ...
  value,   \* the value, or how the process ended, on each target
  meant,   \* the same by the documented meaning of the nodes
  stray    \* the targets known to part from it on the last call

vars == <<shape, value, meant, stray>>

Start(s, v) ==
  /\ shape = s /\ meant = Ok(v) /\ stray = {}
  /\ value = [b \in Targets |-> Ok(v)]
Init ==
  \/ \E v \in Ints : Start("int", v)
  \/ \E v \in Floats : Start("float", v)
  \/ \E v \in ItemSeqs : Start("seq", v)
  \/ \E v \in SeqsOf(SeqsOf(Bits, MaxRow), MaxLen) : Start("rows", v)
  \/ \E v \in SeqsOf(Faultables, MaxLen) : Start("items", v)

(* A call goes on from a value every target has, each with its own; one     *)
(* whose result is a longer sequence than the bound is left out.            *)
On(from) == shape = from /\ meant.ok /\ stray = {}
In(b) == value[b].value
Result(to, meaning, results, strays) ==
  /\ shape' = to
  /\ stray' = strays
  /\ meant' = meaning
  /\ value' = results
  /\ (to \in {"seq", "rows", "pairs"} /\ meaning.ok) => Len(meaning.value) <= MaxLen

(* What target b runs of a scalar node.                                     *)
Scalar(b, c, wasm, ts, worker) ==
  IF b \in {"c", "llvm"} THEN c
  ELSE IF b = "wasm" THEN wasm
  ELSE IF b = "ts" THEN ts ELSE worker
(* And of a sequence node: a WASM module has the ones direct LLVM emits, and *)
(* a mapper with one is not compiled to a worker: it runs on the main thread. *)
Compiled(b, c, llvm, ts) ==
  IF b = "c" THEN c ELSE IF b \in Llvm THEN llvm ELSE ts

Failure(faultable) == IF faultable THEN Fault("") ELSE Dead

-----------------------------------------------------------------------------
(* Integers and floats.                                                     *)
IntBinary ==
  /\ On("int")
  /\ \E op \in Overflowing \cup Dividing, y \in Ints, faultable \in BOOLEAN :
       LET x0 == meant.value
           bad == \/ op \in Dividing /\ (y = 0 \/ (x0 = IntMin /\ y = -1))
                  \/ op \in Overflowing /\ Exact(op, x0, y) \notin Ints
       IN Result("int", IF bad THEN Failure(faultable) ELSE Ok(Exact(op, x0, y)),
            [b \in Targets |->
               IF faultable
               THEN Scalar(b, CFaultable(op, In(b), y), WasmFaultable(op, In(b), y),
                           TsFaultable(op, In(b), y), WorkerFaultable(op, In(b), y))
               ELSE Scalar(b, CChecked(op, In(b), y), WasmChecked(op, In(b), y),
                           TsChecked(op, In(b), y), WorkerChecked(op, In(b), y))], {})

IntUnary ==
  /\ On("int")
  /\ \E op \in {"neg", "abs"}, faultable \in BOOLEAN :
       LET x0 == meant.value
       IN Result("int",
            IF x0 = IntMin THEN Failure(faultable)
            ELSE Ok(IF op = "abs" THEN Magnitude(x0) ELSE -x0),
            [b \in Targets |->
               IF faultable
               THEN Scalar(b, CFaultableUnary(op, In(b)), WasmFaultableUnary(op, In(b)),
                           TsFaultableUnary(op, In(b)), TsFaultableUnary(op, In(b)))
               ELSE Scalar(b, CCheckedUnary(op, In(b)), WasmCheckedUnary(op, In(b)),
                           TsCheckedUnary(op, In(b)), WorkerCheckedUnary(op, In(b)))], {})

IntMinMax ==
  /\ On("int")
  /\ \E least \in BOOLEAN, y \in Ints :
       LET both == {meant.value, y}
       IN Result("int",
            Ok(CHOOSE m \in both : \A o \in both : IF least THEN m <= o ELSE m >= o),
            [b \in Targets |->
               IF least THEN Compiled(b, CMin(In(b), y), CMin(In(b), y), TsMin(In(b), y))
               ELSE Compiled(b, CMax(In(b), y), CMax(In(b), y), TsMax(In(b), y))], {})

(* Shifts by less than the width: LLVM shifts zeros into a negative number, *)
(* and BigInts do not drop the bits that leave the register.                *)
Shift ==
  /\ On("int")
  /\ \E n \in 0 .. Width - 1 :
       LET x0 == meant.value
       IN \/ Result("int", CShiftRightBits(x0, n),
               [b \in Targets |->
                  Compiled(b, CShiftRightBits(In(b), n), LlvmShiftRightBits(In(b), n),
                           TsShiftRightBits(In(b), n))],
               IF x0 < 0 /\ n > 0 THEN Llvm ELSE {})
          \/ Result("int", CShiftLeftBits(x0, n),
               [b \in Targets |->
                  Compiled(b, CShiftLeftBits(In(b), n), LlvmShiftLeftBits(In(b), n),
                           TsShiftLeftBits(In(b), n))],
               IF x0 * Power[n] \notin Ints THEN TypeScript ELSE {})

(* Any other count is undefined in C and poison in LLVM.                    *)
UndefinedShift ==
  /\ On("int")
  /\ \E n \in {-1, Width}, any, other \in Ints :
       Result("int", Ok(any),
         [b \in Targets |-> Compiled(b, Ok(any), Ok(other), TsShiftRightBits(In(b), n))],
         Targets)

FloatBinary ==
  /\ On("float")
  /\ \E op \in Dividing, y \in Floats, faultable \in BOOLEAN :
       LET x0 == meant.value
           (* x - trunc(x / y) * y is not fmod(x, y) for an infinite y, and *)
           (* its zeros are positive.                                       *)
           parts == /\ op = "rem" /\ NaN \notin {x0, y} /\ ~Infinite(x0)
                    /\ y \notin {0, NegZero}
                    /\ \/ Infinite(y)
                       \/ SignBit(x0) /\ TruncRem(Numeric(x0), Numeric(y)) = 0
       IN Result("float",
            IF y \in {0, NegZero} THEN Failure(faultable) ELSE Ok(FloatValue(op, x0, y)),
            [b \in Targets |->
               IF faultable
               THEN Scalar(b, CFaultableFloat(op, In(b), y), WasmFaultableFloat(op, In(b), y),
                           TsFaultableFloat(op, In(b), y), TsFaultableFloat(op, In(b), y))
               ELSE Scalar(b, CCheckedFloat(op, In(b), y), WasmCheckedFloat(op, In(b), y),
                           TsCheckedFloat(op, In(b), y), WorkerCheckedFloat(op, In(b), y))],
            IF parts THEN {"wasm"} ELSE {})

SquareRoot ==
  /\ On("float")
  /\ \E faultable \in BOOLEAN :
       LET x0 == meant.value
       IN Result("float",
            IF x0 # NaN /\ Numeric(x0) < 0 THEN Failure(faultable) ELSE Ok(Root(x0)),
            [b \in Targets |->
               IF faultable
               THEN Scalar(b, CFaultableSqrt(In(b)), WasmFaultableSqrt(In(b)),
                           TsFaultableSqrt(In(b)), TsFaultableSqrt(In(b)))
               ELSE Scalar(b, CCheckedSqrt(In(b)), WasmCheckedSqrt(In(b)),
                           TsCheckedSqrt(In(b)), WorkerCheckedSqrt(In(b)))], {})

FloatAbs ==
  /\ On("float")
  /\ LET x0 == meant.value
     IN Result("float", Ok(IF x0 = NegZero THEN 0 ELSE IF x0 < 0 THEN -x0 ELSE x0),
          [b \in Targets |->
             Compiled(b, Ok(CFloatAbs(In(b))), Ok(LlvmFloatAbs(In(b))), Ok(CFloatAbs(In(b))))],
          IF x0 = NegZero THEN Llvm ELSE {})

FloatMinMax ==
  /\ On("float")
  /\ \E least \in BOOLEAN, y \in Floats :
       LET x0 == meant.value
       IN Result("float", Ok(IF least THEN CFloatMin(x0, y) ELSE CFloatMax(x0, y)),
            [b \in Targets |->
               IF least
               THEN Compiled(b, Ok(CFloatMin(In(b), y)), Ok(CFloatMin(In(b), y)),
                             Ok(TsFloatMin(In(b), y)))
               ELSE Compiled(b, Ok(CFloatMax(In(b), y)), Ok(CFloatMax(In(b), y)),
                             Ok(TsFloatMax(In(b), y)))],
            IF x0 # y /\ Equal(x0, y) THEN TypeScript ELSE {})

Comparison ==
  /\ shape \in {"int", "float"} /\ On(shape)
  /\ \E op \in {"eq", "lt", "gt", "le", "ge"},
        y \in IF shape = "int" THEN Ints ELSE Floats :
       Result("bit", Compare(op, meant.value, y),
              [b \in Targets |-> Compare(op, In(b), y)], {})

-----------------------------------------------------------------------------
(* Sequences made from a value, and values taken from a sequence.           *)
Fill ==
  /\ On("int")
  /\ \E n \in Counts :
       Result("seq", IF n < 0 THEN Dead ELSE Ok([k \in 1 .. n |-> meant.value]),
         [b \in Targets |->
            Compiled(b, CFill(In(b), n), LlvmFill(In(b), n), TsFill(In(b), n))],
         IF n >= 0 /\ (n = meant.value \/ (n = 0 /\ meant.value < 0)) THEN {}
         ELSE TypeScript)

(* As many steps as stay short of the end.                                  *)
RangeStep ==
  /\ On("int")
  /\ \E stop \in Ints, step \in Ints :
       LET start == meant.value
           Past(k) == IF step > 0 THEN start + k * step >= stop ELSE start + k * step <= stop
           n == CHOOSE k \in 0 .. Power[Width] :
                  Past(k) /\ \A j \in 0 .. k - 1 : ~Past(j)
       IN Result("seq",
            IF step = 0 THEN Dead ELSE Ok([k \in 1 .. n |-> start + (k - 1) * step]),
            [b \in Targets |->
               Compiled(b, CRangeStep(In(b), stop, step), LlvmRangeStep(In(b), stop, step),
                        TsRangeStep(In(b), stop, step))], {})

HeadOrLast ==
  /\ On("seq")
  /\ LET xs0 == meant.value
     IN \/ Result("int", IF xs0 = <<>> THEN Fault("") ELSE Ok(Head(xs0)),
             [b \in Targets |-> Compiled(b, CHead(In(b)), LlvmHead(In(b)), TsHead(In(b)))], {})
        \/ Result("int", IF xs0 = <<>> THEN Fault("") ELSE Ok(Seqs!Last(xs0)),
             [b \in Targets |-> Compiled(b, CLast(In(b)), LlvmLast(In(b)), TsLast(In(b)))], {})

(* The TypeScript `at` and `get` answer in each other's shape.              *)
AtOrGet ==
  /\ On("seq")
  /\ \E i \in Counts :
       LET found == i + 1 \in DOMAIN meant.value
           item == Ok(meant.value[i + 1])
       IN \/ Result("int", IF found THEN item ELSE Fault(""),
               [b \in Targets |->
                  Compiled(b, CAt(In(b), i), LlvmAt(In(b), i), TsAt(In(b), i))], TypeScript)
          \/ Result("int", IF found THEN item ELSE Dead,
               [b \in Targets |->
                  Compiled(b, CGet(In(b), i), LlvmGet(In(b), i), TsGet(In(b), i))], TypeScript)

GetOr ==
  /\ On("seq")
  /\ \E i \in Counts, v \in Bits :
       Result("int", Ok(IF i + 1 \in DOMAIN meant.value THEN meant.value[i + 1] ELSE v),
         [b \in Targets |->
            Compiled(b, CGetOr(In(b), i, v), LlvmGetOr(In(b), i, v), TsGetOr(In(b), i, v))], {})

SetItem ==
  /\ On("seq")
  /\ \E i \in Counts, v \in Bits :
       Result("seq",
         IF i + 1 \in DOMAIN meant.value THEN Ok([meant.value EXCEPT ![i + 1] = v]) ELSE Dead,
         [b \in Targets |->
            Compiled(b, CSet(In(b), i, v), LlvmSet(In(b), i, v), TsSet(In(b), i, v))],
         TypeScript)

(* `all` and `any` read Bools.                                              *)
AllOrAny ==
  /\ On("seq") /\ \A k \in DOMAIN meant.value : meant.value[k] \in Bits
  /\ \E every \in BOOLEAN :
       LET bits == Seqs!ToSet(meant.value)
       IN Result("bit",
            Ok(IF every THEN IF 0 \in bits THEN 0 ELSE 1 ELSE IF 1 \in bits THEN 1 ELSE 0),
            [b \in Targets |->
               Compiled(b, CAllAny(In(b), every), LlvmAllAny(In(b), every),
                        TsAllAny(In(b), every))], {})

-----------------------------------------------------------------------------
(* Sequences from sequences.                                                *)
TailOrReverse ==
  /\ On("seq")
  /\ LET xs0 == meant.value
     IN \/ Result("seq", Ok(IF xs0 = <<>> THEN xs0 ELSE Tail(xs0)),
             [b \in Targets |-> Compiled(b, CTail(In(b)), LlvmTail(In(b)), TsTail(In(b)))], {})
        \/ Result("seq", Ok(Seqs!Reverse(xs0)),
             [b \in Targets |->
                Compiled(b, CReverse(In(b)), LlvmReverse(In(b)), TsReverse(In(b)))], {})

(* JavaScript's slice takes what the natives reject.                        *)
TakeOrDrop ==
  /\ On("seq")
  /\ \E n \in Counts :
       LET xs0 == meant.value
           kept == IF n > Len(xs0) THEN Len(xs0) ELSE n
           strays == IF n < 0 THEN TypeScript ELSE {}
       IN \/ Result("seq", IF n < 0 THEN Dead ELSE Ok(SubSeq(xs0, 1, kept)),
               [b \in Targets |->
                  Compiled(b, CTake(In(b), n), LlvmTake(In(b), n), TsTake(In(b), n))], strays)
          \/ Result("seq", IF n < 0 THEN Dead ELSE Ok(SubSeq(xs0, kept + 1, Len(xs0))),
               [b \in Targets |->
                  Compiled(b, CDrop(In(b), n), LlvmDrop(In(b), n), TsDrop(In(b), n))], strays)

Slice ==
  /\ On("seq")
  /\ \E from, to \in Counts :
       LET inside == 0 <= from /\ from <= to /\ to <= Len(meant.value)
       IN Result("seq", IF inside THEN Ok(SubSeq(meant.value, from + 1, to)) ELSE Dead,
            [b \in Targets |->
               Compiled(b, CSlice(In(b), from, to), LlvmSlice(In(b), from, to),
                        TsSlice(In(b), from, to))],
            IF inside THEN {} ELSE TypeScript)

AppendItem ==
  /\ On("seq")
  /\ \E v \in Bits :
       Result("seq", Ok(Append(meant.value, v)),
         [b \in Targets |->
            Compiled(b, CAppend(In(b), v), LlvmAppend(In(b), v), TsAppend(In(b), v))], {})

Concat ==
  /\ On("seq")
  /\ \E ys \in ItemSeqs :
       Result("seq", Ok(meant.value \o ys),
         [b \in Targets |->
            Compiled(b, CConcat(In(b), ys), LlvmConcat(In(b), ys), TsConcat(In(b), ys))], {})

(* A shift of an empty sequence stays empty, except in TypeScript; direct   *)
(* LLVM has no shift_left.                                                  *)
ShiftItems ==
  /\ On("seq")
  /\ \E v \in Bits :
       LET xs0 == meant.value
           odd == IF xs0 = <<>> THEN TypeScript ELSE {}
       IN \/ Result("seq", Ok(SubSeq(<<v>> \o xs0, 1, Len(xs0))),
               [b \in Targets |->
                  Compiled(b, CShiftRight(In(b), v), LlvmShiftRight(In(b), v),
                           TsShiftRight(In(b), v))], odd)
          \/ Result("seq", Ok(SubSeq(Append(xs0, v), 2, Len(xs0) + 1)),
               [b \in Targets |->
                  Compiled(b, CShiftLeft(In(b), v), LlvmShiftLeft(In(b), v),
                           TsShiftLeft(In(b), v))], odd \cup Llvm)

Zip ==
  /\ On("seq")
  /\ \E ys \in ItemSeqs :
       Result("pairs",
         IF Len(meant.value) = Len(ys) THEN Ok(Seqs!Zip(meant.value, ys)) ELSE Dead,
         [b \in Targets |->
            Compiled(b, CZip(In(b), ys), LlvmZip(In(b), ys), TsZip(In(b), ys))], {})

BroadcastRight ==
  /\ On("seq")
  /\ \E v \in Bits :
       Result("pairs", Ok(Seqs!Zip(meant.value, [k \in DOMAIN meant.value |-> v])),
         [b \in Targets |->
            Compiled(b, CBroadcastRight(In(b), v), LlvmBroadcastRight(In(b), v),
                     TsBroadcastRight(In(b), v))], {})
BroadcastLeft ==
  /\ On("int")
  /\ \E ys \in ItemSeqs :
       Result("pairs", Ok(Seqs!Zip([k \in DOMAIN ys |-> meant.value], ys)),
         [b \in Targets |->
            Compiled(b, CBroadcastLeft(In(b), ys), LlvmBroadcastLeft(In(b), ys),
                     TsBroadcastLeft(In(b), ys))], {})

(* One row for each id, in the order of the ids, with the items that follow *)
(* those of the smaller ids.                                                *)
GroupById ==
  /\ On("seq")
  /\ \E ids \in SeqsOf(0 .. 2, MaxLen) :
       LET xs0 == meant.value
           used == Seqs!ToSet(ids)
           Id(g) == CHOOSE i \in used : Cardinality({j \in used : j < i}) = g - 1
           Row(i) == SubSeq(xs0, Cardinality({k \in DOMAIN ids : ids[k] < i}) + 1,
                            Cardinality({k \in DOMAIN ids : ids[k] <= i}))
           sorted == \A j, k \in DOMAIN ids : j <= k => ids[j] <= ids[k]
           bothFail == Len(xs0) # Len(ids) /\ <<>> \in {xs0, ids}
       IN Result("rows",
            IF Len(xs0) = Len(ids) /\ sorted
            THEN Ok([g \in 1 .. Cardinality(used) |-> Row(Id(g))]) ELSE Dead,
            [b \in Targets |->
               Compiled(b, CGroupById(In(b), ids), LlvmGroupById(In(b), ids),
                        TsGroupById(In(b), ids))],
            Llvm \cup IF bothFail THEN {} ELSE TypeScript)

Flatten ==
  /\ On("rows")
  /\ Result("seq", Ok(Seqs!FlattenSeq(meant.value)),
       [b \in Targets |-> Compiled(b, CFlatten(In(b)), LlvmFlatten(In(b)), TsFlatten(In(b)))],
       {})

Transpose ==
  /\ On("rows")
  /\ LET rows0 == meant.value
     IN Result("rows",
          IF Cardinality({Len(rows0[r]) : r \in DOMAIN rows0}) > 1 THEN Dead
          ELSE Ok([c \in 1 .. (IF rows0 = <<>> THEN 0 ELSE Len(rows0[1])) |->
                     [r \in DOMAIN rows0 |-> rows0[r][c]]]),
          [b \in Targets |->
             Compiled(b, CTranspose(In(b)), LlvmTranspose(In(b)), TsTranspose(In(b)))], {})

InnerLength ==
  /\ On("rows")
  /\ Result("int", Ok(IF meant.value = <<>> THEN 0 ELSE Len(Head(meant.value))),
       [b \in Targets |->
          Compiled(b, CInnerLength(In(b)), LlvmInnerLength(In(b)), TsInnerLength(In(b)))], {})

(* The values of a sequence of Faultables, or its first fault.              *)
Collect ==
  /\ On("items")
  /\ LET items0 == meant.value
     IN Result("seq",
          IF \E k \in DOMAIN items0 : ~items0[k].ok THEN Fault("")
          ELSE Ok([k \in DOMAIN items0 |-> items0[k].value]),
          [b \in Targets |->
             Compiled(b, CCollect(In(b)), LlvmCollect(In(b)), TsCollect(In(b)))], {})

(* `expect` ends the process where a fault reaches it.                      *)
Expect ==
  /\ stray = {} /\ ~meant.ok /\ meant # Dead
  /\ meant' = Dead
  /\ value' = [b \in Targets |->
                 Compiled(b, CExpect(value[b]), LlvmExpect(value[b]), TsExpect(value[b]))]
  /\ UNCHANGED <<shape, stray>>

Next ==
  \/ IntBinary \/ IntUnary \/ IntMinMax \/ Shift \/ UndefinedShift
  \/ FloatBinary \/ SquareRoot \/ FloatAbs \/ FloatMinMax \/ Comparison
  \/ Fill \/ RangeStep \/ HeadOrLast \/ AtOrGet \/ GetOr \/ SetItem \/ AllOrAny
  \/ TailOrReverse \/ TakeOrDrop \/ Slice \/ AppendItem \/ Concat \/ ShiftItems
  \/ Zip \/ BroadcastRight \/ BroadcastLeft \/ GroupById \/ Flatten \/ Transpose
  \/ InnerLength \/ Collect \/ Expect

Spec == Init /\ [][Next]_vars
-----------------------------------------------------------------------------
Same(r, m) ==
  IF m.ok THEN r.ok /\ r.value = m.value
  ELSE /\ ~r.ok /\ (m = Dead <=> r = Dead)
       /\ r # WrongShape /\ r # Refused

(* Sequences mean the same everywhere: every sequence node, on exactly the  *)
(* targets not named for the call, leaves the items its documented meaning  *)
(* does, a fault where it says a fault, and an abort where it says a usage  *)
(* error (the runtime C of runtime_c.rs, the blocks of llvm_seq.rs, the     *)
(* prelude and array methods of typescript.rs).                             *)
SequencesKeepMeaning ==
  shape \in {"seq", "rows", "pairs"} =>
    \A b \in Targets : Same(value[b], meant) <=> b \notin stray

(* Scalars mean the same everywhere: checked and Faultable arithmetic, min  *)
(* and max, comparison, and the items taken out of sequences, whether C     *)
(* functions, LLVM instructions, functions of a WASM module or the          *)
(* TypeScript prelude compute them, on exactly the targets not named.       *)
ScalarsKeepMeaning ==
  (shape \in {"int", "float", "bit"} /\ stray # Targets) =>
    \A b \in Targets : Same(value[b], meant) <=> b \notin stray

(* Nodes undo each other: a sequence is rebuilt from what take and drop,    *)
(* slice, append and last, at and set, and group_by_id make of it, and      *)
(* reverse and transpose undo themselves, on each back end by itself.       *)
PartsRebuildTheWhole ==
  meant.ok =>
    CASE shape = "seq" ->
           LET xs == meant.value IN
           /\ \A n \in 0 .. Len(xs) + 1 :
                /\ CConcat(CTake(xs, n).value, CDrop(xs, n).value) = Ok(xs)
                /\ LlvmConcat(LlvmTake(xs, n).value, LlvmDrop(xs, n).value) = Ok(xs)
                /\ TsConcat(TsTake(xs, n).value, TsDrop(xs, n).value) = Ok(xs)
           /\ \A i \in 0 .. Len(xs), j \in 0 .. Len(xs) :
                i <= j =>
                  /\ CSlice(xs, i, j) = CDrop(CTake(xs, j).value, i)
                  /\ LlvmSlice(xs, i, j) = LlvmDrop(LlvmTake(xs, j).value, i)
                  /\ TsSlice(xs, i, j) = TsDrop(TsTake(xs, j).value, i)
           /\ CReverse(CReverse(xs).value) = Ok(xs)
           /\ LlvmReverse(LlvmReverse(xs).value) = Ok(xs)
           /\ TsReverse(TsReverse(xs).value) = Ok(xs)
           /\ xs # <<>> =>
                LET n == Len(xs) IN
                /\ CAppend(CTake(xs, n - 1).value, CLast(xs).value) = Ok(xs)
                /\ LlvmAppend(LlvmTake(xs, n - 1).value, LlvmLast(xs).value) = Ok(xs)
                /\ TsAppend(TsTake(xs, n - 1).value, TsLast(xs).value) = Ok(xs)
           /\ \A i \in 0 .. Len(xs) - 1 :
                /\ CSet(xs, i, CAt(xs, i).value) = Ok(xs)
                /\ LlvmSet(xs, i, LlvmAt(xs, i).value) = Ok(xs)
           /\ \A ids \in [DOMAIN xs -> Bits] :
                LET grouped == CGroupById(xs, ids)
                IN grouped.ok => CFlatten(grouped.value) = Ok(xs)
      [] shape = "rows" ->
           (meant.value # <<>> /\ meant.value[1] # <<>>) =>
             /\ LET C == CTranspose(meant.value)
                IN C.ok => CTranspose(C.value) = Ok(meant.value)
             /\ LET L == LlvmTranspose(meant.value)
                IN L.ok => LlvmTranspose(L.value) = Ok(meant.value)
             /\ LET T == TsTranspose(meant.value)
                IN T.ok => TsTranspose(T.value) = Ok(meant.value)
      [] OTHER -> TRUE

(* The two declarations of a numeric node differ only in how they fail:     *)
(* where the checked function of a target aborts, its Faultable one faults, *)
(* and elsewhere both give the same number; and quotient and remainder      *)
(* rebuild the number divided.                                              *)
FaultsMatchChecks ==
  LET Match(faultable, checked) ==
        IF checked.ok THEN faultable = checked
        ELSE checked = Dead /\ ~faultable.ok /\ faultable # Dead
      Rebuilds(q, r, x, y) == q.ok => r.ok /\ q.value * y + r.value = x
  IN meant.ok =>
       CASE shape = "int" ->
              LET x == meant.value IN
              /\ \A op \in {"neg", "abs"} :
                   /\ Match(CFaultableUnary(op, x), CCheckedUnary(op, x))
                   /\ Match(WasmFaultableUnary(op, x), WasmCheckedUnary(op, x))
                   /\ Match(TsFaultableUnary(op, x), TsCheckedUnary(op, x))
              /\ \A y \in Ints :
                   /\ \A op \in Overflowing \cup Dividing :
                        /\ Match(CFaultable(op, x, y), CChecked(op, x, y))
                        /\ Match(WasmFaultable(op, x, y), WasmChecked(op, x, y))
                        /\ Match(TsFaultable(op, x, y), TsChecked(op, x, y))
                   /\ \A op \in Overflowing :
                        Match(WorkerFaultable(op, x, y), WorkerChecked(op, x, y))
                   /\ Rebuilds(CFaultable("div", x, y), CFaultable("rem", x, y), x, y)
                   /\ Rebuilds(WasmFaultable("div", x, y), WasmFaultable("rem", x, y), x, y)
                   /\ Rebuilds(TsFaultable("div", x, y), TsFaultable("rem", x, y), x, y)
         [] shape = "float" ->
              LET x == meant.value IN
              /\ Match(CFaultableSqrt(x), CCheckedSqrt(x))
              /\ Match(WasmFaultableSqrt(x), WasmCheckedSqrt(x))
              /\ Match(TsFaultableSqrt(x), TsCheckedSqrt(x))
              /\ \A y \in Floats, op \in Dividing :
                   /\ Match(CFaultableFloat(op, x, y), CCheckedFloat(op, x, y))
                   /\ Match(WasmFaultableFloat(op, x, y), WasmCheckedFloat(op, x, y))
                   /\ Match(TsFaultableFloat(op, x, y), TsCheckedFloat(op, x, y))
         [] OTHER -> TRUE
=============================================================================
