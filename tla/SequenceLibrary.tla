--------------------------- MODULE SequenceLibrary ---------------------------
(***************************************************************************)
(* The sequence nodes of the standard library (std.seq, std.predicates,    *)
(* std.fault, `std.intrinsic`'s range_step) as each back end emits them:   *)
(* the C code of runtime_c.rs, the blocks llvm_seq.rs and llvm_stdlib.rs   *)
(* build, and the JavaScript of typescript.rs.  One operator per node and  *)
(* back end; positions count from zero as in the code, and a slot read     *)
(* outside its sequence yields Garbage.                                    *)
(***************************************************************************)
EXTENDS Integers, Sequences, FiniteSets, Results

(* What a slot outside a sequence, or one never written, reads as.          *)
Garbage == -99

LOCAL Least(a, b) == IF a < b THEN a ELSE b
LOCAL Greatest(a, b) == IF a > b THEN a ELSE b

(* The item at a position; a new sequence is filled slot by slot, the k-th  *)
(* slot at position k - 1.                                                  *)
Item(xs, i) == IF i + 1 \in DOMAIN xs THEN xs[i + 1] ELSE Garbage

Faulted(items) == {k \in DOMAIN items : ~items[k].ok}
FirstOf(S) == CHOOSE k \in S : \A l \in S : k <= l

-----------------------------------------------------------------------------
(* The C runtime: bounds tests, fa_die_usage, a loop that fills the slots.  *)

CHead(xs) == IF Len(xs) = 0 THEN Fault("empty") ELSE Ok(Item(xs, 0))
CLast(xs) == IF Len(xs) = 0 THEN Fault("empty") ELSE Ok(Item(xs, Len(xs) - 1))

CInRange(xs, i) == 0 <= i /\ i < Len(xs)
CAt(xs, i) == IF CInRange(xs, i) THEN Ok(Item(xs, i)) ELSE Fault("range")
CGet(xs, i) == IF CInRange(xs, i) THEN Ok(Item(xs, i)) ELSE Dead
CGetOr(xs, i, v) == Ok(IF CInRange(xs, i) THEN Item(xs, i) ELSE v)
CSet(xs, i, v) ==
  IF ~CInRange(xs, i) THEN Dead
  ELSE Ok([[k \in 1 .. Len(xs) |-> Item(xs, k - 1)] EXCEPT ![i + 1] = v])

CTail(xs) == Ok([k \in 1 .. Len(xs) - 1 |-> Item(xs, k)])
CReverse(xs) == Ok([k \in 1 .. Len(xs) |-> Item(xs, Len(xs) - k)])
CTake(xs, n) ==
  IF n < 0 THEN Dead ELSE Ok([k \in 1 .. Least(n, Len(xs)) |-> Item(xs, k - 1)])
CDrop(xs, n) ==
  LET offset == Least(n, Len(xs)) IN
  IF n < 0 THEN Dead
  ELSE Ok([k \in 1 .. Len(xs) - offset |-> Item(xs, offset + k - 1)])
CSlice(xs, from, to) ==
  IF from < 0 \/ to < from \/ to > Len(xs) THEN Dead
  ELSE Ok([k \in 1 .. to - from |-> Item(xs, from + k - 1)])
CFill(v, n) == IF n < 0 THEN Dead ELSE Ok([k \in 1 .. n |-> v])
CAppend(xs, v) ==
  Ok([k \in 1 .. Len(xs) + 1 |-> IF k <= Len(xs) THEN Item(xs, k - 1) ELSE v])
CConcat(xs, ys) ==
  Ok([k \in 1 .. Len(xs) + Len(ys) |->
        IF k <= Len(xs) THEN Item(xs, k - 1) ELSE Item(ys, k - 1 - Len(xs))])
CShiftRight(xs, v) ==
  Ok([k \in 1 .. Len(xs) |-> IF k = 1 THEN v ELSE Item(xs, k - 2)])
CShiftLeft(xs, v) ==
  Ok([k \in 1 .. Len(xs) |-> IF k < Len(xs) THEN Item(xs, k) ELSE v])

CZip(xs, ys) ==
  IF Len(xs) # Len(ys) THEN Dead
  ELSE Ok([k \in 1 .. Len(xs) |-> <<Item(xs, k - 1), Item(ys, k - 1)>>])
CBroadcastLeft(v, ys) == Ok([k \in 1 .. Len(ys) |-> <<v, Item(ys, k - 1)>>])
CBroadcastRight(xs, v) == Ok([k \in 1 .. Len(xs) |-> <<Item(xs, k - 1), v>>])
CInnerLength(rows) == Ok(IF Len(rows) = 0 THEN 0 ELSE Len(Item(rows, 0)))
CTranspose(rows) ==
  LET cols == IF Len(rows) = 0 THEN 0 ELSE Len(Item(rows, 0)) IN
  IF \E r \in DOMAIN rows : Len(rows[r]) # cols THEN Dead
  ELSE Ok([c \in 1 .. cols |-> [r \in 1 .. Len(rows) |-> Item(rows[r], c - 1)]])

(* Not the code: every row is copied to the start of the output. *)
RowOffsetZero(rows, r) == 0

(* The slots filled before row r, and the row a slot of the output is in.   *)
RowOffset(rows, r) ==
  LET before[k \in 0 .. r] == IF k = 0 THEN 0 ELSE before[k - 1] + Len(rows[k])
  IN before[r]
CFlatten(rows) ==
  LET Row(k) == CHOOSE r \in DOMAIN rows :
                  RowOffset(rows, r - 1) <= k /\ k < RowOffset(rows, r)
  IN Ok([k \in 1 .. RowOffset(rows, Len(rows)) |->
           Item(rows[Row(k - 1)], k - 1 - RowOffset(rows, Row(k - 1) - 1))])

(* Runs of equal ids; the first pass rejects ids that decrease.             *)
RunStarts(ids) == {k \in DOMAIN ids : k = 1 \/ ids[k] # ids[k - 1]}

CGroupById(xs, ids) ==
  LET starts == RunStarts(ids)
      Start(g) == CHOOSE s \in starts : Cardinality({t \in starts : t < s}) = g - 1
      Stop(g) == IF g = Cardinality(starts) THEN Len(ids) + 1 ELSE Start(g + 1)
  IN IF Len(xs) # Len(ids) THEN Dead
     ELSE IF \E k \in DOMAIN ids : k > 1 /\ ids[k] < ids[k - 1] THEN Dead
     ELSE Ok([g \in 1 .. Cardinality(starts) |->
                [k \in 1 .. Stop(g) - Start(g) |-> Item(xs, Start(g) + k - 2)]])

(* The loop stops at the first fault, and the answer is that fault.         *)
CCollect(items) ==
  IF Faulted(items) # {} THEN items[FirstOf(Faulted(items))]
  ELSE Ok([k \in 1 .. Len(items) |-> Item(items, k - 1).value])
CAllAny(bits, all) ==
  LET stops == {k \in DOMAIN bits : bits[k] = IF all THEN 0 ELSE 1}
  IN Ok(IF stops = {} THEN IF all THEN 1 ELSE 0 ELSE bits[FirstOf(stops)])
CExpect(item) == IF item.ok THEN item ELSE Dead

(* fa_range_step: the count of steps, in integers wider than its arguments. *)
CRangeStep(start, stop, step) ==
  LET distance == IF step > 0 THEN stop - start ELSE start - stop
      stride == IF step > 0 THEN step ELSE -step
  IN IF step = 0 THEN Dead
     ELSE IF distance <= 0 THEN Ok(<<>>)
     ELSE Ok([k \in 1 .. (distance + stride - 1) \div stride |-> start + (k - 1) * step])

-----------------------------------------------------------------------------
(* Direct LLVM: the same nodes as basic blocks over i64 counts.             *)

(* seq_index_invalid: negative, or not below the count.                     *)
SeqIndexInvalid(xs, i) == i < 0 \/ i >= Len(xs)
DieIf(bad, result) == IF bad THEN Dead ELSE result

(* Not the code: copying starts one item later. *)
CopyRangeLate(xs, from, len) == [k \in 1 .. len |-> Item(xs, from + k)]

(* copy_seq_range: len items of xs from a position, as a new sequence.      *)
CopyRange(xs, from, len) == [k \in 1 .. len |-> Item(xs, from + k - 1)]

(* copy_seq_range_to_offset: the slots from `at` on are overwritten.        *)
CopyTo(dst, at, xs) ==
  [k \in DOMAIN dst |-> IF k > at /\ k <= at + Len(xs) THEN xs[k - at] ELSE dst[k]]
Unset(n) == [k \in 1 .. n |-> Garbage]

(* emit_faultable_seq_index, shared by `last` and `at`.                     *)
FaultableSeqIndex(xs, i, message) ==
  IF SeqIndexInvalid(xs, i) THEN Fault(message) ELSE Ok(Item(xs, i))

LlvmHead(xs) == IF Len(xs) = 0 THEN Fault("empty") ELSE Ok(Item(xs, 0))
LlvmLast(xs) == FaultableSeqIndex(xs, Len(xs) - 1, "empty")
LlvmAt(xs, i) == FaultableSeqIndex(xs, i, "range")
LlvmGet(xs, i) == DieIf(SeqIndexInvalid(xs, i), Ok(Item(xs, i)))
LlvmGetOr(xs, i, v) == Ok(IF SeqIndexInvalid(xs, i) THEN v ELSE Item(xs, i))
LlvmSet(xs, i, v) ==
  DieIf(SeqIndexInvalid(xs, i), Ok(CopyTo(CopyRange(xs, 0, Len(xs)), i, <<v>>)))
LlvmTail(xs) ==
  Ok(IF Len(xs) = 0 THEN <<>> ELSE CopyRange(xs, 1, Len(xs) - 1))
LlvmReverse(xs) == Ok([k \in 1 .. Len(xs) |-> Item(xs, Len(xs) - k)])
LlvmTake(xs, n) ==
  LET all == n > Len(xs)
  IN DieIf(n < 0, Ok(CopyRange(xs, 0, IF all THEN Len(xs) ELSE n)))
LlvmDrop(xs, n) ==
  LET offset == IF n > Len(xs) THEN Len(xs) ELSE n
  IN DieIf(n < 0, Ok(CopyRange(xs, offset, Len(xs) - offset)))
LlvmFill(v, n) == DieIf(n < 0, Ok([k \in 1 .. n |-> v]))
LlvmSlice(xs, from, to) ==
  DieIf(from < 0 \/ to < from \/ to > Len(xs), Ok(CopyRange(xs, from, to - from)))
LlvmAppend(xs, v) ==
  Ok(CopyTo(CopyTo(Unset(Len(xs) + 1), 0, xs), Len(xs), <<v>>))
LlvmConcat(xs, ys) ==
  Ok(CopyTo(CopyTo(Unset(Len(xs) + Len(ys)), 0, xs), Len(xs), ys))
LlvmShiftRight(xs, v) ==
  Ok(IF Len(xs) = 0 THEN <<>>
     ELSE [k \in 1 .. Len(xs) |-> IF k = 1 THEN v ELSE Item(xs, k - 2)])

LlvmZip(xs, ys) ==
  DieIf(Len(xs) # Len(ys), Ok([k \in 1 .. Len(xs) |-> <<Item(xs, k - 1), Item(ys, k - 1)>>]))
LlvmBroadcastRight(xs, v) == Ok([k \in 1 .. Len(xs) |-> <<Item(xs, k - 1), v>>])
LlvmBroadcastLeft(v, ys) == Ok([k \in 1 .. Len(ys) |-> <<v, Item(ys, k - 1)>>])
LlvmInnerLength(rows) == Ok(IF Len(rows) = 0 THEN 0 ELSE Len(Item(rows, 0)))
LlvmTranspose(rows) ==
  IF Len(rows) = 0 THEN Ok(<<>>)
  ELSE LET cols == Len(Item(rows, 0))
       IN DieIf(\E r \in DOMAIN rows : Len(rows[r]) # cols,
                Ok([c \in 1 .. cols |-> [r \in 1 .. Len(rows) |-> Item(rows[r], c - 1)]]))
(* Two passes: the total of the lengths, then each row copied at the        *)
(* running offset.                                                          *)
LlvmFlatten(rows) ==
  LET total == RowOffset(rows, Len(rows))
      copied[r \in 0 .. Len(rows)] ==
        IF r = 0 THEN Unset(total)
        ELSE CopyTo(copied[r - 1], RowOffset(rows, r - 1), rows[r])
  IN Ok(copied[Len(rows)])
(* The grouping loop's body uses values loaded in a block that does not      *)
(* dominate it: the emitted module does not verify.                          *)
LlvmGroupById(xs, ids) == Refused
LlvmShiftLeft(xs, v) == Refused
LlvmCollect(items) ==
  IF Faulted(items) # {} THEN items[FirstOf(Faulted(items))]
  ELSE Ok([k \in 1 .. Len(items) |-> Item(items, k - 1).value])
(* No early exit: every item is folded in with `and` or `or`.               *)
LlvmAllAny(bits, all) ==
  LET folded[k \in 0 .. Len(bits)] ==
        IF k = 0 THEN IF all THEN 1 ELSE 0
        ELSE IF all THEN Least(folded[k - 1], bits[k])
             ELSE Greatest(folded[k - 1], bits[k])
  IN Ok(folded[Len(bits)])
LlvmExpect(item) == DieIf(~item.ok, item)
LlvmRangeStep(start, stop, step) == CRangeStep(start, stop, step)

-----------------------------------------------------------------------------
(* TypeScript: array methods and the helpers of the prelude.                *)

(* Array.prototype.slice(from, to): a negative position counts from the     *)
(* end, and both are clamped to the array.                                  *)
JsSlice(xs, from, to) ==
  LET Position(n) == IF n < 0 THEN Greatest(Len(xs) + n, 0) ELSE Least(n, Len(xs))
  IN SubSeq(xs, Position(from) + 1, Position(to))
JsOutside(xs, i) == i < 0 \/ i >= Len(xs)

TsHead(xs) == IF Len(xs) = 0 THEN Fault("empty") ELSE Ok(xs[1])
TsLast(xs) == IF Len(xs) = 0 THEN Fault("empty") ELSE Ok(xs[Len(xs)])
(* faGet and faSet build a FaFaultable where the node returns a plain       *)
(* value; faAt returns the item, or throws, where a Faultable is declared.  *)
TsGet(xs, i) == WrongShape
TsAt(xs, i) == IF JsOutside(xs, i) THEN Dead ELSE WrongShape
TsSet(xs, i, v) == WrongShape
TsGetOr(xs, i, v) == Ok(IF JsOutside(xs, i) THEN v ELSE xs[i + 1])
TsTail(xs) == Ok(JsSlice(xs, 1, Len(xs)))
TsReverse(xs) == Ok([k \in 1 .. Len(xs) |-> xs[Len(xs) + 1 - k]])
TsTake(xs, n) == Ok(JsSlice(xs, 0, n))
TsDrop(xs, n) == Ok(JsSlice(xs, n, Len(xs)))
TsSlice(xs, from, to) == Ok(JsSlice(xs, from, to))
(* faFill reads the count from the value and the value from the count.      *)
TsFill(v, n) == IF v < 0 THEN Ok(<<>>) ELSE Ok([k \in 1 .. v |-> n])
TsAppend(xs, v) == Ok(Append(xs, v))
TsConcat(xs, ys) == Ok(xs \o ys)
TsShiftRight(xs, v) == Ok(<<v>> \o JsSlice(xs, 0, Greatest(0, Len(xs) - 1)))
TsShiftLeft(xs, v) == Ok(Append(JsSlice(xs, 1, Len(xs)), v))
TsZip(xs, ys) ==
  IF Len(xs) # Len(ys) THEN Dead ELSE Ok([k \in DOMAIN xs |-> <<xs[k], ys[k]>>])
TsBroadcastLeft(v, ys) == Ok([k \in DOMAIN ys |-> <<v, ys[k]>>])
TsBroadcastRight(xs, v) == Ok([k \in DOMAIN xs |-> <<xs[k], v>>])
TsInnerLength(rows) == Ok(IF rows = <<>> THEN 0 ELSE Len(rows[1]))
TsTranspose(rows) ==
  IF rows = <<>> THEN Ok(<<>>)
  ELSE IF \E r \in DOMAIN rows : Len(rows[r]) # Len(rows[1]) THEN Dead
  ELSE Ok([c \in 1 .. Len(rows[1]) |-> [r \in DOMAIN rows |-> rows[r][c]]])
TsFlatten(rows) ==
  LET flat[r \in 0 .. Len(rows)] == IF r = 0 THEN <<>> ELSE flat[r - 1] \o rows[r]
  IN Ok(flat[Len(rows)])
(* faGroupById expects a sequence of (id, value) pairs and is handed the    *)
(* pair of sequences: it throws on an empty one and groups the first two    *)
(* items of each otherwise.                                                 *)
TsGroupById(xs, ids) == IF xs = <<>> \/ ids = <<>> THEN Dead ELSE WrongShape
TsCollect(items) ==
  LET kept[k \in 0 .. Len(items)] ==
        IF k = 0 THEN Ok(<<>>)
        ELSE IF ~kept[k - 1].ok THEN kept[k - 1]
        ELSE IF ~items[k].ok THEN items[k]
        ELSE Ok(Append(kept[k - 1].value, items[k].value))
  IN kept[Len(items)]
TsAllAny(bits, all) ==
  Ok(IF all THEN IF \A k \in DOMAIN bits : bits[k] = 1 THEN 1 ELSE 0
     ELSE IF \E k \in DOMAIN bits : bits[k] = 1 THEN 1 ELSE 0)
TsExpect(item) == IF item.ok THEN item ELSE Dead

(* faRangeStep pushes values while they have not reached the end.           *)
TsRangeStep(start, stop, step) ==
  LET Goes(v) == IF step > 0 THEN v < stop ELSE v > stop
      steps == {k \in 0 .. 2 * Greatest(stop - start, start - stop) : Goes(start + k * step)}
  IN IF step = 0 THEN Dead
     ELSE Ok([k \in 1 .. Cardinality(steps) |-> start + (k - 1) * step])
=============================================================================
