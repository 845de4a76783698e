------------------------------- MODULE Stages -------------------------------
(***************************************************************************)
(* The code each back end emits for one stage of a chain: the loop of      *)
(* `map`, `filter`, `fault map`, `reduce`, `scan` and `repeat`, and the    *)
(* arms of `match`, on values that may carry faults.  The three back ends  *)
(* are the C runtime ("c", src/src/codegen/runtime_c.rs), direct LLVM      *)
(* ("llvm", direct_llvm.rs) and TypeScript ("ts", typescript.rs).  A       *)
(* behaviour runs one accepted stage on one back end, an iteration a step. *)
(***************************************************************************)
EXTENDS Integers, FiniteSets, Sequences

CONSTANTS
  Top,       \* the greatest value of the integer type
  MaxLen,    \* bound: the longest sequence
  MaxCount,  \* bound: the largest repeat count
  MaxArms    \* bound: the guarded arms of a match

ASSUME BoundsAssumption ==
  /\ Top \in Nat /\ MaxLen \in Nat /\ MaxCount \in Nat /\ MaxArms \in Nat

Values == 0 .. Top

(* A Faultable[T]: its successful value or its fault. *)
Ok(v) == [ok |-> TRUE, value |-> v]
Fault(f) == [ok |-> FALSE, fault |-> f]
(* A node that aborts the process (`expect` of a fault) has no result. *)
Dead == [ok |-> FALSE, fault |-> "aborted"]
(* A slot of a freshly allocated output sequence. *)
Unset == [ok |-> FALSE, fault |-> "unset"]

Plain == {Ok(v) : v \in Values}
Items == Plain \cup {Fault("first"), Fault("second")}
Answers == Plain \cup {Fault("node"), Dead}
(* A Bool is one byte, 1 or 0. *)
Yes == Ok(1)
No == Ok(0)
Decisions == {Yes, No, Dead}

(* A call of a node with a faultable argument: a fault is passed on and the *)
(* node is not called.                                                      *)
Call(node, item) == IF item.ok THEN node[item.value] ELSE item

(* The operations `reduce` supports: integer addition faults on overflow,   *)
(* floating-point addition saturates, min and max always succeed.           *)
AddInt == [a \in Values |-> [b \in Values |->
             IF a + b <= Top THEN Ok(a + b) ELSE Fault("overflow")]]
AddFloat == [a \in Values |-> [b \in Values |->
               Ok(IF a + b <= Top THEN a + b ELSE Top)]]
MinOf == [a \in Values |-> [b \in Values |-> Ok(IF a < b THEN a ELSE b)]]
MaxOf == [a \in Values |-> [b \in Values |-> Ok(IF a > b THEN a ELSE b)]]

BackEnds == {"c", "llvm", "ts"}
Kinds == {"map", "filter", "fault_map", "reduce", "scan", "repeat", "match"}

(***************************************************************************)
(* Jobs: the stages the type checker accepts, with their input.  "wrapped" *)
(* is a sequence of static type Faultable[Seq[_]], "faultable" one with    *)
(* items of type Faultable[_], "concurrent" a node the C back end finds    *)
(* parallel-safe or the TypeScript back end compiles to an async function. *)
(***************************************************************************)
SeqsOf(S) == UNION {[1 .. n -> S] : n \in 0 .. MaxLen}

Sequences(faultable) == SeqsOf(IF faultable THEN Items ELSE Plain)

Job(kind, node, start, input, wrapped, faultable, concurrent) ==
  [kind |-> kind, node |-> node, start |-> start, input |-> input,
   wrapped |-> wrapped, faultable |-> faultable, concurrent |-> concurrent]

SequenceJob(kind, node, start, faultable, concurrent, job) ==
  \E wrapped \in BOOLEAN :
    \/ \E xs \in Sequences(faultable) :
         job = Job(kind, node, start, Ok(xs), wrapped, faultable, concurrent)
    \/ /\ wrapped
       /\ job = Job(kind, node, start, Fault("input"), wrapped, faultable,
                    concurrent)

(* A predicate must return Bool itself, so `filter` takes plain items.  A   *)
(* `scan` takes any node of a pair.  A match is described by what its guards *)
(* and targets answer for its subject, and ends with its fallback arm.       *)
AcceptedJob(job) ==
  \/ \E node \in [Values -> Answers], faultable, concurrent \in BOOLEAN :
       SequenceJob("map", node, 0, faultable, concurrent, job)
  \/ \E node \in [Values -> Decisions], concurrent \in BOOLEAN :
       SequenceJob("filter", node, 0, FALSE, concurrent, job)
  \/ \E node \in [Values -> Answers], faultable \in BOOLEAN :
       SequenceJob("fault_map", node, 0, faultable, FALSE, job)
  \/ \E op \in {AddInt, AddFloat, MinOf, MaxOf}, start \in Values,
        faultable \in BOOLEAN :
       SequenceJob("reduce", op, start, faultable, FALSE, job)
  \/ \E op \in [Values -> [Values -> Answers]], start \in Values,
        faultable \in BOOLEAN :
       SequenceJob("scan", op, start, faultable, FALSE, job)
  \/ \E node \in [Values -> Answers], count \in -1 .. MaxCount, x \in Items :
       job = Job("repeat", node, count, x, FALSE, FALSE, FALSE)
  \/ \E n \in 0 .. MaxArms, x \in Plain :
     \E guards \in [1 .. n -> Decisions], targets \in [1 .. n + 1 -> Answers] :
       job = Job("match", [k \in 1 .. n + 1 |->
                             [guard |-> IF k <= n THEN guards[k] ELSE Yes,
                              target |-> targets[k]]],
                 0, x, FALSE, FALSE, FALSE)

(* What a back end compiles; it reports an error for the rest. *)
Supports(b, job) ==
  CASE job.kind = "filter" -> b = "ts" => ~job.wrapped
    [] job.kind = "fault_map" -> /\ ~job.wrapped
                                 /\ b = "ts" => job.faultable
    [] job.kind = "reduce" ->
         b = "llvm" => /\ ~job.wrapped
                       /\ job.node \in {MinOf, MaxOf} => ~job.faultable
    [] job.kind = "scan" -> ~job.wrapped
    [] OTHER -> TRUE

VARIABLES
  backEnd,  \* the back end whose code runs
  job,      \* the stage and its input
  pc,       \* "start", "loop", "done", "refused" or "aborted"
  src,      \* the sequence the loop reads
  todo,     \* the positions the loop has still to visit
  acc,      \* the accumulator: of a fold, a repetition or a match
  out,      \* the output sequence, slot by slot or appended to
  faults    \* the fault sequence of a fault map

vars == <<backEnd, job, pc, src, todo, acc, out, faults>>

Init ==
  /\ backEnd \in BackEnds
  /\ AcceptedJob(job)
  /\ pc = "start" /\ src = <<>> /\ todo = {} /\ acc = Unset
  /\ out = <<>> /\ faults = <<>>

-----------------------------------------------------------------------------
(* Before the loop. *)

(* The back end has no code for the stage. *)
Refuse ==
  /\ pc = "start" /\ ~Supports(backEnd, job)
  /\ pc' = "refused"
  /\ UNCHANGED <<backEnd, job, src, todo, acc, out, faults>>

(* A faulted sequence becomes the stage's result and the loop is skipped.   *)
(* The C back end emits the loop of a reduction ahead of this test.         *)
PassFaultOn ==
  /\ pc = "start" /\ Supports(backEnd, job)
  /\ job.wrapped /\ ~job.input.ok
  /\ ~(backEnd = "c" /\ job.kind = "reduce")
  /\ pc' = "done" /\ acc' = job.input
  /\ UNCHANGED <<backEnd, job, src, todo, out, faults>>

(* The reduction over the `value` of a faulted sequence, which nobody set:  *)
(* any sequence, or an access outside of memory.                            *)
ReduceUnset ==
  /\ pc = "start" /\ backEnd = "c" /\ job.kind = "reduce"
  /\ job.wrapped /\ ~job.input.ok
  /\ \/ /\ pc' = "aborted"
        /\ UNCHANGED <<src, todo, acc>>
     \/ /\ pc' = "loop"
        /\ \E xs \in Sequences(job.faultable) :
             src' = xs /\ todo' = 1 .. Len(xs)
        /\ acc' = Ok(job.start)
  /\ UNCHANGED <<backEnd, job, out, faults>>

Positions(j) ==
  CASE j.kind = "repeat" -> 1 .. j.start
    [] j.kind = "match" -> 1 .. Len(j.node)
    [] OTHER -> 1 .. Len(j.input.value)

Enter ==
  /\ pc = "start" /\ Supports(backEnd, job)
  /\ job.wrapped => job.input.ok
  /\ pc' = "loop" /\ todo' = Positions(job)
  /\ src' = IF job.kind \in {"repeat", "match"} THEN <<>> ELSE job.input.value
  /\ acc' = IF job.kind = "repeat" THEN job.input ELSE Ok(job.start)
  /\ out' = IF job.kind = "map" THEN [k \in todo' |-> Unset] ELSE <<>>
  /\ UNCHANGED <<backEnd, job, faults>>

-----------------------------------------------------------------------------
(* The loops. *)

Visiting(b, kind, k) == pc = "loop" /\ backEnd = b /\ job.kind = kind /\ k \in todo

InOrder(k) == \A m \in todo : k <= m

Abort == /\ pc' = "aborted"
         /\ UNCHANGED <<backEnd, job, src, todo, acc, out, faults>>

(* Not the code: the answers are stored in the order they come in. *)
FillNextSlot(k) ==
  LET answer == Call(job.node, src[k])
      free == Len(src) + 1 - Cardinality(todo)
  IN IF answer = Dead THEN Abort
     ELSE /\ out' = [out EXCEPT ![free] = answer]
          /\ todo' = todo \ {k}
          /\ UNCHANGED <<backEnd, job, pc, src, acc, faults>>

(* out[k] = node(src[k]): every iteration writes its own slot. *)
FillSlot(k) ==
  LET answer == Call(job.node, src[k]) IN
  IF answer = Dead THEN Abort
  ELSE /\ out' = [out EXCEPT ![k] = answer]
       /\ todo' = todo \ {k}
       /\ UNCHANGED <<backEnd, job, pc, src, acc, faults>>

(* fa_parallel_for over a parallel-safe node: the iterations in any order.  *)
CMap(k) == Visiting("c", "map", k) /\ (job.concurrent \/ InOrder(k)) /\ FillSlot(k)

LlvmMap(k) == Visiting("llvm", "map", k) /\ InOrder(k) /\ FillSlot(k)

(* Promise.all over the calls of an async node: they settle in any order.   *)
(* These calls are handed the item as it is: with a faultable item the node *)
(* gets the wrapper in place of a value, and may answer anything.           *)
TsMap(k) ==
  /\ Visiting("ts", "map", k)
  /\ IF ~job.concurrent THEN InOrder(k) /\ FillSlot(k)
     ELSE IF ~job.faultable THEN FillSlot(k)
     ELSE \/ Abort
          \/ /\ \E answer \in Answers \ {Dead} : out' = [out EXCEPT ![k] = answer]
             /\ todo' = todo \ {k}
             /\ UNCHANGED <<backEnd, job, pc, src, acc, faults>>

(* An item is appended to the output when the predicate holds of it. *)
KeepItem(k) ==
  LET keep == Call(job.node, src[k]) IN
  IF keep = Dead THEN Abort
  ELSE /\ out' = IF keep = Yes THEN Append(out, src[k]) ELSE out
       /\ todo' = todo \ {k}
       /\ UNCHANGED <<backEnd, job, pc, src, acc, faults>>

CFilter(k) == Visiting("c", "filter", k) /\ InOrder(k) /\ KeepItem(k)

LlvmFilter(k) == Visiting("llvm", "filter", k) /\ InOrder(k) /\ KeepItem(k)

TsFilter(k) ==
  Visiting("ts", "filter", k) /\ ~job.concurrent /\ InOrder(k) /\ KeepItem(k)

(* With an async predicate, first every decision, in any order ...          *)
TsDecide(k) ==
  /\ Visiting("ts", "filter", k) /\ job.concurrent
  /\ LET keep == Call(job.node, src[k]) IN
     IF keep = Dead THEN Abort
     ELSE /\ out' = [m \in DOMAIN out \cup {k} |->
                       IF m = k THEN keep ELSE out[m]]
          /\ todo' = todo \ {k}
          /\ UNCHANGED <<backEnd, job, pc, src, acc, faults>>

(* ... then the items whose decision is true, in input order.               *)
TsCompact ==
  /\ pc = "loop" /\ backEnd = "ts" /\ job.kind = "filter" /\ job.concurrent
  /\ todo = {}
  /\ LET kept[n \in 0 .. Len(src)] ==
           IF n = 0 THEN <<>>
           ELSE IF out[n] = Yes THEN Append(kept[n - 1], src[n]) ELSE kept[n - 1]
     IN out' = kept[Len(src)]
  /\ pc' = "done"
  /\ UNCHANGED <<backEnd, job, src, todo, acc, faults>>

(* Not the code: the items are tested for faults, the answers are not. *)
PartitionItems(k) ==
  LET answer == Call(job.node, src[k]) IN
  IF answer = Dead THEN Abort
  ELSE /\ IF src[k].ok
          THEN out' = Append(out, answer) /\ UNCHANGED faults
          ELSE faults' = Append(faults, answer.fault) /\ UNCHANGED out
       /\ todo' = todo \ {k}
       /\ UNCHANGED <<backEnd, job, pc, src, acc>>

(* The faults of the answers to one sequence, their values to the other.    *)
Partition(k) ==
  LET answer == Call(job.node, src[k]) IN
  IF answer = Dead THEN Abort
  ELSE /\ IF answer.ok
          THEN out' = Append(out, answer) /\ UNCHANGED faults
          ELSE faults' = Append(faults, answer.fault) /\ UNCHANGED out
       /\ todo' = todo \ {k}
       /\ UNCHANGED <<backEnd, job, pc, src, acc>>

CFaultMap(k) == Visiting("c", "fault_map", k) /\ InOrder(k) /\ Partition(k)

LlvmFaultMap(k) == Visiting("llvm", "fault_map", k) /\ InOrder(k) /\ Partition(k)

(* The TypeScript back end tests the items, not the node's answers: what    *)
(* the node answers goes to the values.                                     *)
TsFaultMap(k) ==
  /\ Visiting("ts", "fault_map", k) /\ InOrder(k)
  /\ IF ~src[k].ok
     THEN /\ faults' = Append(faults, src[k].fault) /\ todo' = todo \ {k}
          /\ UNCHANGED <<backEnd, job, pc, src, acc, out>>
     ELSE IF job.node[src[k].value] = Dead THEN Abort
     ELSE /\ out' = Append(out, job.node[src[k].value]) /\ todo' = todo \ {k}
          /\ UNCHANGED <<backEnd, job, pc, src, acc, faults>>

(* Not the code: items that are faults are left out of the fold. *)
FoldPastFaults(k) ==
  /\ IF ~acc.ok THEN todo' = {} /\ UNCHANGED acc
     ELSE /\ todo' = todo \ {k}
          /\ acc' = IF src[k].ok THEN job.node[acc.value][src[k].value] ELSE acc
  /\ UNCHANGED <<backEnd, job, pc, src, out, faults>>

(* A fold that stops at the first fault, of an item or of the operation. *)
FoldUntilFault(k) ==
  /\ IF ~acc.ok THEN todo' = {} /\ UNCHANGED acc
     ELSE IF ~src[k].ok THEN todo' = {} /\ acc' = src[k]
     ELSE /\ todo' = todo \ {k}
          /\ acc' = job.node[acc.value][src[k].value]
  /\ UNCHANGED <<backEnd, job, pc, src, out, faults>>

CReduceAdd(k) ==
  /\ Visiting("c", "reduce", k) /\ InOrder(k)
  /\ job.node \in {AddInt, AddFloat} /\ FoldUntilFault(k)

CReduceMinMax(k) ==
  /\ Visiting("c", "reduce", k) /\ InOrder(k)
  /\ job.node \in {MinOf, MaxOf} /\ FoldUntilFault(k)

TsReduce(k) == Visiting("ts", "reduce", k) /\ InOrder(k) /\ FoldUntilFault(k)

(* A scan visits every item: once faulted, its state stays as it is.        *)
ScanUntilFault(k) ==
  LET state == IF ~acc.ok THEN acc
               ELSE IF ~src[k].ok THEN src[k]
               ELSE job.node[acc.value][src[k].value]
  IN IF state = Dead THEN Abort
     ELSE /\ acc' = state /\ out' = Append(out, state) /\ todo' = todo \ {k}
          /\ UNCHANGED <<backEnd, job, pc, src, faults>>

CScan(k) == Visiting("c", "scan", k) /\ InOrder(k) /\ ScanUntilFault(k)

TsScan(k) == Visiting("ts", "scan", k) /\ InOrder(k) /\ ScanUntilFault(k)

(* LLVM code for a fold is straight-line: the operation runs whether or not *)
(* the state or the item is a fault (then on whatever their value fields    *)
(* hold), and the fault is selected afterwards.                             *)
ValueFields(r) == IF r.ok THEN {r.value} ELSE Values

Select(state, item, new) ==
  IF ~item.ok THEN item ELSE IF ~state.ok THEN state ELSE new

LlvmReduceAdd(k) ==
  /\ Visiting("llvm", "reduce", k) /\ InOrder(k)
  /\ job.node \in {AddInt, AddFloat}
  /\ \E a \in ValueFields(acc), b \in ValueFields(src[k]) :
       acc' = Select(acc, src[k], job.node[a][b])
  /\ todo' = todo \ {k}
  /\ UNCHANGED <<backEnd, job, pc, src, out, faults>>

LlvmReduceMinMax(k) ==
  /\ Visiting("llvm", "reduce", k) /\ InOrder(k)
  /\ job.node \in {MinOf, MaxOf}
  /\ acc' = job.node[acc.value][src[k].value]
  /\ todo' = todo \ {k}
  /\ UNCHANGED <<backEnd, job, pc, src, out, faults>>

LlvmScan(k) ==
  /\ Visiting("llvm", "scan", k) /\ InOrder(k)
  /\ \E a \in ValueFields(acc), b \in ValueFields(src[k]) :
       LET new == job.node[a][b]
           state == Select(acc, src[k], new)
       IN IF new = Dead THEN Abort
          ELSE /\ acc' = state /\ out' = Append(out, state) /\ todo' = todo \ {k}
               /\ UNCHANGED <<backEnd, job, pc, src, faults>>

(* One round of a repetition; a count of zero or less has none. *)
Again(k) ==
  LET state == Call(job.node, acc) IN
  IF state = Dead THEN Abort
  ELSE /\ acc' = state /\ todo' = todo \ {k}
       /\ UNCHANGED <<backEnd, job, pc, src, out, faults>>

CRepeat(k) == Visiting("c", "repeat", k) /\ InOrder(k) /\ Again(k)
LlvmRepeat(k) == Visiting("llvm", "repeat", k) /\ InOrder(k) /\ Again(k)
TsRepeat(k) == Visiting("ts", "repeat", k) /\ InOrder(k) /\ Again(k)

(* Not the code: the arms after the one that held are tried as well. *)
ArmFallingThrough(k) ==
  LET arm == job.node[k] IN
  IF arm.guard = Dead \/ (arm.guard = Yes /\ arm.target = Dead) THEN Abort
  ELSE /\ acc' = IF arm.guard = Yes THEN arm.target ELSE acc
       /\ todo' = todo \ {k}
       /\ UNCHANGED <<backEnd, job, pc, src, out, faults>>

(* One arm: if its guard holds its target is the result and no later guard  *)
(* or target runs.                                                          *)
Arm(k) ==
  LET arm == job.node[k] IN
  IF arm.guard = Dead \/ (arm.guard = Yes /\ arm.target = Dead) THEN Abort
  ELSE /\ IF arm.guard = Yes
          THEN acc' = arm.target /\ todo' = {}
          ELSE todo' = todo \ {k} /\ UNCHANGED acc
       /\ UNCHANGED <<backEnd, job, pc, src, out, faults>>

CMatch(k) == Visiting("c", "match", k) /\ InOrder(k) /\ Arm(k)
LlvmMatch(k) == Visiting("llvm", "match", k) /\ InOrder(k) /\ Arm(k)
TsMatch(k) == Visiting("ts", "match", k) /\ InOrder(k) /\ Arm(k)

(* After the loop.  A reduction over a faulted sequence drops what it       *)
(* computed for the fault.                                                  *)
Leave ==
  /\ pc = "loop" /\ todo = {}
  /\ ~(backEnd = "ts" /\ job.kind = "filter" /\ job.concurrent)
  /\ pc' = "done"
  /\ acc' = IF job.wrapped /\ ~job.input.ok THEN job.input ELSE acc
  /\ UNCHANGED <<backEnd, job, src, todo, out, faults>>

Iterate(k) ==
  \/ CMap(k) \/ LlvmMap(k) \/ TsMap(k)
  \/ CFilter(k) \/ LlvmFilter(k) \/ TsFilter(k) \/ TsDecide(k)
  \/ CFaultMap(k) \/ LlvmFaultMap(k) \/ TsFaultMap(k)
  \/ CReduceAdd(k) \/ CReduceMinMax(k) \/ TsReduce(k)
  \/ LlvmReduceAdd(k) \/ LlvmReduceMinMax(k)
  \/ CScan(k) \/ LlvmScan(k) \/ TsScan(k)
  \/ CRepeat(k) \/ LlvmRepeat(k) \/ TsRepeat(k)
  \/ CMatch(k) \/ LlvmMatch(k) \/ TsMatch(k)

Next ==
  \/ Refuse \/ PassFaultOn \/ ReduceUnset \/ Enter
  \/ \E k \in todo : Iterate(k)
  \/ TsCompact \/ Leave

Spec == Init /\ [][Next]_vars

-----------------------------------------------------------------------------
(* What a stage means, whatever the back end and the order of its           *)
(* iterations.                                                              *)
Answered(xs, node) == [k \in DOMAIN xs |-> Call(node, xs[k])]

AnyDead(answers) == \E k \in DOMAIN answers : answers[k] = Dead

Folded(op, start, xs) ==
  LET prefix[n \in 0 .. Len(xs)] ==
        IF n = 0 THEN Ok(start)
        ELSE IF ~prefix[n - 1].ok THEN prefix[n - 1]
        ELSE IF ~xs[n].ok THEN xs[n]
        ELSE op[prefix[n - 1].value][xs[n].value]
  IN prefix

Repeated(node, x, count) ==
  LET state[n \in 0 .. MaxCount] ==
        IF n = 0 THEN x ELSE Call(node, state[n - 1])
  IN IF count <= 0 THEN x ELSE state[count]

(* The first arm whose guard is not false decides. *)
Matched(arms) ==
  LET k == CHOOSE n \in DOMAIN arms :
             /\ arms[n].guard # No
             /\ \A m \in 1 .. n - 1 : arms[m].guard = No
  IN IF arms[k].guard = Dead THEN Dead ELSE arms[k].target

Faulted == job.wrapped /\ ~job.input.ok

-----------------------------------------------------------------------------
(* The concurrent map of the TypeScript back end over faultable items: the  *)
(* node is handed the wrapper, and nothing can be said of the result.       *)
Garbled ==
  backEnd = "ts" /\ job.kind = "map" /\ job.concurrent /\ job.faultable

(* A map means the same on every back end and under every order of its      *)
(* concurrent iterations: slot k holds the node's answer for item k, a      *)
(* faulted sequence is the result, and the process aborts exactly if a node *)
(* that is called does (emit_map of each back end).                         *)
MapsKeepMeaning ==
  job.kind = "map" /\ ~Garbled =>
    /\ pc = "done" /\ Faulted => acc = job.input
    /\ pc = "done" /\ ~Faulted =>
         /\ out = Answered(job.input.value, job.node)
         /\ ~AnyDead(out)
    /\ pc = "aborted" =>
         ~Faulted /\ AnyDead(Answered(job.input.value, job.node))

(* The first arm of a match that holds decides, and neither a guard nor a   *)
(* target after it runs: if one of those would abort, the match does not    *)
(* (emit_match of each back end).                                           *)
MatchesKeepMeaning ==
  job.kind = "match" =>
    /\ pc = "done" => acc = Matched(job.node) /\ acc # Dead
    /\ pc = "aborted" => Matched(job.node) = Dead

(* ys is what xs holds at the positions in `kept`, in their order.          *)
Selected(ys, xs, kept) ==
  /\ DOMAIN ys = 1 .. Len(ys)
  /\ \E at \in [DOMAIN ys -> kept] :
       /\ \A i, j \in DOMAIN ys : i < j => at[i] < at[j]
       /\ \A k \in kept : \E i \in DOMAIN ys : at[i] = k
       /\ \A i \in DOMAIN ys : ys[i] = xs[at[i]]

(* Filter and repeat mean the same on every back end: kept items stay in    *)
(* input order although async decisions come in any order, a repetition     *)
(* calls its node count times or until it faults, and the process aborts    *)
(* exactly if a node that is called does (emit_filter and emit_repeat).     *)
FiltersAndRepeatsKeepMeaning ==
  LET xs == job.input.value
      kept == {k \in DOMAIN xs : Call(job.node, xs[k]) = Yes}
      meaning == Repeated(job.node, job.input, job.start)
  IN /\ job.kind = "filter" /\ pc = "done" /\ Faulted => acc = job.input
     /\ job.kind = "filter" /\ pc \in {"done", "aborted"} /\ ~Faulted =>
          /\ (pc = "aborted") = AnyDead(Answered(xs, job.node))
          /\ pc = "done" => Selected(out, xs, kept)
     /\ job.kind = "repeat" /\ pc = "aborted" => meaning = Dead
     /\ job.kind = "repeat" /\ pc = "done" => acc = meaning /\ acc # Dead

(* A fold is a fault, on every back end, exactly when the operation or an   *)
(* item before it faulted, and otherwise has the value of the sequential    *)
(* fold; the C and TypeScript back ends report the first of the faults and  *)
(* abort only with the operation (emit_reduce and emit_scan).  Which of     *)
(* several faults the LLVM back end reports, and that it aborts in an       *)
(* operation on an item that is a fault, differs.                           *)
FoldsKeepMeaning ==
  job.kind \in {"reduce", "scan"} /\ ~Faulted /\ pc \in {"done", "aborted"} =>
    LET xs == job.input.value
        prefix == Folded(job.node, job.start, xs)
        Same(r, m) == /\ r.ok = m.ok
                      /\ r.ok \/ backEnd # "llvm" => r = m
                      /\ ~r.ok => r = m \/ r \in {xs[k] : k \in DOMAIN xs}
    IN IF pc = "aborted"
       THEN backEnd = "llvm" \/ prefix[Len(xs)] = Dead
       ELSE /\ prefix[Len(xs)] # Dead
            /\ job.kind = "reduce" => Same(acc, prefix[Len(xs)])
            /\ job.kind = "scan" =>
                 /\ Len(out) = Len(xs)
                 /\ \A k \in 1 .. Len(xs) : Same(out[k], prefix[k])

(* A fault map binds every successful answer to one sequence and every      *)
(* fault to the other, both in input order (docs/syntax.md:496 to 498;      *)
(* emit_fault_map of the C and LLVM back ends, and of the TypeScript back   *)
(* end when the node itself does not fault).                                *)
Partitioned ==
  LET answers == Answered(job.input.value, job.node)
      valued  == {k \in DOMAIN answers : answers[k].ok}
      faulted == DOMAIN answers \ valued
  IN /\ Selected(out, answers, valued)
     /\ Selected(faults, [k \in faulted |-> answers[k].fault], faulted)

FaultMapsPartition ==
  /\ /\ job.kind = "fault_map" /\ pc = "done"
     /\ backEnd = "ts" => Fault("node") \notin {job.node[v] : v \in Values}
     => Partitioned
  /\ job.kind = "fault_map" /\ pc = "aborted" =>
       AnyDead(Answered(job.input.value, job.node))

(* Filters, repeats and fault maps, on every back end.                      *)
SelectionsKeepMeaning == FiltersAndRepeatsKeepMeaning /\ FaultMapsPartition
=============================================================================
