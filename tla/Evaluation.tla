----------------------------- MODULE Evaluation -----------------------------
(***************************************************************************)
(* The body of one callable, compiled by the three back ends and run side  *)
(* by side: chains that start from variables and tuples, call nodes, bind  *)
(* names and tuples of names, and the outputs at the end.  Any of the      *)
(* values may be Faultable, and a call given a fault where its node takes a *)
(* plain value answers the fault.  Each back end carries its own type for  *)
(* a value, decides from it how to emit, and may refuse to.                *)
(***************************************************************************)
EXTENDS Naturals, Sequences, SequencesExt

CONSTANTS
  MaxBound,    \* bound: the values the body binds, its inputs included
  MaxCalls     \* bound: the calls in the body

ASSUME EvaluationBounds == MaxBound \in Nat /\ MaxCalls \in Nat

(* Types: i64 (and Bool), Faultable[T], and tuples of two.                  *)
I64 == <<"i64">>
Faultable(t) == <<"Faultable", t>>
Tuple(t, u) == <<"tuple", t, u>>
NoType == <<"none">>
IsFaultable(t) == t[1] = "Faultable"
IsTuple(t) == t[1] = "tuple"

(* Values carry tags of their own; a JavaScript value of another shape than *)
(* its type's counts as Garbage once it is used as one.                     *)
Num(n) == <<"num", n>>
Ok(v) == <<"ok", v>>
Fault(m) == <<"fault", m>>
Both(v, w) == <<"tuple", v, w>>
Garbage == <<"garbage">>
Dead == <<"dead">>

RECURSIVE ContainsFaultable(_), StripFaultable(_), MixedTuple(_), UnwrapTuple(_),
          Nested(_), Shaped(_, _), Leaves(_, _), RemoveFaultables(_, _),
          FaultsWithin(_, _), PlainWithin(_, _)
ContainsFaultable(t) ==
  IsFaultable(t) \/ (IsTuple(t) /\ \E k \in 2 .. 3 : ContainsFaultable(t[k]))
StripFaultable(t) ==
  IF IsFaultable(t) THEN StripFaultable(t[2])
  ELSE IF IsTuple(t) THEN Tuple(StripFaultable(t[2]), StripFaultable(t[3])) ELSE t
(* A tuple with a Faultable among its items, or those of its tuples.        *)
MixedTuple(t) ==
  IsTuple(t) /\ \E k \in 2 .. 3 : IsFaultable(t[k]) \/ MixedTuple(t[k])
UnwrapTuple(t) ==
  LET Item(i) == IF IsFaultable(i) THEN i[2] ELSE IF IsTuple(i) THEN UnwrapTuple(i) ELSE i
  IN Tuple(Item(t[2]), Item(t[3]))
(* A Faultable inside a Faultable.                                          *)
Nested(t) ==
  \/ IsFaultable(t) /\ ContainsFaultable(t[2])
  \/ IsTuple(t) /\ (Nested(t[2]) \/ Nested(t[3]))

Shaped(v, t) ==
  CASE IsFaultable(t) -> v[1] = "fault" \/ (v[1] = "ok" /\ Shaped(v[2], t[2]))
    [] IsTuple(t) -> v[1] = "tuple" /\ Shaped(v[2], t[2]) /\ Shaped(v[3], t[3])
    [] OTHER -> v[1] = "num"
(* The Faultable items of a tuple from left to right, and what is left of   *)
(* it without them.                                                         *)
Leaves(v, t) ==
  CASE IsFaultable(t) -> <<v>>
    [] IsTuple(t) -> Leaves(v[2], t[2]) \o Leaves(v[3], t[3])
    [] OTHER -> <<>>
RemoveFaultables(v, t) ==
  CASE IsFaultable(t) -> v[2]
    [] IsTuple(t) -> Both(RemoveFaultables(v[2], t[2]), RemoveFaultables(v[3], t[3]))
    [] OTHER -> v
(* The same at every depth, Faultables inside Faultables included.          *)
FaultsWithin(v, t) ==
  CASE IsFaultable(t) -> IF v[1] = "fault" THEN <<v>> ELSE FaultsWithin(v[2], t[2])
    [] IsTuple(t) -> FaultsWithin(v[2], t[2]) \o FaultsWithin(v[3], t[3])
    [] OTHER -> <<>>
PlainWithin(v, t) ==
  CASE IsFaultable(t) -> PlainWithin(v[2], t[2])
    [] IsTuple(t) -> Both(PlainWithin(v[2], t[2]), PlainWithin(v[3], t[3]))
    [] OTHER -> v

-----------------------------------------------------------------------------
(* Nodes.  The declared types and the bodies of user nodes; builtins are    *)
(* typed by their arguments.                                                *)
Signature ==
  [inc    |-> [input |-> I64, output |-> I64],
   half   |-> [input |-> I64, output |-> Faultable(I64)],
   split  |-> [input |-> I64, output |-> Tuple(I64, I64)],
   risky  |-> [input |-> I64, output |-> Tuple(Faultable(I64), I64)],
   sum    |-> [input |-> Tuple(I64, I64), output |-> I64],
   rescue |-> [input |-> Faultable(I64), output |-> I64],
   retry  |-> [input |-> Faultable(I64), output |-> Faultable(I64)],
   mend   |-> [input |-> Tuple(Faultable(I64), I64), output |-> I64]]
Users == DOMAIN Signature
Builtins == {"first", "second", "expect", "div"}

(* What a node computes from a value of the type it declares.               *)
Body(n, v) ==
  CASE n = "inc" -> Num((v[2] + 1) % 3)
    [] n = "half" -> IF v[2] = 1 THEN Fault("half") ELSE Ok(Num(v[2] \div 2))
    [] n = "split" -> Both(Num((v[2] + 1) % 3), v)
    [] n = "risky" -> Both(IF v[2] = 1 THEN Fault("risky") ELSE Ok(v), Num(1))
    [] n = "sum" -> Num((v[2][2] + 2 * v[3][2]) % 3)
    [] n = "rescue" -> IF v[1] = "fault" THEN Num(0) ELSE v[2]
    [] n = "retry" -> IF v[1] = "fault" THEN Ok(Num(0)) ELSE Fault("retry")
    [] n = "mend" -> IF v[2][1] = "fault" THEN v[3] ELSE v[2][2]
    [] n = "first" -> v[2]
    [] n = "second" -> v[3]
    [] n = "expect" -> IF v[1] = "fault" THEN Dead ELSE v[2]
    [] n = "div" -> IF v[3][2] = 0 THEN Fault("div")
                    ELSE Ok(Num(v[2][2] \div v[3][2]))

(* builtin_output_type_plain, and builtin_output_type around it.            *)
PlainBuiltin(n, t) ==
  CASE n = "first" -> IF IsTuple(t) THEN t[2] ELSE NoType
    [] n = "second" -> IF IsTuple(t) THEN t[3] ELSE NoType
    [] n = "expect" -> IF IsFaultable(t) THEN t[2] ELSE t
    [] n = "div" -> IF t = Tuple(I64, I64) THEN Faultable(I64) ELSE NoType
Lifted(t) == IF t = NoType \/ IsFaultable(t) THEN t ELSE Faultable(t)
BuiltinOutput(n, t) ==
  CASE n = "expect" -> PlainBuiltin(n, t)
    [] n # "expect" /\ IsFaultable(t) -> Lifted(PlainBuiltin(n, t[2]))
    [] n # "expect" /\ MixedTuple(t) -> Lifted(PlainBuiltin(n, UnwrapTuple(t)))
    [] OTHER -> PlainBuiltin(n, t)
PlainOutput(n, t) == IF n \in Users THEN Signature[n].output ELSE PlainBuiltin(n, t)

(* call_output_type, which every back end asks for the type of a call.      *)
CallOutput(n, t) ==
  IF n \notin Users THEN BuiltinOutput(n, t)
  ELSE LET s == Signature[n]
       IN IF s.input = t /\ ContainsFaultable(t) THEN s.output
          ELSE IF IsFaultable(t) \/ MixedTuple(t) THEN Lifted(s.output) ELSE s.output

(* apply_node: the type checker tries the declared type when it holds a     *)
(* Faultable, and otherwise the argument stripped of all of them.           *)
ApplyNode(n, t) ==
  LET plain == StripFaultable(t)
      output ==
        CASE n \in Users -> IF Signature[n].input = plain THEN Signature[n].output ELSE NoType
          [] n = "expect" -> NoType
          [] OTHER -> PlainBuiltin(n, plain)
  IN IF n = "expect" /\ IsFaultable(t) THEN t[2]
     ELSE IF n \in Users /\ Signature[n].input = t THEN Signature[n].output
     ELSE IF ContainsFaultable(t) THEN Lifted(output) ELSE output

(* binding_target_types: a Faultable tuple's items are each Faultable.      *)
Items(t) ==
  IF IsFaultable(t) /\ IsTuple(t[2]) THEN <<Lifted(t[2][2]), Lifted(t[2][3])>>
  ELSE IF IsTuple(t) THEN <<t[2], t[3]>> ELSE <<>>

(* assignable_type: what an output or a field declared t takes.             *)
Assignable(t, actual) ==
  t = actual \/ (IsFaultable(t) /\ (t[2] = actual \/ (MixedTuple(actual)
                                                     /\ t[2] = UnwrapTuple(actual))))

-----------------------------------------------------------------------------
(* What a call means.  Faults are examined from left to right; a node that  *)
(* declares the Faultable it is given examines it itself.                   *)
Handles(n, t) ==
  \/ n = "expect" /\ IsFaultable(t)
  \/ n \in Users /\ Signature[n].input = t
Meaning(n, t, v) ==
  LET faults == FaultsWithin(v, t)
      called == Body(n, PlainWithin(v, t))
  IN IF Handles(n, t) THEN Body(n, v)
     ELSE IF faults # <<>> THEN faults[1]
     ELSE IF ContainsFaultable(t) /\ ~IsFaultable(PlainOutput(n, StripFaultable(t)))
          THEN Ok(called) ELSE called
MeantAs(t, ty, v) ==
  IF t = ty THEN v
  ELSE IF t[2] = ty THEN Ok(v)
  ELSE LET faults == FaultsWithin(v, ty)
       IN IF faults # <<>> THEN faults[1] ELSE Ok(PlainWithin(v, ty))
(* The k-th item of a tuple, or of a Faultable tuple.                       *)
MeantItem(k, ty, v) ==
  IF ~IsFaultable(ty) THEN v[k + 1]
  ELSE IF v[1] = "fault" THEN v
  ELSE IF IsFaultable(ty[2][k + 1]) THEN v[2][k + 1] ELSE Ok(v[2][k + 1])

-----------------------------------------------------------------------------
(* The native back ends.  A compiled value has the type its emitter tracks. *)
Compiled(t, v) == [ty |-> t, val |-> v]
Refused == Compiled(NoType, Garbage)
(* What the C compiler, or emit_user_function_call, takes as n's argument.  *)
Fits(n, t) == IF n \in Users THEN Signature[n].input = t ELSE PlainBuiltin(n, t) # NoType

(* Fault: the last one stays.                                               *)
CLastFault(leaves) ==
  FoldLeft(LAMBDA target, leaf : IF leaf[1] = "fault" THEN leaf ELSE target,
           Ok(Garbage), leaves)
(* emit_fault_checks_for_value: the target keeps the first fault it is      *)
(* given.                                                                   *)
CFault(leaves) ==
  FoldLeft(LAMBDA target, leaf : IF target[1] # "fault" /\ leaf[1] = "fault"
                                 THEN leaf ELSE target,
           Ok(Garbage), leaves)
(* collect_nested_fault_state: selects over every leaf, with no branch.  A  *)
(* leaf's message is there to select whether or not it is a fault.          *)
LlvmFault(leaves) ==
  LET Select(state, leaf) ==
        [faulted |-> state.faulted \/ leaf[1] = "fault",
         chosen |-> IF state.faulted THEN state.chosen ELSE leaf]
      end == FoldLeft(Select, [faulted |-> FALSE, chosen |-> Ok(Garbage)], leaves)
  IN IF end.faulted THEN end.chosen ELSE Ok(Garbage)

(* strip_nested_faultable_value.                                            *)
RECURSIVE LlvmPlain(_, _)
LlvmPlain(v, t) ==
  IF IsFaultable(t) THEN v[2]
  ELSE IF IsTuple(t) THEN Both(LlvmPlain(v[2], t[2]), LlvmPlain(v[3], t[3])) ELSE v

(* A call that examines its argument's Faultables first when lift is TRUE.  *)
NativeCall(n, r, lift, FirstFault(_), Plain(_, _)) ==
  LET t == r.ty
      out == CallOutput(n, t)
      plain == IF ~lift THEN t ELSE IF IsFaultable(t) THEN t[2] ELSE UnwrapTuple(t)
      fault == IF lift THEN FirstFault(Leaves(r.val, t)) ELSE Ok(Garbage)
      called == Body(n, IF lift THEN Plain(r.val, t) ELSE r.val)
  IN IF t = NoType \/ out = NoType \/ ~Fits(n, plain) THEN Refused
     ELSE Compiled(out, IF fault[1] = "fault" THEN fault
                        ELSE IF IsFaultable(out) /\ PlainOutput(n, plain) = out[2]
                        THEN Ok(called) ELSE called)
Lifts(n, t) ==
  t # NoType /\ IsFaultable(CallOutput(n, t)) /\ (IsFaultable(t) \/ MixedTuple(t))
CCall(n, r) == NativeCall(n, r, Lifts(n, r.ty), CFault, RemoveFaultables)
(* Fault: tuples with Faultables in them are not joined for the call.       *)
LlvmLiftsOne(n, t) == Lifts(n, t) /\ ~(n \in Users /\ Signature[n].input = t) /\ IsFaultable(t)
LlvmLifts(n, t) == Lifts(n, t) /\ ~(n \in Users /\ Signature[n].input = t)
(* first and second join a tuple's Faultables before they take an item.     *)
LlvmProject(n, r) == NativeCall(n, r, Lifts(n, r.ty), LlvmFault, LlvmPlain)
LlvmCall(n, r) ==
  IF n \in {"first", "second"} THEN LlvmProject(n, r)
  ELSE NativeCall(n, r, LlvmLifts(n, r.ty), LlvmFault, LlvmPlain)

(* A value where t is declared: emit_assign_value and coerce_value_to_ty.   *)
NativeAs(t, r, FirstFault(_), Plain(_, _)) ==
  LET fault == FirstFault(Leaves(r.val, r.ty))
  IN CASE r.ty = t -> r
       [] IsFaultable(t) /\ r.ty = t[2] -> Compiled(t, Ok(r.val))
       [] IsFaultable(t) /\ MixedTuple(r.ty) /\ UnwrapTuple(r.ty) = t[2] ->
            Compiled(t, IF fault[1] = "fault" THEN fault
                        ELSE Ok(Plain(r.val, r.ty)))
       [] OTHER -> Refused
CAs(t, r) == NativeAs(t, r, CFault, RemoveFaultables)
LlvmAs(t, r) == NativeAs(t, r, LlvmFault, LlvmPlain)

(* Tuple targets.  C joins an item's own Faultable with its tuple's; the    *)
(* other two put one inside the other.                                      *)
CItem(k, r) ==
  LET t == r.ty
  IN CASE IsTuple(t) -> Compiled(t[k + 1], r.val[k + 1])
       [] IsFaultable(t) /\ IsTuple(t[2]) ->
            Compiled(Lifted(t[2][k + 1]),
                     IF r.val[1] = "fault" THEN r.val
                     ELSE IF IsFaultable(t[2][k + 1]) THEN r.val[2][k + 1]
                     ELSE Ok(r.val[2][k + 1]))
       [] OTHER -> Refused
LlvmItem(k, r) ==
  LET t == r.ty
  IN CASE IsTuple(t) -> Compiled(t[k + 1], r.val[k + 1])
       [] IsFaultable(t) /\ IsTuple(t[2]) ->
            Compiled(Faultable(t[2][k + 1]),
                     IF r.val[1] = "fault" THEN r.val ELSE Ok(r.val[2][k + 1]))
       [] OTHER -> Refused
Couple(r1, r2) ==
  IF r1.ty = NoType \/ r2.ty = NoType THEN Refused
  ELSE Compiled(Tuple(r1.ty, r2.ty), Both(r1.val, r2.val))

-----------------------------------------------------------------------------
(* JavaScript.  A call of a node on a value of whatever shape it has: a     *)
(* number where an object is read, or the reverse, is Garbage from there.   *)
TsTakes(n, v) ==
  CASE n \in Users -> Shaped(v, Signature[n].input)
    [] n = "expect" -> v[1] \in {"ok", "fault"}
    [] n = "div" -> Shaped(v, Tuple(I64, I64))
    [] OTHER -> v[1] = "tuple"
TsPlain(n, v) == IF TsTakes(n, v) THEN Body(n, v) ELSE Garbage
(* call_args: a node of two inputs is called with the items of a tuple.     *)
TsCompiles(n, t) == n \in Users /\ IsTuple(Signature[n].input) => IsTuple(t)
(* emit_call_preferred: the faults of a tuple's items are not examined.     *)
TsCall(n, r) ==
  LET t == r.ty
      out == CallOutput(n, t)
      lift == IsFaultable(t) /\ IsFaultable(out)
      plain == IF lift THEN t[2] ELSE t
      plain_output == IF IsFaultable(out) THEN PlainOutput(n, plain) ELSE out
      argument == IF ~lift THEN r.val ELSE IF r.val[1] = "ok" THEN r.val[2] ELSE Garbage
      called == TsPlain(n, argument)
  IN IF t = NoType \/ out = NoType \/ plain_output = NoType \/ ~TsCompiles(n, plain)
        \/ (lift /\ plain_output \notin {out, out[2]})
     THEN Refused
     ELSE Compiled(out, IF lift /\ r.val[1] = "fault" THEN r.val
                        ELSE IF IsFaultable(out) /\ plain_output = out[2] THEN Ok(called)
                        ELSE called)
(* coerce_value, for a callable's only output.                              *)
TsAs(t, r) ==
  CASE r.ty = t -> r
    [] r.ty # t /\ ~Assignable(t, r.ty) -> Refused
    [] r.ty # t /\ Assignable(t, r.ty) ->
         Compiled(t, IF t[2] = r.ty THEN Ok(r.val) ELSE r.val)
(* emit_outputs and emit_struct_endpoint: the declared type, the value as   *)
(* it is.                                                                   *)
TsOutput(t, r) == IF r.ty = NoType THEN Refused ELSE Compiled(t, r.val)
TsField(t, r) == IF r.ty = NoType THEN Refused ELSE Compiled(t, r.val)
(* Fault: the item of a tuple that was not computed.                        *)
TsItemUnchecked(k, r) ==
  LET t == r.ty
  IN CASE IsTuple(t) ->
            Compiled(t[k + 1], IF r.val[1] = "tuple" THEN r.val[k + 1] ELSE Garbage)
       [] IsFaultable(t) /\ IsTuple(t[2]) ->
            Compiled(Faultable(t[2][k + 1]),
                     IF r.val[1] = "ok" /\ r.val[2][1] = "tuple" THEN Ok(r.val[2][k + 1])
                     ELSE Ok(Garbage))
       [] OTHER -> Refused
TsItem(k, r) ==
  LET t == r.ty
  IN CASE IsTuple(t) ->
            Compiled(t[k + 1], IF r.val[1] = "tuple" THEN r.val[k + 1] ELSE Garbage)
       [] IsFaultable(t) /\ IsTuple(t[2]) ->
            Compiled(Faultable(t[2][k + 1]),
                     CASE r.val[1] = "fault" -> r.val
                       [] r.val[1] = "ok" /\ r.val[2][1] = "tuple" -> Ok(r.val[2][k + 1])
                       [] OTHER -> Ok(Garbage))
       [] OTHER -> Refused

-----------------------------------------------------------------------------
(* One body, compiled and run by all three.                                 *)
VARIABLES
  env,       \* the bound values: the checker's type, what is meant, and each target's
  pipe,      \* the value a chain carries from stage to stage, or None
  outputs,   \* the values returned
  calls,     \* the calls made
  refused,   \* the back ends that have refused a part of the body
  uses       \* the constructs the back ends are known to treat apart
vars == <<env, pipe, outputs, calls, refused, uses>>

Targets == {"c", "llvm", "js"}
Value(t, v, c, llvm, js) == [ty |-> t, meant |-> v, c |-> c, llvm |-> llvm, js |-> js]
Input(t, v) == Value(t, v, Compiled(t, v), Compiled(t, v), Compiled(t, v))
None == Input(NoType, Garbage)

(* A callable's input ports: one plain, the other Faultable.                *)
Init ==
  /\ \E v \in {Num(1), Num(2)}, w \in {Ok(Num(2)), Fault("given")} :
       env = <<Input(I64, v), Input(Faultable(I64), w)>>
  /\ pipe = None /\ outputs = <<>> /\ calls = 0 /\ refused = {} /\ uses = {}

(* Constructs: a node called with the Faultable it declares that answers a  *)
(* Faultable; a tuple with Faultables given where they are to be joined.    *)
Known(n, t) ==
  CASE Handles(n, t) ->
         IF n \in Users /\ ContainsFaultable(t) /\ IsFaultable(Signature[n].output)
         THEN {"handler"} ELSE {}
    [] ~Handles(n, t) -> IF MixedTuple(t) THEN {"mixed"} ELSE {}
Declared(t) ==
  {u \in {t, Faultable(t)} \cup IF MixedTuple(t) THEN {Faultable(UnwrapTuple(t))} ELSE {} :
     Assignable(u, t) /\ (Nested(u) => u = t)}

Refusing(values) == {b \in Targets : \E v \in values : v[b] = Refused}
Carry(v) ==
  /\ pipe' = v
  /\ refused' = refused \cup Refusing({v})
(* expect of a fault ends the program.                                      *)
Running == outputs = <<>> /\ pipe.meant # Dead

-----------------------------------------------------------------------------
(* A chain's source: a variable, a tuple of two, or a field of a struct     *)
(* literal, whose declared type its value only has to be assignable to.     *)
FromVariable(i) ==
  /\ Running /\ pipe = None
  /\ Carry(env[i])
  /\ UNCHANGED <<env, outputs, calls, uses>>

FromTuple(i, j) ==
  LET x == env[i]  y == env[j]
  IN /\ Running /\ pipe = None
     /\ Carry(Value(Tuple(x.ty, y.ty), Both(x.meant, y.meant),
                    Couple(x.c, y.c), Couple(x.llvm, y.llvm), Couple(x.js, y.js)))
     /\ UNCHANGED <<env, outputs, calls, uses>>

FromField(i, t) ==
  LET x == env[i]
  IN /\ Running /\ pipe = None /\ t \in Declared(x.ty) \ {x.ty}
     /\ Carry(Value(t, MeantAs(t, x.ty, x.meant), CAs(t, x.c), LlvmAs(t, x.llvm),
                    TsField(t, x.js)))
     /\ uses' = uses \cup {"relabelled"}
     /\ UNCHANGED <<env, outputs, calls>>

(* A stage that calls a node.  Values with a Faultable inside a Faultable   *)
(* are bound, but no node is called with one.                               *)
Call(n) ==
  LET t == ApplyNode(n, pipe.ty)
      v == Value(t, Meaning(n, pipe.ty, pipe.meant),
                 CCall(n, pipe.c), LlvmCall(n, pipe.llvm), TsCall(n, pipe.js))
  IN /\ Running /\ pipe # None /\ calls < MaxCalls
     /\ t # NoType /\ ~Nested(pipe.ty)
     /\ Carry(v)
     /\ calls' = calls + 1
     /\ uses' = uses \cup Known(n, pipe.ty)
     /\ UNCHANGED <<env, outputs>>

(* The binding at a chain's end: a name, or a tuple of two names.  Chains   *)
(* that only rename a value are left out.                                   *)
BindName ==
  /\ Running /\ pipe # None /\ Len(env) < MaxBound
  /\ \A i \in DOMAIN env : env[i] # pipe
  /\ env' = Append(env, pipe)
  /\ pipe' = None
  /\ UNCHANGED <<outputs, calls, refused, uses>>

BindTuple ==
  LET Item(k) == Value(Items(pipe.ty)[k], MeantItem(k, pipe.ty, pipe.meant),
                       CItem(k, pipe.c), LlvmItem(k, pipe.llvm), TsItem(k, pipe.js))
  IN /\ Running /\ pipe # None /\ Len(env) + 2 <= MaxBound
     /\ Items(pipe.ty) # <<>>
     /\ env' = env \o <<Item(1), Item(2)>>
     /\ pipe' = None
     /\ refused' = refused \cup Refusing({Item(1), Item(2)})
     /\ uses' = uses \cup IF Nested(pipe.ty) THEN {"nested"} ELSE {}
     /\ UNCHANGED <<outputs, calls>>

(* The end of the body: one declared output, or two.                        *)
ReturnOne(i, t) ==
  LET x == env[i]
      v == Value(t, MeantAs(t, x.ty, x.meant), CAs(t, x.c), LlvmAs(t, x.llvm), TsAs(t, x.js))
  IN /\ Running /\ pipe = None /\ t \in Declared(x.ty)
     /\ outputs' = <<v>>
     /\ refused' = refused \cup Refusing({v})
     /\ uses' = uses \cup IF t # x.ty /\ MixedTuple(x.ty) THEN {"mixed"} ELSE {}
     /\ UNCHANGED <<env, pipe, calls>>

ReturnTwo(i, j, t, u) ==
  LET Output(x, ty) == Value(ty, MeantAs(ty, x.ty, x.meant), CAs(ty, x.c),
                             LlvmAs(ty, x.llvm), TsOutput(ty, x.js))
      v == Output(env[i], t)
      w == Output(env[j], u)
  IN /\ Running /\ pipe = None
     /\ t \in Declared(env[i].ty) /\ u \in Declared(env[j].ty)
     /\ outputs' = <<v, w>>
     /\ refused' = refused \cup Refusing({v, w})
     /\ uses' = uses \cup IF t # env[i].ty \/ u # env[j].ty THEN {"relabelled"} ELSE {}
     /\ UNCHANGED <<env, pipe, calls>>

Next ==
  \/ \E i \in DOMAIN env :
       \/ FromVariable(i)
       \/ \E t \in Declared(env[i].ty) : FromField(i, t) \/ ReturnOne(i, t)
       \/ \E j \in DOMAIN env :
            \/ FromTuple(i, j)
            \/ \E t \in Declared(env[i].ty), u \in Declared(env[j].ty) : ReturnTwo(i, j, t, u)
  \/ \E n \in Users \cup Builtins : Call(n)
  \/ BindName
  \/ BindTuple

Spec == Init /\ [][Next]_vars

-----------------------------------------------------------------------------
Values == {env[i] : i \in DOMAIN env} \cup {pipe} \cup {outputs[i] : i \in DOMAIN outputs}
Keeps(b, v) == v[b] = Refused \/ v[b] = Compiled(v.ty, v.meant)

(* Whatever the body does, a program built for C or LLVM computes what the  *)
(* body means, at the type the checker gave it: a call answers the first    *)
(* fault among its arguments, a node that declares a Faultable sees it, and *)
(* a tuple's fault reaches every name bound from it.  LLVM differs once a   *)
(* tuple with a Faultable item has itself been Faultable when it was bound. *)
NativesKeepMeaning ==
  \A v \in Values :
    /\ Keeps("c", v)
    /\ "nested" \notin uses => Keeps("llvm", v)

(* What the checker accepts, the back ends compile: LLVM whenever no        *)
(* Faultable is inside another, C unless, besides, a node is given the      *)
(* Faultable it declares and answers one, JavaScript unless a tuple mixes   *)
(* plain and Faultable items.                                               *)
AcceptedChainsCompile ==
  "nested" \notin uses =>
    /\ "llvm" \notin refused
    /\ "c" \in refused => "handler" \in uses
    /\ "js" \in refused => uses \cap {"mixed", "handler", "relabelled"} # {}

(* JavaScript computes it too, when no tuple with Faultables was to be      *)
(* joined, no node was given the Faultable it declares to answer another,   *)
(* and no plain value was to become Faultable in a struct or among several  *)
(* outputs.                                                                 *)
JavaScriptKeepsMeaning == uses = {} => \A v \in Values : Keeps("js", v)
=============================================================================
