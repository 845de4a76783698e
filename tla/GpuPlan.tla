------------------------------- MODULE GpuPlan -------------------------------
(***************************************************************************)
(* The kernels the compiler writes for maps: a pure node from a scalar to  *)
(* the same scalar is lowered to one WGSL expression of its input, the     *)
(* one-input nodes it calls inlined; a node the lowering gives up on has   *)
(* no kernel and its map stays on the host.                                *)
(*                                                                         *)
(* An endpoint is <<"var", name>>, <<"lit", n>>, <<"tuple", endpoints>> or *)
(* <<"eval", endpoint, stages>>, a stage <<"call", name>>, <<"bind",       *)
(* target>> or <<"other">>, a target <<"discard">>, <<"name", n>> or       *)
(* <<"targets", names>>, and a chain is [source, stages].  Only TLC runs   *)
(* this module: it is recursive.                                           *)
(***************************************************************************)
EXTENDS LinearAlgebra, TLC

\* The nodes of the program by name: their inputs, output and chains, and
\* whether they take and return one scalar of the same type.
CONSTANT Nodes

Unary == {"neg", "abs", "exp"}
Binary == {"add", "sub", "mul", "lt"}

BinaryValue(op, l, r) ==
  CASE op = "add" -> l + r
    [] op = "sub" -> l - r
    [] op = "mul" -> l * r
    [] op = "lt" -> l < r

(* A target of several names takes a tuple apart.                           *)
Bind(target, Part(_), value, env) ==
  CASE target[1] = "discard" -> env
    [] target[1] = "name" -> (target[2] :> value) @@ env
    [] target[1] = "targets" ->
         [n \in {target[2][i] : i \in DOMAIN target[2]} |->
            Part(CHOOSE i \in DOMAIN target[2] : target[2][i] = n)] @@ env

-----------------------------------------------------------------------------
(* What a node means: its chains in order, each name the value last bound.  *)

BuiltinMeaning(name, value) ==
  CASE name \in Unary -> UnaryValue(name, value)
    [] name \in Binary -> BinaryValue(name, value[1], value[2])
    [] name = "select" -> IF value[1] THEN value[2] ELSE value[3]

RECURSIVE EndpointMeaning(_, _), FlowMeaning(_, _, _), NodeMeaning(_, _)

EndpointMeaning(endpoint, env) ==
  CASE endpoint[1] = "var" -> env[endpoint[2]]
    [] endpoint[1] = "lit" -> endpoint[2]
    [] endpoint[1] = "tuple" ->
         [i \in DOMAIN endpoint[2] |-> EndpointMeaning(endpoint[2][i], env)]
    [] endpoint[1] = "eval" ->
         FlowMeaning(endpoint[3], EndpointMeaning(endpoint[2], env), env).value

FlowMeaning(stages, value, env) ==
  IF stages = <<>> THEN [value |-> value, env |-> env]
  ELSE LET stage == Head(stages) IN
    IF stage[1] = "call"
    THEN FlowMeaning(Tail(stages), NodeMeaning(stage[2], value), env)
    ELSE FlowMeaning(Tail(stages), value,
                     Bind(stage[2], LAMBDA i : value[i], value, env))

NodeMeaning(name, value) ==
  IF name \notin DOMAIN Nodes THEN BuiltinMeaning(name, value)
  ELSE LET node == Nodes[name]
           start == IF Len(node.inputs) = 1 THEN (node.inputs[1] :> value)
                    ELSE [n \in {node.inputs[1], node.inputs[2]} |->
                            value[IF n = node.inputs[1] THEN 1 ELSE 2]]
           Chain(env, chain) ==
             FlowMeaning(chain.stages, EndpointMeaning(chain.source, env), env).env
       IN  FoldLeft(Chain, start, node.chains)[node.output]

-----------------------------------------------------------------------------
(* ScalarKernelBuilder.  Lowering gives up by returning Unsupported, which  *)
(* every operator passes on.                                                *)

Unsupported == <<"unsupported">>
IsTuple(expr) == expr[1] = "tuple"

LowerBuiltin(name, input) ==
  CASE name \in Unary -> <<"unary", name, input>>
    [] name \in Binary /\ IsTuple(input) /\ Len(input[2]) = 2 ->
         <<"binary", name, input[2][1], input[2][2]>>
    [] name = "select" /\ IsTuple(input) /\ Len(input[2]) = 3 ->
         <<"select", input[2][1], input[2][2], input[2][3]>>
    [] OTHER -> Unsupported

(* A target of several names needs an expression that is a tuple.           *)
Binds(target, expr) ==
  target[1] = "targets" => IsTuple(expr) /\ Len(expr[2]) = Len(target[2])

RECURSIVE LowerEndpoint(_, _), LowerStages(_, _, _), LowerCall(_, _)

LowerEndpoint(endpoint, env) ==
  CASE endpoint[1] = "var" ->
         IF endpoint[2] \in DOMAIN env THEN env[endpoint[2]] ELSE Unsupported
    [] endpoint[1] = "lit" -> endpoint
    [] endpoint[1] = "tuple" ->
         LET items == [i \in DOMAIN endpoint[2] |-> LowerEndpoint(endpoint[2][i], env)]
         IN  IF \E i \in DOMAIN items : items[i] = Unsupported THEN Unsupported
             ELSE <<"tuple", items>>
    [] endpoint[1] = "eval" ->  \* the names an inline evaluation binds stay in it
         LowerStages(endpoint[3], LowerEndpoint(endpoint[2], env), env).value

LowerStages(stages, value, env) ==
  IF stages = <<>> \/ value = Unsupported THEN [value |-> value, env |-> env]
  ELSE LET stage == Head(stages) IN
    CASE stage[1] = "call" ->
           LowerStages(Tail(stages), LowerCall(stage[2], value), env)
      [] stage[1] = "bind" /\ Binds(stage[2], value) ->
           LowerStages(Tail(stages), value,
                       Bind(stage[2], LAMBDA i : value[2][i], value, env))
      [] OTHER -> [value |-> Unsupported, env |-> env]

(* Every chain, from an environment of the input alone, up to one that      *)
(* cannot be lowered.                                                       *)
Output(node, start) ==
  LET Chain(state, chain) ==
        LET end == LowerStages(chain.stages,
                               LowerEndpoint(chain.source, state.env), state.env)
        IN  IF state.ok THEN [ok |-> end.value # Unsupported, env |-> end.env]
            ELSE state
      end == FoldLeft(Chain, [ok |-> TRUE, env |-> start], node.chains)
  IN  IF end.ok /\ node.output \in DOMAIN end.env THEN end.env[node.output]
      ELSE Unsupported

(* A node of two inputs is not inlined: its name is then looked up among    *)
(* the built-ins.                                                           *)
LowerCall(name, input) ==
  IF name \in DOMAIN Nodes /\ Len(Nodes[name].inputs) = 1
  THEN Output(Nodes[name], Nodes[name].inputs[1] :> input)
  ELSE LowerBuiltin(name, input)

LowerCallable(name) == Output(Nodes[name], Nodes[name].inputs[1] :> <<"x">>)

(* GpuPlan::analyze and kernel_for_map.                                     *)
Kernels == [name \in {n \in DOMAIN Nodes : Nodes[n].scalar} |-> LowerCallable(name)]
HasKernel(name) == name \in DOMAIN Kernels /\ Kernels[name] # Unsupported

-----------------------------------------------------------------------------
(* GpuExpr::wgsl, by what the expression computes for one element.          *)
RECURSIVE Computed(_, _)
Computed(expr, x) ==
  CASE expr[1] = "x" -> x
    [] expr[1] = "lit" -> expr[2]
    [] expr[1] = "unary" -> UnaryValue(expr[2], Computed(expr[3], x))
    [] expr[1] = "binary" ->
         BinaryValue(expr[2], Computed(expr[3], x), Computed(expr[4], x))
    [] expr[1] = "select" ->
         IF Computed(expr[2], x) THEN Computed(expr[3], x) ELSE Computed(expr[4], x)
=============================================================================
