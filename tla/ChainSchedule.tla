--------------------------- MODULE ChainSchedule ---------------------------
(***************************************************************************)
(* How a body becomes C code (src/src/codegen/mod.rs and runtime_c.rs) or  *)
(* TypeScript (typescript.rs).  For C, fuse_single_use_chains glues a      *)
(* chain to the only reader of what it binds; emit_callable then walks the *)
(* list and emits either one chain, or a batch of independent ones that    *)
(* fa_parallel_tasks runs at once.  For TypeScript the chains stay as they *)
(* are, and a batch is awaited together (Promise.all) or shares one loop.  *)
(* The function emitted runs its steps in the order they are emitted in,   *)
(* so the model runs a step as soon as it emits it.                        *)
(*                                                                         *)
(* The type checker goes first: it accepts a body whose chains read what   *)
(* earlier chains bind.  Chain c binds the variable c, and a tuple target  *)
(* or a fault map c + ChainCount as well, so that every name is bound once *)
(* here.  Inputs of the node are in scope everywhere and are left out.     *)
(***************************************************************************)
EXTENDS Naturals, FiniteSets, FiniteSetsExt, Sequences, SequencesExt

CONSTANTS
  ChainCount,  (* Chains in a body.                                        *)
  FormsOf,     (* FormsOf[c]: the ways chain c may end.                    *)
  KindPatterns,(* Bound: the kinds the chains of a TypeScript body have.   *)
  MaxOdd,      (* Bound: reads other than of an earlier chain as a source. *)
  MaxUnsafe    (* Bound: chains that are not parallel safe.                *)

Forms == {"variable", "tuple", "discard", "faultMap"}
Chains == 1 .. ChainCount

\* What the TypeScript generator sees in a chain of one stage and a variable:
\* an asynchronous call, GPU map or GPU reduction; a reduction; a map on the
\* worker pool; another map; a range_step.  "short" ends in a call whose code
\* stays an expression; the rest is "plain".
Kinds == {"plain", "short", "async", "reduce", "worker", "map", "range"}
Variables == 1 .. 2 * ChainCount
NoVariable == 0

ASSUME ChainScheduleAssumption ==
  /\ ChainCount \in Nat \ {0} /\ MaxOdd \in Nat /\ MaxUnsafe \in Nat
  /\ FormsOf \in [Chains -> SUBSET Forms]
  /\ KindPatterns \subseteq [Chains -> Kinds]

VARIABLES
  backEnd,    (* "c" or "ts".                                              *)
  kind,       (* kind[c]: what chain c is to the TypeScript generator.     *)
  form,       (* form[c]: how chain c ends.                                *)
  source,     (* source[c]: the variable it starts from, or NoVariable: an *)
              (* input, or an expression of the mentions in rest[c].       *)
  rest,       (* rest[c]: the variables it mentions anywhere else.         *)
  unsafe,     (* The chains with a name that is not parallel safe.         *)
  output,     (* The output port.                                          *)
  list,       (* The chains as fused so far, each a sequence of chains.    *)
  phase,      (* "check", "fuse", "emit", "run", "done"; "rejected" by the *)
              (* type checker or "failed" with an error of the emitter.    *)
  at,         (* chain_index.                                              *)
  env,        (* The variables bound: the keys of env.                     *)
  running,    (* running[k]: what the running step has still to evaluate   *)
              (* of list[k]; <<>> outside the step.                        *)
  times       (* times[c]: how often chain c was evaluated (history).      *)

body == <<backEnd, kind, form, source, rest, unsafe, output>>
vars == <<body, list, phase, at, env, running, times>>

BinderOf(v) == IF v > ChainCount THEN v - ChainCount ELSE v

\* The odd reads of a body: mentions that are no source, sources bound later.
Rests == {r \in [Chains -> {R \in SUBSET Variables : Cardinality(R) <= MaxOdd}] :
            MapThenSumSet(LAMBDA c : Cardinality(r[c]), Chains) <= MaxOdd}
Ahead(s) == {c \in Chains : s[c] # NoVariable /\ BinderOf(s[c]) >= c}
Sources == {s \in [Chains -> Variables \cup {NoVariable}] :
              Cardinality(Ahead(s)) <= MaxOdd}

Binds(c) ==
  CASE form[c] = "variable" -> {c}
    [] form[c] \in {"tuple", "faultMap"} -> {c, c + ChainCount}
    [] OTHER -> {}
Reads(c) == rest[c] \cup ({source[c]} \ {NoVariable})

\* A kind with a batch ends in a variable; the stage of a map or a call
\* mentions nothing, so what it reads is its source.
KindsFit ==
  /\ kind \in IF backEnd = "ts" THEN KindPatterns ELSE {[c \in Chains |-> "plain"]}
  /\ \A c \in Chains :
       /\ kind[c] = "short" => form[c] = "discard"
       /\ kind[c] \notin {"plain", "short"} => form[c] = "variable"
       /\ kind[c] \in {"worker", "range"} => source[c] = NoVariable \/ rest[c] = {}
       /\ kind[c] = "map" => rest[c] = {}
-----------------------------------------------------------------------------
Init ==
  /\ rest \in Rests /\ source \in Sources
  /\ Cardinality(Ahead(source))
     + MapThenSumSet(LAMBDA c : Cardinality(rest[c]), Chains) <= MaxOdd
  /\ form \in [Chains -> Forms] /\ \A c \in Chains : form[c] \in FormsOf[c]
  /\ \A c \in Chains : Reads(c) \subseteq UNION {Binds(d) : d \in Chains}
  /\ backEnd \in {"c", "ts"} /\ KindsFit
  /\ unsafe \in {U \in SUBSET Chains : Cardinality(U) <= MaxUnsafe}
  /\ backEnd = "ts" => unsafe = {}
  /\ output \in UNION {Binds(c) : c \in Chains}
  /\ list = [c \in Chains |-> <<c>>]
  /\ phase = "check" /\ at = 1 /\ env = {}
  /\ running = [c \in Chains |-> <<>>]
  /\ times = [c \in Chains |-> 0]

\* check_callable: the chains in the order they are written in; what a chain
\* reads must be bound ("unknown value").
Check ==
  /\ phase = "check"
  /\ phase' = IF \A c \in Chains : Reads(c) \subseteq UNION {Binds(d) : d \in 1 .. c - 1}
              THEN IF backEnd = "c" THEN "fuse" ELSE "emit"
              ELSE "rejected"
  /\ UNCHANGED <<body, list, at, env, running, times>>

\* A fused chain keeps the source of its first member, the other mentions of
\* all, and the target of its last.
SourceOf(t) == source[Head(t)]
RestOf(t)   == UNION {rest[c] : c \in Range(t)}
ReadsOf(t)  == RestOf(t) \cup ({SourceOf(t)} \ {NoVariable})
BindsOf(t)  == Binds(Last(t))

\* The mentions of a variable, as fuse_single_use_chains counts them.
Mentions(v) == Cardinality({k \in DOMAIN list : SourceOf(list[k]) = v})
               + Cardinality({k \in DOMAIN list : v \in RestOf(list[k])})

\* Chain p of the list ends in a variable that is no output and is read once,
\* and chain q starts from it.
Fusable(p, q) ==
  /\ p # q
  /\ form[Last(list[p])] = "variable"
  /\ output \notin BindsOf(list[p])
  /\ \A v \in BindsOf(list[p]) : Mentions(v) = 1
  /\ SourceOf(list[q]) \in BindsOf(list[p])

Producers == {p \in DOMAIN list : \E q \in DOMAIN list : Fusable(p, q)}

FuseBackwards ==  \* Fault: the fused chain takes the producer's place.
  /\ phase = "fuse" /\ Producers # {}
  /\ LET p == CHOOSE p \in Producers : \A r \in Producers : p <= r
         q == CHOOSE q \in DOMAIN list : Fusable(p, q)
     IN  list' = RemoveAt([list EXCEPT ![p] = list[p] \o list[q]], q)
  /\ UNCHANGED <<body, phase, at, env, running, times>>
\* One round of the loop: the first producer joins its consumer, in its place.
Fuse ==
  /\ phase = "fuse" /\ Producers # {}
  /\ LET p == CHOOSE p \in Producers : \A r \in Producers : p <= r
         q == CHOOSE q \in DOMAIN list : Fusable(p, q)
     IN  list' = RemoveAt([list EXCEPT ![q] = list[p] \o list[q]], p)
  /\ UNCHANGED <<body, phase, at, env, running, times>>

EndFusion ==
  /\ phase = "fuse" /\ Producers = {}
  /\ phase' = "emit"
  /\ UNCHANGED <<body, list, at, env, running, times>>

JoinsUnsafe(k) ==  \* Fault: parallel safety of the last member alone.
  LET t == list[k]
  IN  /\ form[Last(t)] # "faultMap" /\ BindsOf(t) # {}
      /\ BindsOf(t) \cap env = {} /\ ReadsOf(t) \subseteq env
      /\ Last(t) \notin unsafe
\* parallel_chain_outputs: chain k of the list may join a batch that starts at
\* `at' and has the chains in between already.
Joins(k) ==
  LET t == list[k]
      produced == UNION {BindsOf(list[j]) : j \in at .. k - 1}
  IN  /\ form[Last(t)] # "faultMap" /\ BindsOf(t) # {}
      /\ BindsOf(t) \cap (env \cup produced) = {}
      /\ ReadsOf(t) \subseteq env \ produced
      /\ Range(t) \cap unsafe = {}

\* The batches of the TypeScript generator that start at `at', each of chains
\* of one kind.  Those that share a loop or a pool start from one source.
Produced(k) == UNION {Binds(c) : c \in at .. k - 1}
JoinsAsync(k)  == kind[k] = "async" /\ Reads(k) \cap Produced(k) = {}
JoinsReduce(k) == /\ kind[k] = "reduce" /\ source[k] = source[at]
                  /\ Reads(k) \cap Produced(k) = {}
JoinsWorker(k) == /\ kind[k] = "worker"
                  /\ source[k] = source[at] /\ rest[k] = rest[at]
JoinsMap(k)    == kind[k] = "map" /\ source[k] = source[at]
JoinsTs(k) ==
  /\ kind[k] = kind[at]
  /\ JoinsAsync(k) \/ JoinsReduce(k) \/ JoinsWorker(k) \/ JoinsMap(k)

\* range_sync_map_batch: the maps that run in the loop of range chain r, if
\* they are all the chains that start from it and follow it at once.
RangeMaps(r) ==
  LET uses == {c \in Chains : source[c] = r}
  IN  IF /\ backEnd = "ts" /\ kind[r] = "range" /\ output # r
         /\ uses = r + 1 .. r + Cardinality(uses)
         /\ \A c \in uses : kind[c] = "map"
      THEN uses ELSE {}

\* The variable of a range that has become a loop is never bound.
LoopVariable == IF RangeMaps(at) # {} THEN {at} ELSE {}

\* The next step: one chain, or the longest run of chains that may join a batch.
MayJoin(k) == IF backEnd = "c" THEN Joins(k) ELSE JoinsTs(k)
Batch == {at} \cup IF RangeMaps(at) # {} THEN RangeMaps(at)
                   ELSE {k \in at .. Len(list) : \A j \in at .. k : MayJoin(j)}

\* bind_target: a call whose code stayed an expression is not emitted at all
\* when its value is discarded.
Dropped(c) == backEnd = "ts" /\ kind[c] = "short" /\ form[c] = "discard"

\* What each task of the step evaluates: its own chain, or the first task the
\* chains of one loop, a single chain that is not dropped among them.
OwnTasks  == [k \in Chains |-> IF k \in Batch THEN list[k] ELSE <<>>]
LoopTasks == [k \in Chains |-> IF k = at /\ ~Dropped(at)
                               THEN [i \in 1 .. Cardinality(Batch) |-> at + i - 1]
                               ELSE <<>>]
Tasks == IF backEnd = "c" \/ kind[at] \in {"async", "worker"}
         THEN OwnTasks ELSE LoopTasks

\* The emitter of the batch or of the chain: the next step starts.  A variable
\* that is not bound is an error.
StartStep ==
  /\ phase = "emit" /\ at <= Len(list)
  /\ IF \A k \in Batch : ReadsOf(list[k]) \subseteq env \cup LoopVariable
     THEN phase' = "run" /\ running' = Tasks
     ELSE phase' = "failed" /\ UNCHANGED running
  /\ UNCHANGED <<body, list, at, env, times>>

\* One task of the step evaluates the next of its chains.
Evaluate(k) ==
  /\ phase = "run" /\ running[k] # <<>>
  /\ running' = [running EXCEPT ![k] = Tail(@)]
  /\ times'   = [times EXCEPT ![Head(running[k])] = @ + 1]
  /\ UNCHANGED <<body, list, phase, at, env>>

EndStepOnly ==  \* Fault: the index always moves by one.
  /\ phase = "run" /\ \A k \in Chains : running[k] = <<>>
  /\ env' = env \cup ((UNION {BindsOf(list[k]) : k \in Batch}) \ LoopVariable)
  /\ at'  = at + 1
  /\ phase' = "emit"
  /\ UNCHANGED <<body, list, running, times>>
EndStepSkipping ==  \* Fault: one more than the batch is skipped.
  /\ phase = "run" /\ \A k \in Chains : running[k] = <<>>
  /\ env' = env \cup ((UNION {BindsOf(list[k]) : k \in Batch}) \ LoopVariable)
  /\ at'  = at + Cardinality(Batch) + (IF Cardinality(Batch) > 1 THEN 1 ELSE 0)
  /\ phase' = "emit"
  /\ UNCHANGED <<body, list, running, times>>
\* The results are bound when all tasks of the step are over.
EndStep ==
  /\ phase = "run" /\ \A k \in Chains : running[k] = <<>>
  /\ env' = env \cup ((UNION {BindsOf(list[k]) : k \in Batch}) \ LoopVariable)
  /\ at'  = at + Cardinality(Batch)
  /\ phase' = "emit"
  /\ UNCHANGED <<body, list, running, times>>

\* emit_outputs: the output must be bound.
Return ==
  /\ phase = "emit" /\ at > Len(list)
  /\ phase' = IF output \in env THEN "done" ELSE "failed"
  /\ UNCHANGED <<body, list, at, env, running, times>>

\* The function has returned, or there is none.
Stopped == phase \in {"done", "rejected", "failed"} /\ UNCHANGED vars

Next ==
  \/ Check \/ Fuse \/ EndFusion
  \/ StartStep \/ (\E k \in Chains : Evaluate(k)) \/ EndStep
  \/ Return \/ Stopped

Spec == Init /\ [][Next]_vars
-----------------------------------------------------------------------------
\* The chains that bind what a chain reads.
Needs == [c \in Chains |-> {d \in Chains : Binds(d) \cap Reads(c) # {}}]

\* A body the type checker accepts compiles: neither fusion nor batching moves
\* a chain before something it reads ("unavailable", "bound more than once").
\* One kind does not: a range whose maps took it into their loop counts only
\* the chains that start from it, and another mention finds it unbound.
MentionsLoopVariable ==
  \E r, c \in Chains : RangeMaps(r) # {} /\ r \in rest[c]
AcceptedBodiesCompile == phase = "failed" => MentionsLoopVariable

\* When the function returns every chain was evaluated, fused, batched or not,
\* except the discarded calls that TypeScript drops.
EveryChainIsEvaluated ==
  phase = "done" => \A c \in Chains : times[c] > 0 \/ Dropped(c)

\* A chain that is not parallel safe in C never runs beside another one, also
\* when it has become part of a longer chain.
UnsafeChainsRunAlone ==
  phase = "run" =>
    \A k \in Chains : Range(running[k]) \cap unsafe # {} =>
      \A j \in Chains \ {k} : running[j] = <<>>

\* Whatever is fused and batched, and however the tasks of a batch interleave,
\* the chains are evaluated as dataflow: each once, after what it reads.
D == INSTANCE Dataflow WITH needs <- Needs
ImplementsDataflow == D!Spec
=============================================================================
