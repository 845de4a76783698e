# A TLA+ development of FlowArrow

FlowArrow is a dataflow language with a compiler written in Rust. The compiler resolves modules,
expands generic nodes, checks types and effects, and generates native code (C or LLVM), WebAssembly,
TypeScript or JavaScript. Generated programs come with runtimes: a C fork-join runtime, C boundary
libraries (files, SQLite, HTTP), a pool of TypeScript workers, and a GPU runtime that is built once
and cached.

This directory models the parts of that system in which order, concurrency, failure or three
independent implementations of one meaning decide whether it is right, checks them with TLC, and
proves the most important results with TLAPS. Paths below are relative to the repository;
`PROJECT.json` maps every definition to the lines it models.

## 1. Inventory

Components that are modelled, in whole or in part:

| Component | State it keeps | Operations | Hard behaviour | What makes it correct |
|---|---|---|---|---|
| Native parallel runtime, `src/stdlib/runtime.c` | a mutex and a cursor per call, on the caller's stack; thread-local worker limit and depth | `fa_parallel_for`, `fa_parallel_tasks`, worker loops | threads claim ranges at once; calls nest; `pthread_create` and `pthread_mutex_init` fail | each item runs once; no call returns early; the thread budget holds; the calls come to an end |
| TypeScript worker pools, text in `src/codegen/typescript.rs` | a registry of pool promises, a queue per pool, worker slots | map calls, prewarm, growth, dispatch, retirement, teardown, the worker's message handler | continuations interleave after every `await`; a dispatch fails while its other ranges still run | results are complete; closed pools stay empty; every call settles |
| Build cache, `src/build.rs` | files of a cache directory, output, `build.hash` | native, library and WASM builds, `--emit-llvm` | any write, compilation, link or record fails or is cut off; two kinds of output share a directory | a successful build leaves the output of its own sources |
| GPU runtime cache, `src/build.rs` | one shared entry per runtime, a lock directory | look up, lock, build, replace, copy | many processes, killed processes, a lock that times out | builds are serialized; a usable entry stays; every process ends |
| GPU runtime, `src/codegen/gpu.rs`, template in `src/build.rs` | device and queue behind a mutex, module promise, buffers, mapping futures and wakers | lowering of maps, reductions and accumulators to kernels; entry points; passes; readback | answers arrive in callbacks while a caller parks or is polled; devices are refused; passes of odd length; uneven matrices | a GPU call gives what the FlowArrow source means; every call ends |
| Type checker and effects, `src/typecheck.rs` | effect of every node; the names bound so far | effect inference, checking of declarations, chains and calls | a fixed point over declarations in any order, with cycles; faults travel through tuples and names | effects are exact; pure positions hold pure nodes; what is accepted compiles |
| Native code generation, `src/codegen/mod.rs`, `runtime_c.rs`, `direct_llvm.rs`, `llvm_seq.rs`, `llvm_stdlib.rs` | a list of chains, the variables bound and their types | fusion of chains, batches of parallel chains, what is parallel safe; the loop of each stage; calls, tuples, outputs; library nodes | chains move; a batch runs as tasks; faults in the middle of a loop; each back end has its own types and index arithmetic | accepted bodies compile; evaluation is dataflow; unsafe chains run alone; a program means the same on every back end |
| TypeScript code generation, `src/codegen/typescript.rs` | as above | as above, synchronous or async | the calls of an async node settle in any order; values carry no type | as above |
| Numbers and sequences, `src/stdlib/runtime.c`, LLVM and WASM helpers, TypeScript prelude | none | checked and `Faultable` arithmetic, sequence nodes | written four times; ends of the integer range, zeros, NaN, empty sequences, positions past the end | the targets agree; a fault exactly where the checked form aborts |
| SQLite, streams and files, `src/stdlib/sqlite.c`, `fs.c`, `stream.rs` | reference-counted connections, row streams, file streams copied by value, contexts of mapped streams | open, query, query_all, map, to_seq, drain, close, size, read_at, copy_to_file | copies share state; consumers close; a connection is closed under its row streams | counts are exact; consumers close; freed state is not read |

How they interact: the checker hands the code generator a program it accepted; the generator decides
what becomes `fa_parallel_for`, `fa_parallel_tasks` or a GPU kernel and calls the runtimes with it;
the TypeScript generator emits the pool runtime and calls it from generated maps; the build drivers
run the generators, write their text into the build cache, link, and copy the GPU runtimes out of the
shared cache. Generated code calls the boundary libraries through plain C functions; those have no
callbacks but the stream functions and the HTTP server's request handler.

Components that are not modelled:

| Component | State, operations | Why not |
|---|---|---|
| HTTP server, `src/stdlib/http.c` | an H2O loop, a request-scoped allocator, responses copied by value | most of it is calls into H2O, whose behaviour the repository does not show; section 6 |
| Module resolver, monomorphizer | depth-first memo with cycle detection; worklist of instances and their names | their hazard is that generated names collide, which depends on the characters the models abstract; section 6 |
| Language server, browser ABI (`src/lsp.rs`, `src/wasm_api.rs`) | open documents; thread-local last result and buffers | a map of documents and a pure function; obligations of a caller who is not in the sources |
| Lexer, parser, formatter, diagrams, command line | a cursor over text | text in, text out: no order or failure the properties could tell apart |
| Bytes, JSON, images, finance | none | pure data |

The hazards, each at its line and with the properties that watch it, are listed in `PROJECT.json`
under `hazards`; those that no property watches say why.

## 2. Modules

    CallTree <- ForkJoin                         what a fork-join call promises
    CallTree <- ParallelRuntime <- MCParallelRuntime
                ParallelRuntime <- ParallelRuntimeProofs
    WorkerPool      <- MCWorkerPool,      WorkerPoolProofs
    BuildCache, GpuRuntimeCache <- Builds <- MCBuilds
    BuildCache, GpuRuntimeCache <- CacheProofs
    Effects         <- MCEffects,         EffectsProofs
    Dataflow                                     what the body of a node promises
    ChainSchedule   <- MCChainSchedule,   ChainScheduleProofs   (INSTANCE Dataflow)
    Stages          <- StagesProofs              (checked as it is)
    Evaluation                                   (checked as it is)
    Results <- Arithmetic, SequenceLibrary <- Library <- LibraryProofs   (checked as it is)
    Results <- LinearAlgebra <- GpuPlan <- GpuKernels <- GpuHost <- GpuRuntime <- MCGpuRuntime
    Resources       <- MCResources,       ResourcesProofs

(`A <- B`: B extends A.) Modules named `MC...` only give constants their values. Definitions whose
comment says *Fault*, *Faulty variant* or *Not the code* are plausible bugs; no specification uses
them, and replacing the definition they vary by one of them makes TLC find a violation of the
property listed with it under `mutants`.

**CallTree, ForkJoin.** A program is reduced to the tree of its fork-join calls: each call has a
kind (`fa_parallel_for` or `fa_parallel_tasks`), a number of items, a grain, and for each item the
call it makes, if any. `ForkJoin` is the abstract specification: a call starts when control reaches
it, its items run once each in any order, and it ends when all have run.

**ParallelRuntime** (`runtime.c:332-467`). One action per step another thread can see: entering a
call and choosing between the serial loop, no items, and the fork; each `pthread_create`; the lock;
the claim of a range, which also unlocks; each item; the end of a range; leaving the loop; joining; and
returning. `pthread_mutex_init` and `pthread_create` may fail at any call. The thread-locals
`fa_parallel_worker_limit` and `fa_parallel_depth` are saved and restored as the code does. A thread
identity that has been joined may be handed out again; identities are interchangeable, so the least
free one is. Only native libraries reach this runtime with `fa_parallel_for`: the LLVM back end for
native programs generates sequential loops.

**WorkerPool** (`typescript.rs`, the emitted runtime). An action is one continuation of the event
loop, one event of a worker that it handles, or one step of a worker thread. Messages between a
worker and the event loop are ordered queues. A worker's error is its death. A prewarm is a call
that stops when it has its pool. Left out: a worker that exits with code 0 by itself (the emitted
worker never does), the bytes of shared buffers beyond "range k was written", `revokeObjectURL`.

**BuildCache** (`build.rs`). The state is one cache directory. A file, an output and the hash hold
the plan (version of the sources and options, kind of output) that wrote them, or *torn* or
*absent*. A build starts, finds its output fresh or not, writes its files in order, copies the
emitted code, links and records its hash; each step may fail, and leaves what the code leaves: a
failed write an old or a torn file, a failed link the old output or none, a failed record a torn
hash or, when `build.hash` could not be opened, the old one. A killed compiler leaves what a failure
at the step it had reached leaves, but for an output its linker had half written. `unrecorded` is
history: for each output the build that was the last to replace it, if that build then left the old
hash and none has been written since.

**GpuRuntimeCache** (`build.rs`). Processes look, take the lock directory, look again, build into
their own staging directory, remove the old entry file by file, rename, release, and then copy
without the lock. A killed process leaves the lock and the entry as they are; a wait may time out at
any time. `replacers` is history: who has begun to remove an entry.

**Builds** (`build.rs`). Both caches together: a build with `--gpu` gets its runtime before it asks
whether its output is fresh. The caches share nothing, so their steps commute, and the model looks at
the build directory only when all runtimes are fetched (`Fetched`, a bound that hides no state of
either).

**Effects** (`typecheck.rs`, `runtime_c.rs`). A program is a set of uses: node *a* uses name *b* as
a stage, under `map`, under a combinator that wants a pure function, or as a guard, in one of its
chains or in an inline evaluation inside an endpoint; a name is a node, a library name or a foreign
node. Any library name, pure or io, may be one that can be mapped (`Mappable`). The inference sees the
uses in chains but for guards (`Seen`), the checker and the generator all. `Visit` and `EndSweep` are
`infer_effects`, one declaration at a time; `Check` is `check_callable`. `ParallelSafe` and
`RunsInParallel` are the generator's decision. Programs are checked after generic nodes were
expanded (`codegen/mod.rs:47-50`), so a use names a concrete node.

**Dataflow, ChainSchedule** (`typecheck.rs`, `codegen/mod.rs`, `runtime_c.rs`, `typescript.rs`). A body
is a sequence of chains, each with a source, other reads, and an end. The checker accepts or rejects
it. For C, `fuse_single_use_chains` glues chains and the loop of `emit_callable` batches those that
are parallel safe. For TypeScript the chains stay apart, and its own `emit_callable` looks for a range
and the maps that take it into their loop (`RangeMaps`), asynchronous chains awaited together
(`JoinsAsync`), and reductions, worker maps and maps over one source (`JoinsReduce`, `JoinsWorker`,
`JoinsMap`); `kind[c]` is what it sees in chain `c`. The LLVM back end emits chain by chain, as
TypeScript does a plain one. Since the function runs its steps in the order of emission the model
runs each as it is emitted, the tasks of a batch interleaved, the chains of a loop in order.
`Dataflow` is the promise: each chain once, after what it reads. Two sources count as one when they
are the same variable or expression; the generator compares their printed labels (see below).

**Stages** (`runtime_c.rs`, `direct_llvm.rs`, `typescript.rs`). The code each back end emits for one
stage: map, filter, fault map, reduce, scan, repeat and match. A value is a small integer, or a
fault; a node is a function from values to answers, of which one is to abort the process; what the
type checker accepts (`AcceptedJob`) and what each back end compiles (`Supports`) are the
inputs, and an iteration of a loop is a step. Iterations run in input order unless the back end runs
them concurrently: `fa_parallel_for` under a parallel-safe map of the C back end (which
`ParallelRuntime` models in full and which here is "any order"), `Promise.all` for async nodes of
the TypeScript one. One operator stands for code that two back ends emit alike (`KeepItem`,
`Partition`, `FoldUntilFault`, ...); where they differ each has its own. Left out: stream maps, GPU
kernels, and the worker pool's maps (`WorkerPool` has those). That TypeScript maps and folds over one
source share a loop is in `ChainSchedule`.

**Evaluation** (`typecheck.rs`, `types.rs`, `codegen/mod.rs` and the three back ends). The body of
one callable, built while it runs: a chain starts from a variable, a tuple or a field of a struct
literal, calls nodes, and binds a name or a tuple of names; the body ends with one output or two.
The checker's type (`ApplyNode`, `Assignable`), the type each back end tracks, and the code it emits
from that type are followed beside the meaning, in one record per value. A value has a tag of its own
(number, `ok`, `fault`, tuple), so that code which reads a value at another type than it has shows
as `Garbage`, and code that does not compile as `Refused`.

**Results, Arithmetic, SequenceLibrary, Library** (`runtime.c`, `runtime_c.rs`, `direct_llvm.rs`,
`llvm_seq.rs`, `llvm_stdlib.rs`, `typescript.rs`). `Arithmetic` has the numeric nodes of the C
functions, of the functions a WASM module defines for itself, of the TypeScript prelude and of the
scalar workers; integers have `Width` bits and wrap, floats are small integers with the two zeros,
the infinities and NaN. `SequenceLibrary` has the sequence nodes, one operator per node and back end,
over positions as the code counts them; a slot outside a sequence reads `Garbage`. `Library` runs
chains of such calls on all five targets at once and beside their documented meaning. Each action
names in `stray` the targets known to part from the meaning on that call, and the properties require
that it is exactly those (`<=>`): an entry is a documented divergence, and one too many is reported
as well as one too few.

**LinearAlgebra, GpuPlan, GpuKernels, GpuHost, GpuRuntime** (`stdlib/source/*.flow`,
`codegen/gpu.rs`, `runtime_fusion.rs`, `runtime_c.rs`, `typescript.rs`, the templates in `build.rs`).
`LinearAlgebra` says what `std.vector` and `std.matrix` mean, from their FlowArrow sources;
`GpuPlan` lowers the body of a mapped node to an expression, as `lower_call` does, and gives its
meaning; `GpuKernels` are the WGSL programs, one invocation at a time, with their bounds tests;
`GpuHost` is the packing, the checks and the shape of the answer; `GpuRuntime` runs calls: the
start of the device, the module promise, the mutex, submission, execution of a queue, the passes of
a reduction, and the wait for the mapped buffer, natively by a blocking poll and in JavaScript by a
future and its waker. Numbers do not round: quotients are ratios and `exp` an injective stand-in.
Left out: spurious returns of `park`, other failures of wgpu, the build of the runtime crate.

**Resources** (`sqlite.c`, `sqlite.rs`, `fs.c`, `fs.rs`, `stream.rs`, `runtime_c.rs`,
`direct_llvm.rs`). What a native program holds: connections with their counts, row streams, file
streams, contexts of mapped streams, and the stream values of the program, which it copies freely
and which carry a closed flag each. A program is any sequence of calls, each one step of one thread.
`spent`, `reused` and `stale` are history: the sources a closing consumer has consumed, the ones used
again after that, and those whose freed state was read. Calls that fail before they change anything,
and `exec`, are not steps. What a statement does to a database is not modelled.

## 3. Runs

Passing runs, with the number of distinct states of the checked instance:

| Run | Instance | Shows |
|---|---|---|
| `parallel_runtime` | a serial loop over a batch of two task lists and a map of maps, one of them empty; four threads, one to four processors; 46 610 states | claims are disjoint (`ClaimsDisjoint`); a returned call has run every item and has no thread left (`ReturnedCallsAreComplete`); threads stay within the budget (`ThreadBudget`); thread-locals fit the nesting (`ThreadLocalsMatchNesting`); the runtime is a fork-join (`ImplementsForkJoin`, liveness included); the program returns (`ProgramReturns`); the state keeps its shape (`TypeOK`) |
| `worker_pool` | one mapper, a map over two ranges, one over one and a prewarm, a teardown, two pools of two workers; 838 948 states | a map that succeeds has all its results (`ResultsAreComplete`); a closed pool has no thread and gets none (`ClosedPoolsStayEmpty`); calls and teardowns settle (`CallsSettle`) |
| `builds` | three processes that fetch a runtime of three files, one of them told to rebuild, one kill; then builds of two versions and all kinds by one builder, every step free to fail; 970 516 states | who may build (`BuildsAreSerialized`), who may replace a usable entry (`OnlyRebuildersReplace`), that nobody misses a file before a forced rebuild has removed some (`MissingFilesTakeARebuild`), `ProcessesEnd`; the output of a successful build is that of its sources, or one whose record left the old hash (`OutputIsCurrent`); it is found again (`SuccessIsCached`) |
| `effects` | all programs of three nodes and at most three uses, in chains or inline, of them and two io library names, one that may be mapped and is listed as not parallel safe, one that may not and is not; 2 569 885 states | `InferenceIsExact` (the least fixed point, in any order), exact rejection (`OnlyImpureProgramsAreRejected`), `EffectfulMapsAreSequential`, `CheckingEnds` |
| `chain_schedule` | all bodies of four chains with one odd read, and one unsafe chain in C or one of eleven patterns of batches in TypeScript; 1 454 378 states | `AcceptedBodiesCompile`, `EveryChainIsEvaluated`, `UnsafeChainsRunAlone`, `ImplementsDataflow` |
| `stages` | two values, sequences of up to three items, counts from -1 to 3, up to two guarded arms, every node, every back end; 1 591 574 states | maps (`MapsKeepMeaning`), matches (`MatchesKeepMeaning`), filters, repeats and fault maps (`SelectionsKeepMeaning`) mean the same everywhere; folds agree on value and fault (`FoldsKeepMeaning`) |
| `evaluation` | bodies of two calls and four bound values, of numbers, Faultables and tuples of them; 540 228 states | C and LLVM compute what a body means (`NativesKeepMeaning`), compile what is accepted (`AcceptedChainsCompile`), and JavaScript agrees outside four constructs (`JavaScriptKeepsMeaning`) |
| `library` | chains of library calls on five targets: integers of four bits, floats up to 4 with the special ones, sequences of up to three items; 19 111 states | `SequencesKeepMeaning`, `ScalarsKeepMeaning`: each target has the documented meaning, but for exactly the named ones; nodes undo each other (`PartsRebuildTheWhole`); a fault where the checked form aborts, else the same number (`FaultsMatchChecks`) |
| `gpu_runtime` | a native process and a JavaScript program; one call of every operation and shape, or two calls at once; refused adapters and devices; 127 326 states | a call gives what its nodes mean (`GpuCallsKeepMeaning`) and ends (`GpuCallsSettle`) |
| `resources` | two connections, two row streams, two file streams, two mapped streams, three names; both native back ends; 26 792 states up to renaming | `RefsCountHolders`, `ConsumedStreamsAreClosed`, `StaleReadsAreReuses` |

Two runs TLC must find violated:

* `gpu_accumulator` (`RepeatsRunTheirBody`): a `repeat` whose body adds any non-empty set of the
  recognized reductions to a score becomes a GPU program that always adds all three
  (`runtime_c.rs:4771-4778`, `4920-4958`), while `docs/overview.md:374-375` says that the runtime
  executes the body.
* `effects_followed` (`EffectsAreFollowed`, over two nodes, `query` and a foreign io node): the
  documentation calls whatever calls the boundary effectful by composition (`docs/overview.md:471-472`)
  and has effectful maps run in input order (497-500). The property asks of a map over such a node for
  the first or the second, so its trace refutes both: node 1 queries a database in an inline evaluation,
  which `callable_uses_io` does not look into, and counts as pure; node 2 maps it, and since `query` is
  not in the list of `is_parallel_safe_builtin` (`runtime_c.rs:4521`) the map runs in parallel.

### Where documents and code differ

The models follow the code. These are the places where it does something else than a document of
the repository says, or where the back ends differ; the properties exclude them by name, or the
model shows them although no property speaks of them.

*Build and runtimes.*

* A retirement deletes its mapper's registry entry after an `await` (`typescript.rs:5031`), when the
  entry may already be the pool of a later call, which then no teardown finds; `docs/backend.md:258-260`.
* A build that has replaced the output and then cannot open `build.hash` (`build.rs:491`, 567, 636), or
  is killed before it does, leaves the old hash beside the new output: when the sources change back
  the old hash vouches for it. `OutputIsCurrent` names these outputs (`unrecorded`).
* A failed build of other sources has already overwritten `main.ll` (`build.rs:477`) while
  `build.hash` names the build before (491): when the sources change back the cache is fresh, and
  `--emit-llvm` (470) copies the code of the failed build; `docs/compiler-architecture-review.md:72-73`.
* Publishing removes the old GPU runtime before it renames the new one (`build.rs:1154`), and copies
  are made without the lock (840, 1018-1036): a copy that meets a rebuild finds some files or none;
  `docs/backend.md:313-315`. `MissingFilesTakeARebuild` says that it takes a forced rebuild. A rebuild that
  is killed while it removes may leave an entry that lacks only files nobody looks for (`.d.ts`, say);
  it is not built again until a rebuild is forced.
* A map over a foreign io node, or one that uses `std.sqlite`, runs in parallel (`effects_followed`).
  `EffectfulMapsAreSequential` speaks of the names `is_parallel_safe_builtin` refuses (`Denied`).
* A reduction on the GPU combines the identity with the last item of every odd pass, so one that is
  not neutral counts more than once. A two-input node that has the name of a built-in is compiled
  as the built-in in a kernel (`gpu.rs:348`). A softmax of nothing, matrices that are empty or
  uneven, and a division of nothing by a zero scalar fail on the GPU or have another result than on
  the host. A failed load of the module is remembered for ever (`typescript.rs:5251`). `Regular`
  leaves these calls out of `GpuCallsKeepMeaning`.

*Streams.* File-stream state is freed by the consumer that closes it, and the checker has no linear
types: a program that uses a stream again afterwards reads freed memory. A row stream that fails
while it is finalized, after its connection was closed, reads the error message from the handle it
has just given up (`sqlite.c:367-377`). `StaleReadsAreReuses` allows exactly these two. `to_seq` of
the LLVM back end closes no file, and that back end has no `drain`; contexts of mapped streams have a
closed flag in C and none in LLVM; `size`, `read_at` and `copy_to_file` of a mapped stream use the
file below it; a second `to_seq` of a row stream is empty.

*Checker and schedule.* `callable_uses_io` (`typecheck.rs:1385`) does not look into endpoints, so a
node that calls the boundary only inside an inline evaluation counts as pure, may be filtered with and
guard a match, against `docs/overview.md:471-472`: `OnlyImpureProgramsAreRejected` says that it is
these effects and no others that are missed (`InChains`), and `effects_followed` shows one. A body is rejected when a chain reads what a later one binds
(`typecheck.rs:1566`), while `docs/syntax.md:321-322` says that the order of chains carries no meaning.
A TypeScript range whose maps took it into their loop is never bound, and only chains that start from
it are counted (`typescript.rs:1378`): an accepted body that also mentions it elsewhere, say in a
tuple, does not compile (`MentionsLoopVariable`). A TypeScript call of fewer than 96 characters
stays an expression (4214), which a discard drops (1987): an effectful call bound to `$` is not made,
where `docs/syntax.md:378` only lets the value go (`Dropped`). Not in the model: reductions and
worker maps are batched by the printed label of their source (1112), and labels omit match arms,
counts and identities (`typecheck.rs:2535`), so that two different inline evaluations can share one
loop; and a batch refuses a variable that has the name of a node (`typescript.rs:882`), where a
single chain falls back to the expression (2000).

*Stages.* TypeScript's fault map tests the items where the others test the answers
(`typescript.rs:3523`; `docs/syntax.md:496-498`). LLVM runs the operation of a fold also on a fault
and selects afterwards: it reports the last item's fault where the others report the first, and a
scan may abort in an operation the others never make. The C back end emits the loop of a reduction
of a `Faultable[Seq]` before it tests the fault (`ReduceUnset`). TypeScript hands the items of an
async map to the node as they are, also when they are faultable (`Garbled`). Accepted stages that a
back end refuses to compile are listed in `Supports`.

*Calls, tuples, outputs.* Several outputs and struct fields are not wrapped in TypeScript when a
plain value is declared `Faultable` (`typescript.rs:749`; `docs/faults.md:59-61`), and tuples that
mix plain and faultable items reach a node unexamined. In C a node that takes and returns a
`Faultable` does not compile when it is called with one. In LLVM a tuple inside a `Faultable` that
has faultable items is bound with the wrong nesting (`direct_llvm.rs:1130`).

*Library nodes.* TypeScript: `take`, `drop` and `slice` accept positions out of range, `fill` has its
arguments swapped, `get` and `set` return a `Faultable` and `at` a bare value, `group_by_id` expects
pairs, a shift of an empty sequence gives one item, `min` and `max` tell signed zeros apart
otherwise, left shifts do not wrap. LLVM: `group_by_id` is ill-formed (456-500), `shift_left` is
missing, `bit_shr` is logical, `abs(-0.0)` stays negative. WASM: the remainder by an infinity is NaN
and a zero remainder is positive. A shift by a count outside 0 to 63 is undefined in C and LLVM.

### Bounds

* Threads, processors: four of each are enough for two nested levels that both fork, a call whose
  threads are fewer than its ranges, and a share of one.
* `MaxWorkers` and `MaxPools`: two workers let one range fail while the other runs; two pools let a
  call start a new pool while the old one is retired.
* Versions: freshness compares two plans, so going forth and back between two versions is the case
  that can fail.
* `Fetched`: the caches share no variable, so that builds begin after the runtimes are fetched, and
  without a replaced runtime, changes nothing for either.
* `MaxCrashes`: one killed process holds the lock for ever; a second kill adds no new lock state.
* `MaxUses`: three uses reach a cycle of two nodes with an effect below, and a chain of three nodes
  declared in the wrong order. One io name may be mapped and is refused by the generator, the other
  neither, so each test of the checker meets a name that only it turns down.
* `MaxOdd`: reads of a body that are not the source of a chain bound earlier. One is enough to make
  a variable be read twice, or to read ahead. `MaxUnsafe`: one unsafe chain suffices for any pair.
  `KindPatterns`: each kind of batch with two and three chains, with the sources, reads and outputs
  that let or do not let them join; two batches in a row; a range with two or three maps.
* `Top`, `MaxLen`, `MaxCount`, `MaxArms` of `Stages`: two values are enough for a sum that
  overflows, a node that faults on one value and aborts on the other, and a predicate that keeps one
  of them. Three items allow a fault in the middle, two faults that differ, and an item after them;
  a repetition that faults half way; a first arm that fails before a second that holds.
* `MaxBound`, `MaxCalls` of `Evaluation`: two inputs, and two more values, are enough to join a
  Faultable and a plain value in a tuple, call a node with it, and take the answer apart; a third
  level of nesting is the construct named *nested*.
* `Width`, `MaxLen`, `MaxRow`, `MaxFloat` of `Library`: every pair of four-bit integers includes both
  ends of the range, zero, and a divisor of -1; counts and positions run from -1 to one past the
  longest sequence.
* `WorkgroupSize` is 2 instead of 64, so that reductions of up to five items take several
  passes, odd ones among them, and several workgroups. Two callers are enough to hold the mutex, or
  the module promise, against another.
* `Names` of `Resources`: a stream, a stream mapped from it, and a copy of either; two row streams
  of one connection and two connections, so that a count can be taken from the wrong one.

The deadlock check is off (`CHECK_DEADLOCK FALSE`) where the system may stop: a program that has
returned, a host that makes no more calls, processes that have ended, a checker with its verdict, a stage, body, GPU call or
library call with its result, a program that has no name left for a stream. In `ChainSchedule` the
deadlock check is on: its end is an action of its own, so a phase that cannot go on is reported.

### Fairness

* `ParallelRuntime`: weak fairness of all steps but `pthread_create`: threads that can run do. Creating
  a thread is left unfair, since it may always fail; the caller then works and joins.
* `WorkerPool`: weak fairness of continuations, events and worker threads together, none of the host's
  calls: the event loop runs what is queued and a mapper ends.
* `GpuRuntimeCache`, `Builds`: weak fairness per process that fetches a runtime: it is scheduled, and waits at most 300 seconds. A
  kill is never required.
* `GpuRuntime`: the program, the graphics system and the devices together take a step while one of
  them can. Nothing in a call loops (a parked thread and a future that is not awake have no step),
  so no caller can starve another, and weak fairness of the whole is enough.
* `Effects`: the compiler takes its next step.
* `BuildCache`, `ChainSchedule`, `Stages`, `Evaluation`, `Library` and `Resources` have safety
  properties only.

## 4. Proofs

The theorems hold for all values of the constants that satisfy the modules' named assumptions.

**ParallelRuntimeProofs**: any call tree that satisfies `CallTree`'s assumptions,
any number of threads and processors. The inductive invariant `IInv` joins the type invariant with,
for each call, *Members* (who is in the call, by its phase), *Locking* (who is at the locked
place is the holder) and *Accounting* (every item below the cursor has run, or lies in exactly one
thread's claimed range, and none above it has). The safety invariants alone are not inductive: that
a returned call is complete follows only because every item is accounted for and no thread holds a
range. `Invariance` is proved with one lemma per action; from it follow `TypeCorrect`,
`ClaimsAreDisjoint`, `ReturnsAreComplete`, and `ImplementsForkJoinSafety`, the refinement of
`ForkJoin` without its fairness: initial states correspond, and every step is a step of the abstract
specification or a stutter.

The budget needs a second invariant on top of that, `NestInv`. `ThreadBudget` is far from inductive: it speaks
of threads, while the code divides numbers, call by call. *TreeInv*: the open calls are a tree, in which a
thread waits in every call it is in but the innermost. *LocalsInv*: limit and depth of a thread follow from the loops it is
in, and what a loop saved from the loops around it; this gives `LocalsMatch`. *RoomInv* gives every open call as many
numbers below `available` as it may use threads, out of those that its caller may use (*Handed*), at least as many
as the caller's worker limit says (*Enough*), and every thread of a call its own (*Placed*); calls of which neither lies
below the other have none in common (*Nested*). A spawn takes the next numbers of its call (*Unused*); that they
suffice is the division `workers / width` in the code. Threads that exist then have different
numbers, and `Budget` follows by the pigeonhole principle. The levels and numbers are quantified variables
of `NestInv`, not variables of the model: each action's lemma names the new ones.

**CacheProofs**, on the build cache: one builder, any versions. `IInv` says that in each phase the first `done`
files hold the plan of the builder, that after a link the output does, and (`HashIsTrue`) that the output the
recorded hash vouches for is its own or none, or one of `unrecorded`, or the one a build is about to
record. `HashIsTrue` is what `OutputIsCurrent` lacks: a fresh output is right only if the hash was true
before, and after a record that left the old hash it is true of the old output no more. The theorems are false for two builders in a
directory, which nothing locks; a hazard says so.

The same module, on the GPU runtime cache: any processes, rebuilders, files and kills. `RuntimeInv` adds to mutual exclusion
that who builds without being told to has seen, under the lock, a required file missing
(`BuildsForAReason`); nobody else can have put it there. *Whole* says that before a process that was told
to rebuild removes anything the entry is whole or empty, and whoever copies has all of it: another process
builds only when a required file is missing, so it finds the entry empty, and the lock keeps it so
until it renames. From it follow `RuntimeTypeCorrect`, `Serialized`, `UsableEntriesStay` and
`ReadersSeeAllOrNone`.

**StagesProofs**: sequences, counts, matches and integer types of any size. `IInv` describes each
loop part-way. In a map (`MapLoop`) every visited slot holds the node's answer for the item of that
position, whichever positions were visited; hence the order of the iterations does not matter
(`MapsAreOrderFree`). In a match (`MatchLoop`) the arms visited did not hold, up to the one that
decided; since the last guard is true there is one, and it is the arm the reference chooses
(`FirstArmDecides`). What the other stages mean is defined by recursion, which TLA+ introduces by
`CHOOSE`: that the recursive functions exist and satisfy their equations is proved first (*Recursion*), by
induction over a range stated for sets (*Climb*, from the least element of a set of naturals), since
the prover cannot instantiate the induction theorems of the library. A fold (`FoldLoop`) then stands at a
prefix of the sequence: its state agrees with the reference there, equal on the C and TypeScript
back ends, a fault for a fault on LLVM, whose code runs the operation first and selects afterwards
(*SelectAgrees*). A repetition (`RepeatLoop`) has run some of its rounds; a filter (`FilterLoop`) has kept,
or decided, what it visited; a fault map (`FaultMapLoop`) has split what it visited, and on
TypeScript, where the node itself does not fault, to test the items is to test the answers (*TsSplits*).
`Selected`, the order of what was kept, is an increasing map between positions; it grows at its end
(*SelectedGrows*), which is where an iteration appends. Theorems: `MapsAreOrderFree`,
`FirstArmDecides`, `FoldsAgree`, `SelectionsAgree`.

**ResourcesProofs**: any connections, files, names and mapped streams, and finitely many row streams. `IInv`
joins `RefsCountHolders` with the type invariant and `Unopened` (nothing refers to a connection
that was never opened). A call through a chain of mapped streams reaches at most one row stream,
so every call finalizes a row stream or leaves all of them, and the count of its connection falls by
as much as the number of its holders. `CountsAreExact` follows with one lemma per action and the
cardinality of a set that gains or loses one member. `StreamInv` adds what the chains are. No set of
contexts goes on within itself (*NoCycle*), which stands for the induction along a chain: a set of
counterexamples that goes on within itself is empty. That the recursive functions `Source`, `Reads`
and `Closes` satisfy their equations is not free either, TLA+ defines them by `CHOOSE`: *Solvable* says
that every function computed along the chains exists, and is kept since a new context extends a solution
at one point. *FlagsMean* gives the closed flags their meaning: what a flag is raised for has ended, in
whatever copy of a value or context it stands. Then `next` and `close` of one value end at one
source (`AlongTheChain`), and it has ended when its consumer is through. Theorems: `CountsAreExact`,
`ConsumersClose`, `StaleReads`.

**WorkerPoolProofs**: any mappers, calls, demands and retirements, any bound on pools and workers.
`IInv` says what a worker's promise, its inbox and the events on their way owe each other
(*SlotInv*): there is at most one event on its way, and an answer on its way is the answer of the job
the promise belongs to. This is why an answer need name no job. *CallInv* and *QueueInv* place a call:
it holds a pool that has as many workers as it has ranges, it is queued there, and only the head of
the queue runs. *PoolInv* and *CloseInv* say where threads can be. A retirement waits for what was
queued when it began; that nothing is queued later that could start a thread follows since a retired
pool grows no more. Theorems: `TypeCorrect`, `CompleteResults`, `ClosedPools`, and
`DispatchesTakeTurns`, that no two dispatches of one pool overlap.

**EffectsProofs**: any number of nodes, any library and any program. The model defines who reaches the
boundary as the smallest closed set of nodes, so no induction over programs is needed: that a marked
node does reach it (`Sound`) is kept by every step since the set is closed, and at the end the
unmarked nodes are the complement of a closed set, so no others do (`Settled`). *Checked* keeps what
`check_callable` has seen, and that a rejected program had something to be rejected for. The guards that
inference does not look at are where rejection needs an argument: in an accepted program they are pure,
so the nodes marked io are closed under them too (*IoNodesAreClosed*). The theorems need library names,
foreign nodes and nodes to be disjoint (`EffectsAssumption`): the checker's table maps a name to one
thing. Which library names are io, may be mapped or are refused by the generator is arbitrary.
Theorems: `InferenceCorrect`, `PurePositions`, `SequentialMaps`.

**ChainScheduleProofs**: bodies of any number of chains. *ListInv* says that fusion keeps every chain in
one place of the list, and that inside a fused entry each chain is bound to a variable that only the
next one takes; *ReadsBefore* that what an entry reads was bound by entries before it, which
fusion keeps since the fused chain moves to its only reader; *EmitInv* which variables are bound
before each step, given that ranges became loops that run with their maps; *StepInv* that what has
started and is not pending was evaluated once. That every chain gets a place in a loop needs the first
map of a range and the first chain a batch may not join; both exist since a set of naturals has a
least element (`LeastNatural`, from the library's theorems about well-founded relations, used with a
relation that is a set, as the prover cannot instantiate the ones that take an operator). Theorems:
`BodiesCompile`, `ChainsAreEvaluated`, `UnsafeChainsAreAlone`, and `EvaluatesAsDataflow`, the refinement
of `Dataflow`: every step evaluates one chain, after all it needs, or changes nothing there.

**LibraryProofs**: registers of any width, floats of any range, sequences of any length, under
`WidthAssumption` and `LibraryBounds` (lengths and bits are integers of the width, finite floats lie
below the numbers that stand for the special ones). The properties are not inductive one by one: a
scalar call starts from a value that came out of a sequence, a sequence call from one that another
built. `IInv` joins them: the value in the pipe is of its kind (*Holds*); the documented outcome is such
a value, an abort, or one of the faults a program can see (*Outcome*); and a target has that outcome
if and only if `stray` does not name it, except after a call on which every target strays, which ends
the behaviour. The greater part of the module is one lemma per node, which says what each back end
computes and on which arguments it agrees with the meaning. Three kinds of code need an argument of
their own:

* A copy loop writes slots one by one, the meaning is a range of a sequence. *Cut* says what a range
  is, *Filling* that two sequences with the same slots are one. `flatten` writes a row where the rows
  before it end, so each slot has exactly one row (*Offsets*, *Slots*). `group_by_id` starts a row
  where the id changes; the rank of a position among those starts is its row (*Ranks*, *RunFacts*).
* `all`, `any`, `collect` and the numeric folds keep a state over the items. Their recursive functions
  exist and satisfy their equations (*Recursion*), and the state is the reference's at every prefix
  (*Climb*), as in `StagesProofs`.
* Checked arithmetic decides before it computes. Each lemma compares the test of a back end with the
  range that the exact result must lie in, division by -1 and shifts to the last bit included.

Each action has a lemma that draws on these. `FaultsMatchChecks` compares the guards of the
faultable forms with the checks of the aborting ones; the lemmas do so for every pair of operands. `PartsRebuildTheWhole` follows from the lemmas about single nodes, combined: what `take` and
`drop` give is the sequence when joined, a flattened grouping is the sequence that was grouped,
`transpose` undoes itself. Theorems: `Invariance`, `SequencesMean`, `ScalarsMean`, `FaultsMatch`,
`PartsRebuild`.

Only model-checked: all liveness (`ProgramReturns`, `CallsSettle`, `ProcessesEnd`, `CheckingEnds`,
`GpuCallsSettle`, and the fairness of `ForkJoin`), which the prover does not reach; and `Evaluation`,
`GpuPlan` and what is built on it (`GpuCallsKeepMeaning`), which evaluate expressions and shapes of any
depth with recursive operators: a theorem about them is an induction over data.

## 5. What the models leave out

Types beyond those of `Evaluation`, text and wording everywhere; the memory model of C (the mutex and
`pthread_join` order all shared accesses of the runtime); sizes near `SIZE_MAX`, and GPU dispatches
past the limit of 65 535 workgroups; rounding of floating-point numbers; outputs that a killed linker
has half written, and several builders at once, whose outcome no document describes (both are listed as
hazards); bodies that bind a name twice (the checker rejects them before anything else happens); the
printed labels by which TypeScript compares sources; structs beyond one field, foreign calls, bytes and JSON nodes;
calls of `std.sqlite` from several threads, whose plain reference counts would race (`sqlite.c:52`);
the scoped allocator; and the components listed as not modelled in section 1.

## 6. Plan

1. Proofs: the native GPU calls of `GpuRuntime`, once `GpuPlan` lowers to expressions of a given
   depth by recursive functions.
2. `ModuleResolver` and `Monomorphizer`: the depth-first walk with its memo and cycle test against
   the import graph, the worklist of instances; recursion of nodes, which `docs/overview.md:397-410`
   forbids and no component rejects.
3. `HttpServer`: requests, the request-scoped allocator and responses whose header arrays are shared
   by copies, over an abstract H2O.
