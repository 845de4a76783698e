----------------------------- MODULE GpuRuntime ------------------------------
(***************************************************************************)
(* GPU calls running: a native process with one device behind a mutex, or  *)
(* a JavaScript program whose calls each acquire a device of their own     *)
(* once the runtime module is loaded.  The host submits command buffers,   *)
(* the device executes a queue in order at its own pace, and the result    *)
(* comes back through a mapping the host waits for: a blocking poll of the *)
(* device natively, a future and its waker in JavaScript.                  *)
(*                                                                         *)
(* Adapters and devices may be refused at any request; nothing else of     *)
(* wgpu fails here.                                                        *)
(***************************************************************************)
EXTENDS GpuHost

CONSTANTS
  Callers,    \* threads of the native program, or pending calls in JavaScript
  Shared,     \* the native device's queue
  Workloads   \* functions from callers to [call, width]

ASSUME CallersAssumption == Shared \notin Callers

NoCall == <<"nothing">>

VARIABLES
  target,     \* "native" or "wasm"
  double,     \* whether the adapter supports SHADER_F64
  work,       \* what each caller calls
  plan,       \* what its arguments determine
  process,    \* "starting", "running" or "aborted"
  startup,    \* block_on(GpuRuntime::new()): the await, its answer, the thread
  module,     \* faGpuRuntimePromise: "none", "pending", "ready" or "failed"
  pc,         \* where each call is
  lock,       \* the caller holding the mutex
  queue,      \* the commands submitted to each device
  reducing,   \* dispatch_reduce_buffer's current_len and include_identity
  memory,     \* the buffer each call's last pass wrote
  readback,   \* each call's readback buffer
  mapped,     \* MapReadState: whether the result is there, whether a waker is
  awake,      \* whether the executor is to poll the call's future
  refused,    \* whether a device was refused to the call
  result
vars == <<target, double, work, plan, process, startup, module, pc, lock, queue, reducing,
          memory, readback, mapped, awake, refused, result>>
hostVars == <<process, startup, module, lock, refused, result>>
deviceVars == <<queue, memory, readback>>
futureVars == <<mapped, awake>>
given == <<target, double, work, plan>>

(* The helper's call, what its checks say, and what the device computes     *)
(* when it is given the task.                                               *)
Prepared(call) ==
  LET h == Lowered(call)
      accepted == IF target = "native" THEN NativeAccepts(h) ELSE HelperAccepts(h)
      enters == target = "native" \/ EntryAccepts(h)
      task == IF accepted /\ enters THEN Task(h) ELSE NoTask
  IN  [helper |-> h, idle |-> Idle(h), accepted |-> accepted, enters |-> enters,
       task |-> task, cells |-> IF task.kernel = "none" THEN task.inputs[1]
                                ELSE Dispatched(task)]
Device(c) == IF target = "native" THEN Shared ELSE c

-----------------------------------------------------------------------------
Init ==
  /\ target \in {"native", "wasm"}
  /\ work \in Workloads
  /\ \A c \in Callers : work[c].call # NoCall => OnGpu(work[c].call, target)
  /\ plan = [c \in {c \in Callers : work[c].call # NoCall} |->
                  Prepared(work[c].call)]
  /\ double \in (IF \E c \in Callers : work[c].width = "f64" THEN BOOLEAN ELSE {FALSE})
  /\ process = IF target = "native" THEN "starting" ELSE "running"
  /\ startup = [await |-> 1, answer |-> "unasked", thread |-> "polls", token |-> FALSE]
  /\ module = "none"
  /\ pc = [c \in Callers |-> IF work[c].call = NoCall THEN "done" ELSE "begins"]
  /\ lock = Shared
  /\ queue = [d \in Callers \cup {Shared} |-> <<>>]
  /\ reducing = [c \in Callers |-> [length |-> 0, include |-> FALSE]]
  /\ memory = [c \in Callers |-> <<>>]
  /\ readback = [c \in Callers |-> <<>>]
  /\ mapped = [c \in Callers |-> [done |-> FALSE, waker |-> FALSE]]
  /\ awake = [c \in Callers |-> TRUE]
  /\ refused = [c \in Callers |-> FALSE]
  /\ result = [c \in Callers |-> Ok(<<>>)]

-----------------------------------------------------------------------------
(* fa_gpu_require_device, before the program runs: block_on polls the       *)
(* future, which asks for an adapter and then for a device, and parks.  (A  *)
(* spurious return from the park would poll and park again.)                *)

PollStartup ==
  /\ process = "starting" /\ startup.thread = "polls"
  /\ CASE startup.answer = "unasked" ->
            /\ startup' = [startup EXCEPT !.answer = "asked", !.thread = "parks"]
            /\ process' = process
       [] startup.answer = "granted" ->
            /\ startup' = [startup EXCEPT !.await = @ + 1, !.answer = "unasked"]
            /\ process' = IF startup.await = 2 THEN "running" ELSE process
       [] startup.answer = "refused" ->
            /\ process' = "aborted"
            /\ startup' = startup
  /\ UNCHANGED <<given, module, pc, lock, reducing, deviceVars, futureVars, refused,
                 result>>

(* thread::park: an unpark that came first is not lost.                     *)
Park ==
  /\ process = "starting" /\ startup.thread = "parks"
  /\ startup' = IF startup.token
                THEN [startup EXCEPT !.thread = "polls", !.token = FALSE]
                ELSE [startup EXCEPT !.thread = "parked"]
  /\ UNCHANGED <<given, process, module, pc, lock, reducing, deviceVars, futureVars,
                 refused, result>>

(* Fault: a wake that finds the thread running does nothing.                *)
WakeParked(s) == IF s.thread = "parked" THEN [s EXCEPT !.thread = "polls"] ELSE s
(* The waker is the thread's unpark.                                        *)
Wake(s) == IF s.thread = "parked" THEN [s EXCEPT !.thread = "polls"]
           ELSE [s EXCEPT !.token = TRUE]

GraphicsAnswers ==
  /\ process = "starting" /\ startup.answer = "asked"
  /\ \E answer \in {"granted", "refused"} :
       startup' = Wake([startup EXCEPT !.answer = answer])
  /\ UNCHANGED <<given, process, module, pc, lock, reducing, deviceVars, futureVars,
                 refused, result>>

-----------------------------------------------------------------------------
(* A call ends with a value, or fails: a native failure aborts the process, *)
(* a JavaScript one throws.                                                 *)

Return(c, value) ==
  /\ pc' = [pc EXCEPT ![c] = "done"]
  /\ result' = [result EXCEPT ![c] = Ok(value)]
  /\ lock' = IF lock = c THEN Shared ELSE lock
  /\ UNCHANGED <<process, refused>>
Fail(c, deviceRefused) ==
  /\ pc' = [pc EXCEPT ![c] = "done"]
  /\ result' = [result EXCEPT ![c] = Dead]
  /\ refused' = [refused EXCEPT ![c] = deviceRefused]
  /\ process' = IF target = "native" THEN "aborted" ELSE process
  /\ lock' = lock

Step(c, from, to) == pc[c] = from /\ pc' = [pc EXCEPT ![c] = to]

(* The emitted call: the helper's checks, then the cached runtime promise.  *)
BeginScript(c) ==
  /\ target = "wasm" /\ pc[c] = "begins"
  /\ LET idle == plan[c].idle IN
       \/ /\ idle
          /\ Return(c, Score(plan[c].helper)) /\ UNCHANGED module
       \/ /\ ~idle /\ ~plan[c].accepted
          /\ Fail(c, FALSE) /\ UNCHANGED module
       \/ /\ ~idle /\ plan[c].accepted
          /\ Step(c, "begins", "loads")
          /\ module' = IF module = "none" THEN "pending" ELSE module
          /\ UNCHANGED <<process, lock, refused, result>>
  /\ UNCHANGED <<given, startup, reducing, deviceVars, futureVars>>

(* The module is fetched and its own fa_gpu_require_device answers; a       *)
(* promise that is rejected stays so.                                       *)
LoadModule ==
  /\ module = "pending"
  /\ module' \in {"ready", "failed"}
  /\ UNCHANGED <<given, process, startup, pc, lock, reducing, deviceVars, futureVars,
                 refused, result>>

(* The entry point's checks.                                                *)
Enter(c) ==
  /\ pc[c] = "loads"
  /\ \/ module = "failed" /\ Fail(c, TRUE)
     \/ module = "ready" /\ ~plan[c].enters /\ Fail(c, FALSE)
     \/ /\ module = "ready" /\ plan[c].enters
        /\ Step(c, "loads", "acquires")
        /\ UNCHANGED <<process, lock, refused, result>>
  /\ UNCHANGED <<given, startup, module, reducing, deviceVars, futureVars>>

(* GpuRuntime::new() of the call.                                           *)
Acquire(c) ==
  /\ pc[c] = "acquires"
  /\ \/ Fail(c, TRUE)
     \/ Step(c, "acquires", "submits") /\ UNCHANGED <<process, lock, refused, result>>
  /\ UNCHANGED <<given, startup, module, reducing, deviceVars, futureVars>>

(* A native entry point checks before it locks.                             *)
BeginNative(c) ==
  /\ target = "native" /\ process = "running" /\ pc[c] = "begins"
  /\ LET idle == plan[c].idle IN
       \/ idle /\ Return(c, Score(plan[c].helper))
       \/ ~idle /\ ~plan[c].accepted /\ Fail(c, FALSE)
       \/ /\ ~idle /\ plan[c].accepted
          /\ Step(c, "begins", "locks")
          /\ UNCHANGED <<process, lock, refused, result>>
  /\ UNCHANGED <<given, startup, module, reducing, deviceVars, futureVars>>
Lock(c) ==
  /\ process = "running" /\ lock = Shared
  /\ Step(c, "locks", "submits")
  /\ lock' = c
  /\ UNCHANGED <<given, process, startup, module, refused, result, reducing, deviceVars,
                 futureVars>>

-----------------------------------------------------------------------------
(* Submitting.                                                              *)

Submit(c, commands) == queue' = [queue EXCEPT ![Device(c)] = @ \o commands]
Command(c, kind) == [owner |-> c, kind |-> kind]

(* The program, and for a task with nothing to reduce the copy to the       *)
(* readback buffer in the same submission.                                  *)
SubmitTask(c) ==
  /\ process = "running" /\ pc[c] = "submits"
  /\ LET h == plan[c].helper
         task == plan[c].task IN
       \/ /\ NeedsDouble(h, work[c].width) /\ ~double
          /\ Fail(c, TRUE)
          /\ UNCHANGED <<queue, memory, reducing>>
       \/ /\ NeedsDouble(h, work[c].width) => double
          /\ task.items = 0
          /\ Return(c, Answer(h, NothingToDo(task)))
          /\ UNCHANGED <<queue, memory, reducing>>
       \/ /\ NeedsDouble(h, work[c].width) => double
          /\ task.items > 0
          /\ pc' = [pc EXCEPT ![c] = IF task.reduces THEN "reduces" ELSE "waits"]
          /\ reducing' = [reducing EXCEPT ![c] = [length |-> task.items,
                                                  include |-> task.include]]
          /\ IF task.kernel = "none"
             THEN /\ memory' = [memory EXCEPT ![c] = plan[c].cells]
                  /\ queue' = queue
             ELSE /\ Submit(c, <<Command(c, "program")>>
                               \o IF task.reduces THEN <<>> ELSE <<Command(c, "copy")>>)
                  /\ memory' = memory
          /\ UNCHANGED <<process, lock, refused, result>>
  /\ UNCHANGED <<given, startup, module, readback, futureVars>>

(* One turn of dispatch_reduce_buffer's loop.                               *)
SubmitPass(c) ==
  /\ process = "running" /\ pc[c] = "reduces"
  /\ LET length == reducing[c].length
         include == reducing[c].include IN
       /\ length > 1 \/ include
       /\ Submit(c, <<[owner |-> c, kind |-> "pass", length |-> length,
                       include |-> include]>>)
       /\ reducing' = [reducing EXCEPT ![c] = [length |-> PassLength(length, include),
                                               include |-> FALSE]]
  /\ UNCHANGED <<given, hostVars, pc, memory, readback, futureVars>>
SubmitCopy(c) ==
  /\ process = "running"
  /\ reducing[c].length <= 1 /\ ~reducing[c].include
  /\ Step(c, "reduces", "waits")
  /\ Submit(c, <<Command(c, "copy")>>)
  /\ UNCHANGED <<given, hostVars, reducing, memory, readback, futureVars>>

(* The device executes its queue in order.                                  *)
Execute(d) ==
  /\ process = "running" /\ queue[d] # <<>>
  /\ LET command == Head(queue[d])
         c == command.owner
         task == plan[c].task IN
       /\ memory' =
            [memory EXCEPT ![c] =
               CASE command.kind = "program" -> plan[c].cells
                 [] command.kind = "pass" ->
                      Pass(task.op, task.identity, command.include, command.length, @)
                 [] command.kind = "copy" -> @]
       /\ readback' =
            [readback EXCEPT ![c] =
               IF command.kind # "copy" THEN @
               ELSE IF task.reduces THEN <<memory[c][1]>> ELSE memory[c]]
  /\ queue' = [queue EXCEPT ![d] = Tail(@)]
  /\ UNCHANGED <<given, hostVars, pc, reducing, futureVars>>

-----------------------------------------------------------------------------
(* Waiting.                                                                 *)

(* Natively device.poll blocks until the device is idle.                    *)
WaitNative(c) ==
  /\ target = "native" /\ process = "running" /\ pc[c] = "waits"
  /\ queue[Shared] = <<>>
  /\ Return(c, Answer(plan[c].helper, readback[c]))
  /\ UNCHANGED <<given, startup, module, reducing, deviceVars, futureVars>>

(* MapReadFuture::poll leaves its waker; the map_async callback, which runs *)
(* when the copy is done, leaves the result and wakes it.                   *)
KeepWaker(c) == mapped' = [mapped EXCEPT ![c].waker = TRUE]
PollFuture(c) ==
  /\ target = "wasm" /\ pc[c] = "waits" /\ awake[c]
  /\ \/ /\ mapped[c].done
        /\ Return(c, Answer(plan[c].helper, readback[c]))
        /\ UNCHANGED futureVars
     \/ /\ ~mapped[c].done
        /\ KeepWaker(c)
        /\ awake' = [awake EXCEPT ![c] = FALSE]
        /\ UNCHANGED <<process, pc, lock, refused, result>>
  /\ UNCHANGED <<given, startup, module, reducing, deviceVars>>
MapCallback(c) ==
  /\ target = "wasm" /\ pc[c] = "waits"
  /\ queue[c] = <<>> /\ ~mapped[c].done
  /\ mapped' = [mapped EXCEPT ![c] = [done |-> TRUE, waker |-> FALSE]]
  /\ awake' = [awake EXCEPT ![c] = @ \/ mapped[c].waker]
  /\ UNCHANGED <<given, hostVars, pc, reducing, deviceVars>>

-----------------------------------------------------------------------------
Call(c) ==
  \/ BeginScript(c) \/ Enter(c) \/ Acquire(c)
  \/ BeginNative(c) \/ Lock(c)
  \/ SubmitTask(c) \/ SubmitPass(c) \/ SubmitCopy(c)
  \/ WaitNative(c) \/ PollFuture(c) \/ MapCallback(c)
Next ==
  \/ PollStartup \/ Park \/ GraphicsAnswers \/ LoadModule
  \/ \E c \in Callers : Call(c)
  \/ \E d \in Callers \cup {Shared} : Execute(d)

(* The program, the graphics system and the devices together do not stop    *)
(* while one of them can act: a call has no loop to starve another with.    *)
Fairness == WF_vars(Next)
Spec == Init /\ [][Next]_vars /\ Fairness

-----------------------------------------------------------------------------
(* The calls the GPU answers as the host would.  Left out: the softmax of   *)
(* nothing and matrices with no cell or of uneven rows, which the host      *)
(* treats otherwise; a division of nothing by a zero scalar, which the      *)
(* helpers refuse; a sum from an identity that is not neutral, which the    *)
(* passes add more than once; a node that calls a two-input node named as a *)
(* built-in, which its kernel takes for the built-in; and a body that does  *)
(* not add each of the three reductions once, as its program always does.   *)

Proper(m) == m # <<>> /\ Rectangular(m) /\ Cols(m) > 0
CallsShadow(name) ==
  \E i \in DOMAIN Nodes[name].chains :
    \E s \in DOMAIN Nodes[name].chains[i].stages :
      LET stage == Nodes[name].chains[i].stages[s] IN
      stage[1] = "call" /\ stage[2] \in DOMAIN Nodes /\ stage[2] \in Binary
AllTerms(body, terms) ==
  Len(body.terms) = 3 /\ {body.terms[i] : i \in DOMAIN body.terms} = terms
VectorTerms == {"PairMul", "PairDiffSquare", "LeftSquare"}
MatrixTerms == {"ProductSum", "MatvecSum", "RowSumTotal"}
Matrices(call) ==
  CASE call[1] # "matrix" -> {}
    [] call[2] \in {"vecmat"} \cup ScalarLeft -> {call[4]}
    [] call[2] \in Elementwise \cup {"matmul"} -> {call[3], call[4]}
    [] call[2] = "outer" -> {}
    [] OTHER -> {call[3]}
Regular(call) ==
  /\ \A m \in Matrices(call) : Proper(m)
  /\ CASE call[1] = "vector" ->
            /\ call[2] = "softmax" => call[3] # <<>>
            /\ (call[2] = "div_scalar" /\ call[3] = <<>>) => call[4] # 0
       [] call[1] = "map" -> ~CallsShadow(call[2])
       [] call[1] = "reduce" -> call[2] = "add" => call[4] = 0
       [] call[1] = "vector_score" -> AllTerms(call[2], VectorTerms)
       [] call[1] = "matrix_score" ->
            AllTerms(call[2], MatrixTerms) /\ Proper(call[3]) /\ Proper(call[4])
       [] OTHER -> TRUE

(* Computes(c): the answer of the call is what its nodes mean.              *)
Computes(c) == result[c] = Meaning(work[c].call)

(* A call that ends with a value ends with the value its nodes mean, and    *)
(* one that fails either means a fault or was refused a device: lowering,   *)
(* packing, kernel, dispatch bound, passes and shape compose to the source  *)
(* of std.vector and std.matrix, and no call borrows another's buffers.     *)
GpuCallsKeepMeaning ==
  \A c \in Callers :
    (pc[c] = "done" /\ work[c].call # NoCall /\ Regular(work[c].call)) =>
       (Computes(c) \/ (refused[c] /\ ~result[c].ok))

(* Every call returns or throws, or the process was aborted: no wake-up is  *)
(* lost between a poll and its park or its callback, no pass loops, and the *)
(* mutex is given back.                                                     *)
GpuCallsSettle ==
  <>(process = "aborted" \/ \A c \in Callers : pc[c] = "done")

(* A repeat gives the score its body would have, whichever reductions the   *)
(* body adds.                                                               *)
RepeatsRunTheirBody ==
  \A c \in Callers :
    (pc[c] = "done" /\ work[c].call[1] = "vector_score" /\ result[c].ok) => Computes(c)
=============================================================================
