----------------------------- MODULE WorkerPool -----------------------------
(***************************************************************************)
(* The worker pools of modules compiled to TypeScript with --workers       *)
(* (the runtime text in src/src/codegen/typescript.rs).  A map call looks  *)
(* its mapper's pool up in faScalarWorkerPools, or creates it, grows it,   *)
(* appends a dispatch to the pool's promise queue and, when the dispatch   *)
(* has its turn, gives one range of the input to each worker.  A teardown  *)
(* retires every pool.  The host's event loop runs one continuation at a   *)
(* time, and anything may happen between two of them; each action here is  *)
(* one continuation, one worker event, or one step of a worker thread.     *)
(***************************************************************************)
EXTENDS Integers, Sequences, FiniteSets, SequencesExt

CONSTANTS
  Mappers,    (* Keys of faScalarWorkerPools.                              *)
  Calls,      (* Calls the host makes: maps and prewarms.                  *)
  Prewarms,   (* Those made by faSetupScalarWorkerPools, without dispatch. *)
  MapperOf,   (* MapperOf[m]: the mapper a call is for.                    *)
  Demand,     (* Demand[m]: the workers (and ranges) a call asks for.      *)
  NoCall,     (* Stands for no call.                                       *)
  Teardowns,  (* Calls of faTeardownScalarWorkerPools.                     *)
  MaxPools,   (* Bound: pools ever created.                                *)
  MaxWorkers  (* Bound: workers in a pool.                                 *)

ASSUME WorkerPoolAssumption ==
  /\ Prewarms \subseteq Calls /\ NoCall \notin Calls
  /\ MapperOf \in [Calls -> Mappers]
  /\ MaxPools \in Nat /\ MaxWorkers \in Nat
  /\ Demand \in [Calls -> 1 .. MaxWorkers]

Pools == 1 .. MaxPools
Slots == 1 .. MaxWorkers
None  == 0

VARIABLES
  registry,  (* registry[f]: the pool promise kept for mapper f, or None.   *)
  made,      (* made[p]: state of pool p's promise, "no" before it exists.  *)
  retired,   (* retired[p]: pool.retired.                                   *)
  size,      (* size[p]: pool.workers.length.                               *)
  queue,     (* queue[p]: the dispatches chained on pool.queue, unsettled.  *)
  call,      (* call[m]: how far the host's call m is.                      *)
  poolOf,    (* poolOf[m]: the pool m awaits or uses.                       *)
  job,       (* job[m][k]: the promise of m's range k.                      *)
  wrote,     (* wrote[m][k]: range k of m's output is written (history).    *)
  thread,    (* thread[p][k]: the worker thread itself.                     *)
  inbox,     (* inbox[p][k]: jobs posted to the thread and not finished.    *)
  mail,      (* mail[p][k]: events from the thread not yet handled.         *)
  alive,     (* alive[p][k]: pooled.alive.                                  *)
  ready,     (* ready[p][k]: state of pooled.ready.                         *)
  holder,    (* holder[p][k]: the job behind pooled.resolve and .reject.    *)
  closing,   (* closing[r][p]: how far r is in retiring pool p.             *)
  awaited    (* awaited[r][p]: the dispatches r waits for before it does.   *)

poolVars   == <<registry, made, retired, size, queue>>
callVars   == <<call, poolOf, job, wrote>>
threadVars == <<thread, inbox, mail>>
workerVars == <<alive, ready, holder>>
closeVars  == <<closing, awaited>>
vars == <<poolVars, callVars, threadVars, workerVars, closeVars>>

Retirers == Calls \cup Teardowns
Ranges(m) == 1 .. Demand[m]
Settled(m) == call[m] \in {"done", "failed"}
-----------------------------------------------------------------------------
Init ==
  /\ registry = [f \in Mappers |-> None]
  /\ made     = [p \in Pools |-> "no"]
  /\ retired  = [p \in Pools |-> FALSE]
  /\ size     = [p \in Pools |-> 0]
  /\ queue    = [p \in Pools |-> <<>>]
  /\ call     = [m \in Calls |-> "new"]
  /\ poolOf   = [m \in Calls |-> None]
  /\ job      = [m \in Calls |-> [k \in Slots |-> "none"]]
  /\ wrote    = [m \in Calls |-> [k \in Slots |-> FALSE]]
  /\ thread   = [p \in Pools |-> [k \in Slots |-> "none"]]
  /\ inbox    = [p \in Pools |-> [k \in Slots |-> <<>>]]
  /\ mail     = [p \in Pools |-> [k \in Slots |-> <<>>]]
  /\ alive    = [p \in Pools |-> [k \in Slots |-> FALSE]]
  /\ ready    = [p \in Pools |-> [k \in Slots |-> "pending"]]
  /\ holder   = [p \in Pools |-> [k \in Slots |-> NoCall]]
  /\ closing  = [r \in Retirers |-> [p \in Pools |-> "no"]]
  /\ awaited  = [r \in Retirers |-> [p \in Pools |-> {}]]

\* faScalarWorkerPool up to its await: a missing pool is created and entered
\* into the registry before anything else can run.
LookUp(m) ==
  LET f == MapperOf[m]
      fresh == {p \in Pools : made[p] = "no"}
      p == IF registry[f] # None THEN registry[f]
           ELSE CHOOSE q \in fresh : \A r \in fresh : q <= r
  IN  /\ call[m] = "new"
      /\ registry[f] = None => fresh # {}
      /\ registry' = [registry EXCEPT ![f] = p]
      /\ made'     = [made EXCEPT ![p] = IF @ = "no" THEN "pending" ELSE @]
      /\ call'     = [call EXCEPT ![m] = "awaitsPool"]
      /\ poolOf'   = [poolOf EXCEPT ![m] = p]
      /\ UNCHANGED <<retired, size, queue, job, wrote, threadVars, workerVars, closeVars>>

\* faCreateScalarWorkerPool finds a worker runtime, or rejects.
Create(p) ==
  /\ made[p] = "pending"
  /\ \E outcome \in {"ok", "rejected"} : made' = [made EXCEPT ![p] = outcome]
  /\ UNCHANGED <<registry, retired, size, queue, callVars, threadVars, workerVars, closeVars>>

\* faGrowScalarWorkerPool: `grown' is the length it reaches; every new worker's
\* thread starts and is sent its init message.
Grow(p, grown) ==
  LET new == size[p] + 1 .. grown
  IN  /\ size'   = [size EXCEPT ![p] = grown]
      /\ thread' = [thread EXCEPT ![p] = [k \in Slots |-> IF k \in new THEN "starting" ELSE @[k]]]
      /\ alive'  = [alive  EXCEPT ![p] = [k \in Slots |-> k \in new \/ @[k]]]

\* The mapper pool p was made for.
PoolMapper(p) == MapperOf[CHOOSE m \in Calls : poolOf[m] = p]

\* The retirement of pool p starts: whatever pool its mapper has leaves the
\* registry, p takes no further dispatch, and r waits for those p has.
RetireUnmarked(r, p) ==  \* Fault: pool.retired stays FALSE.
  /\ registry' = [registry EXCEPT ![PoolMapper(p)] = None]
  /\ closing'  = [closing EXCEPT ![r][p] = "drain"]
  /\ awaited'  = [awaited EXCEPT ![r][p] = Range(queue[p])]
  /\ UNCHANGED retired
Retire(r, p) ==
  /\ registry' = [registry EXCEPT ![PoolMapper(p)] = None]
  /\ retired'  = [retired EXCEPT ![p] = TRUE]
  /\ closing'  = [closing EXCEPT ![r][p] = "drain"]
  /\ awaited'  = [awaited EXCEPT ![r][p] = Range(queue[p])]

\* The pool promise settles the wait of m with an error.
PoolRefused(m) ==
  LET p == poolOf[m]
  IN  /\ call[m] = "awaitsPool"
      /\ made[p] = "rejected" \/ (made[p] = "ok" /\ retired[p])
      /\ call' = [call EXCEPT ![m] = "failed"]
      /\ UNCHANGED <<poolVars, poolOf, job, wrote, threadVars, workerVars, closeVars>>

\* The pool is there: it grows to what m asks for, and a map goes on.
PoolObtained(m) ==
  LET p == poolOf[m]
  IN  /\ call[m] = "awaitsPool"
      /\ made[p] = "ok" /\ ~retired[p]
      /\ Grow(p, IF size[p] < Demand[m] THEN Demand[m] ELSE size[p])
      /\ call' = [call EXCEPT ![m] = IF m \in Prewarms THEN "done" ELSE "hasPool"]
      /\ UNCHANGED <<registry, made, retired, queue, poolOf, job, wrote, inbox, mail,
                     ready, holder, closeVars>>

\* A worker constructor throws, perhaps after others succeeded: the pool is
\* retired and m fails when that is over.
GrowFails(m) ==
  LET p == poolOf[m]
  IN  /\ call[m] = "awaitsPool"
      /\ made[p] = "ok" /\ ~retired[p]
      /\ \E grown \in size[p] .. Demand[m] - 1 : Grow(p, grown)
      /\ Retire(m, p)
      /\ call' = [call EXCEPT ![m] = "retires"]
      /\ UNCHANGED <<made, queue, poolOf, job, wrote, inbox, mail, ready, holder>>

\* faDispatchScalarWorkerPool chains m's dispatch on the queue.
Enqueue(m) ==
  /\ call[m] = "hasPool"
  /\ call'  = [call EXCEPT ![m] = "queued"]
  /\ queue' = [queue EXCEPT ![poolOf[m]] = Append(@, m)]
  /\ UNCHANGED <<registry, made, retired, size, poolOf, job, wrote, threadVars, workerVars,
                 closeVars>>

\* m's dispatch is first in the queue: a retired pool refuses it, otherwise
\* each of its ranges goes to a worker, which must be ready first.
Dispatch(m) ==
  LET p == poolOf[m]
  IN  /\ call[m] = "queued"
      /\ Head(queue[p]) = m
      /\ IF retired[p]
         THEN /\ call'  = [call EXCEPT ![m] = "failed"]
              /\ queue' = [queue EXCEPT ![p] = Tail(@)]
              /\ UNCHANGED job
         ELSE /\ call' = [call EXCEPT ![m] = "running"]
              /\ job'  = [job EXCEPT ![m] = [k \in Slots |->
                            IF k \in Ranges(m) /\ k <= size[p] THEN "awaitsReady" ELSE "none"]]
              /\ UNCHANGED queue
      /\ UNCHANGED <<registry, made, retired, size, poolOf, wrote, threadVars, workerVars,
                     closeVars>>

RunJobOnBusy(m, k) ==  \* Fault: no "Worker is already busy".
  LET p == poolOf[m]
  IN  /\ job[m][k] = "awaitsReady"
      /\ \/ /\ ready[p][k] = "resolved" /\ alive[p][k]
            /\ job'    = [job EXCEPT ![m][k] = "posted"]
            /\ holder' = [holder EXCEPT ![p][k] = m]
            /\ inbox'  = [inbox EXCEPT ![p][k] = IF thread[p][k] = "dead" THEN @ ELSE Append(@, m)]
         \/ /\ ready[p][k] = "rejected" \/ ready[p][k] = "resolved"
            /\ job' = [job EXCEPT ![m][k] = "rejected"]
            /\ UNCHANGED <<holder, inbox>>
      /\ UNCHANGED <<poolVars, call, poolOf, wrote, thread, mail, alive, ready, closeVars>>
\* faRunScalarWorker after its await: refused by a dead or busy worker, else
\* posted.  Posting may throw; a message to a terminated thread is lost.
RunJob(m, k) ==
  LET p == poolOf[m]
      postable == alive[p][k] /\ holder[p][k] = NoCall
  IN  /\ job[m][k] = "awaitsReady"
      /\ \/ /\ ready[p][k] = "resolved" /\ postable
            /\ job'    = [job EXCEPT ![m][k] = "posted"]
            /\ holder' = [holder EXCEPT ![p][k] = m]
            /\ inbox'  = [inbox EXCEPT ![p][k] = IF thread[p][k] = "dead" THEN @ ELSE Append(@, m)]
         \/ /\ ready[p][k] = "rejected" \/ ready[p][k] = "resolved"
            /\ job' = [job EXCEPT ![m][k] = "rejected"]
            /\ UNCHANGED <<holder, inbox>>
      /\ UNCHANGED <<poolVars, call, poolOf, wrote, thread, mail, alive, ready, closeVars>>

\* Promise.all settles m's dispatch: with the first rejection, or once every
\* range is done.  The next dispatch of the queue may then start.
Settle(m) ==
  LET p == poolOf[m]
      used == {k \in Slots : job[m][k] # "none"}
  IN  /\ call[m] = "running"
      /\ \/ /\ \E k \in used : job[m][k] = "rejected"
            /\ call' = [call EXCEPT ![m] = "failed"]
         \/ /\ \A k \in used : job[m][k] = "resolved"
            /\ call' = [call EXCEPT ![m] = "done"]
      /\ queue' = [queue EXCEPT ![p] = Tail(@)]
      /\ UNCHANGED <<registry, made, retired, size, poolOf, job, wrote, threadVars, workerVars,
                     closeVars>>
-----------------------------------------------------------------------------
\* The worker thread of slot k: it loads its mapper, or throws.
ThreadStarts(p, k) ==
  /\ thread[p][k] = "starting"
  /\ \E event \in {"ready", "error"} :
       /\ mail'   = [mail EXCEPT ![p][k] = Append(@, event)]
       /\ thread' = [thread EXCEPT ![p][k] = IF event = "ready" THEN "up" ELSE "dead"]
  /\ UNCHANGED <<poolVars, callVars, inbox, workerVars, closeVars>>

\* It maps the range of its next job, or throws on one of the items.
ThreadRuns(p, k) ==
  LET m == Head(inbox[p][k])
  IN  /\ thread[p][k] = "up"
      /\ inbox[p][k] # <<>>
      /\ \/ /\ mail'   = [mail EXCEPT ![p][k] = Append(@, "done")]
            /\ wrote'  = [wrote EXCEPT ![m][k] = TRUE]
            /\ inbox'  = [inbox EXCEPT ![p][k] = Tail(@)]
            /\ UNCHANGED thread
         \/ /\ mail'   = [mail EXCEPT ![p][k] = Append(@, "error")]
            /\ thread' = [thread EXCEPT ![p][k] = "dead"]
            /\ inbox'  = [inbox EXCEPT ![p][k] = <<>>]
            /\ UNCHANGED wrote
      /\ UNCHANGED <<poolVars, call, poolOf, job, workerVars, closeVars>>

\* The promise behind pooled.resolve and pooled.reject of slot k settles.
SettleHolder(p, k, outcome) ==
  /\ holder' = [holder EXCEPT ![p][k] = NoCall]
  /\ job' = IF holder[p][k] = NoCall THEN job
            ELSE [job EXCEPT ![holder[p][k]][k] = outcome]

\* The event loop handles the oldest event of a worker.
HandleEvent(p, k) ==
  /\ mail[p][k] # <<>>
  /\ mail' = [mail EXCEPT ![p][k] = Tail(@)]
  /\ CASE Head(mail[p][k]) = "ready" ->
            /\ ready' = [ready EXCEPT ![p][k] = "resolved"]
            /\ UNCHANGED <<alive, holder, job>>
       [] Head(mail[p][k]) = "done" ->
            /\ SettleHolder(p, k, "resolved")
            /\ UNCHANGED <<alive, ready>>
       [] Head(mail[p][k]) = "error" ->
            /\ alive' = [alive EXCEPT ![p][k] = FALSE]
            /\ ready' = [ready EXCEPT ![p][k] = IF @ = "pending" THEN "rejected" ELSE @]
            /\ SettleHolder(p, k, "rejected")
  /\ UNCHANGED <<poolVars, call, poolOf, wrote, thread, inbox, closeVars>>
-----------------------------------------------------------------------------
\* faTeardownScalarWorkerPools up to its awaits: it takes every registered pool
\* promise and clears the registry.
TearDown(t) ==
  LET taken == {registry[f] : f \in Mappers} \ {None}
  IN  /\ \A p \in Pools : closing[t][p] = "no"
      /\ taken # {}
      /\ registry' = [f \in Mappers |-> None]
      /\ closing'  = [closing EXCEPT ![t] = [p \in Pools |->
                        IF p \in taken THEN "awaitsPool" ELSE "no"]]
      /\ UNCHANGED <<made, retired, size, queue, callVars, threadVars, workerVars, awaited>>

\* One entry of the teardown: its pool promise has settled.
TearDownPool(t, p) ==
  /\ closing[t][p] = "awaitsPool"
  /\ \/ made[p] = "ok" /\ Retire(t, p)
     \/ /\ made[p] = "rejected"
        /\ closing' = [closing EXCEPT ![t][p] = "closed"]
        /\ UNCHANGED <<registry, retired, awaited>>
  /\ UNCHANGED <<made, size, queue, callVars, threadVars, workerVars>>

TerminateAtOnce(r, p) ==  \* Fault: the queue is not awaited.
  /\ closing[r][p] = "drain"
  /\ closing' = [closing EXCEPT ![r][p] = "closed"]
  /\ awaited' = [awaited EXCEPT ![r][p] = {}]
  /\ alive'   = [alive EXCEPT ![p] = [k \in Slots |-> FALSE]]
  /\ thread'  = [thread EXCEPT ![p] = [k \in Slots |-> IF k <= size[p] THEN "dead" ELSE @[k]]]
  /\ inbox'   = [inbox EXCEPT ![p] = [k \in Slots |-> <<>>]]
  /\ call'    = IF r \in Calls THEN [call EXCEPT ![r] = "failed"] ELSE call
  /\ UNCHANGED <<poolVars, poolOf, job, wrote, mail, ready, holder>>
\* The dispatches the retirement waited for have settled: every worker is
\* terminated, and a map that retired the pool fails.
Terminate(r, p) ==
  /\ closing[r][p] = "drain"
  /\ \A m \in awaited[r][p] : Settled(m)
  /\ closing' = [closing EXCEPT ![r][p] = "closed"]
  /\ awaited' = [awaited EXCEPT ![r][p] = {}]
  /\ alive'   = [alive EXCEPT ![p] = [k \in Slots |-> FALSE]]
  /\ thread'  = [thread EXCEPT ![p] = [k \in Slots |-> IF k <= size[p] THEN "dead" ELSE @[k]]]
  /\ inbox'   = [inbox EXCEPT ![p] = [k \in Slots |-> <<>>]]
  /\ call'    = IF r \in Calls THEN [call EXCEPT ![r] = "failed"] ELSE call
  /\ UNCHANGED <<poolVars, poolOf, job, wrote, mail, ready, holder>>

Continue ==
  \/ \E m \in Calls : PoolRefused(m) \/ PoolObtained(m) \/ GrowFails(m) \/ Enqueue(m)
                        \/ Dispatch(m) \/ Settle(m)
  \/ \E m \in Calls, k \in Slots : RunJob(m, k)
  \/ \E p \in Pools : Create(p)
  \/ \E p \in Pools, k \in Slots : ThreadStarts(p, k) \/ ThreadRuns(p, k) \/ HandleEvent(p, k)
  \/ \E t \in Teardowns, p \in Pools : TearDownPool(t, p)
  \/ \E r \in Retirers, p \in Pools : Terminate(r, p)

Next ==
  \/ Continue
  \/ \E m \in Calls : LookUp(m)
  \/ \E t \in Teardowns : TearDown(t)

\* The host may stop calling, but what it has called goes on: the event loop
\* runs every continuation it can, and a worker thread finishes what it starts.
Spec == Init /\ [][Next]_vars /\ WF_vars(Continue)
-----------------------------------------------------------------------------
\* The shape of the state.  A pool never has more workers than its largest
\* demand, and only those have a thread.
TypeOK ==
  /\ registry \in [Mappers -> Pools \cup {None}]
  /\ made \in [Pools -> {"no", "pending", "ok", "rejected"}]
  /\ retired \in [Pools -> BOOLEAN]
  /\ size \in [Pools -> 0 .. MaxWorkers]
  /\ \A p \in Pools : Range(queue[p]) \subseteq Calls
  /\ call \in [Calls -> {"new", "awaitsPool", "hasPool", "queued", "running", "retires",
                         "done", "failed"}]
  /\ poolOf \in [Calls -> Pools \cup {None}]
  /\ job \in [Calls -> [Slots -> {"none", "awaitsReady", "posted", "resolved", "rejected"}]]
  /\ wrote \in [Calls -> [Slots -> BOOLEAN]]
  /\ thread \in [Pools -> [Slots -> {"none", "starting", "up", "dead"}]]
  /\ \A p \in Pools, k \in Slots :
       /\ Range(inbox[p][k]) \subseteq Calls
       /\ Range(mail[p][k]) \subseteq {"ready", "done", "error"}
       /\ thread[p][k] # "none" <=> k <= size[p]
  /\ alive \in [Pools -> [Slots -> BOOLEAN]]
  /\ ready \in [Pools -> [Slots -> {"pending", "resolved", "rejected"}]]
  /\ holder \in [Pools -> [Slots -> Calls \cup {NoCall}]]
  /\ closing \in [Retirers -> [Pools -> {"no", "awaitsPool", "drain", "closed"}]]
  /\ awaited \in [Retirers -> [Pools -> SUBSET Calls]]

\* A map that returns a result has had every range of it written, although the
\* workers' answers name no job and a failed dispatch leaves its other ranges
\* running in workers that the next dispatch is given.
ResultsAreComplete ==
  \A m \in Calls \ Prewarms : call[m] = "done" => \A k \in Ranges(m) : wrote[m][k]

\* Once a retirement of a pool is over no thread of it is left, and none is
\* started: a call that awaited the pool meanwhile finds it retired.
ClosedPoolsStayEmpty ==
  \A r \in Retirers, p \in Pools :
    closing[r][p] = "closed" => \A k \in Slots : thread[p][k] \in {"none", "dead"}

\* Every call the host makes settles and every teardown ends: no job is lost
\* in a terminated worker, no dispatch waits behind one that never settles.
CallsSettle ==
  []<>(/\ \A m \in Calls : call[m] = "new" \/ Settled(m)
       /\ \A r \in Retirers, p \in Pools : closing[r][p] \in {"no", "closed"})
=============================================================================
