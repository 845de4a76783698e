-------------------------- MODULE ParallelRuntime --------------------------
(***************************************************************************)
(* The fork-join runtime of natively compiled programs                     *)
(* (src/src/stdlib/runtime.c): fa_parallel_for and fa_parallel_tasks, the  *)
(* worker loops their pthreads run, the thread-local nesting depth and     *)
(* worker limit, and the mutex around the shared cursor.  One action per   *)
(* step another thread can observe; a pthread_create or a                  *)
(* pthread_mutex_init may fail on any call.                                *)
(***************************************************************************)
EXTENDS CallTree, FiniteSets

CONSTANTS
  ThreadIds,    (* How many threads may exist at once.                     *)
  NoThread,     (* A mutex nobody holds, a call nobody has made.           *)
  MaxAvailable  (* FA_PARALLEL_FOR_MAX_WORKERS.                            *)

ASSUME ThreadsAssumption ==
  /\ ThreadIds \in Nat \ {0}
  /\ NoThread \notin Int
  /\ MaxAvailable \in Nat \ {0}

VARIABLES
  available,  (* FLOWARROW_THREADS or the processors, capped; never changes *)
  phase,      (* phase[c]: where the thread that made call c is in it.      *)
  owner,      (* owner[c]: the thread that made call c.                     *)
  width,      (* width[c]: `workers', the threads the call aims at.         *)
  share,      (* share[c]: state.worker_limit, 0 for no limit.              *)
  next,       (* next[c]: state.next, the cursor under the mutex.           *)
  lock,       (* lock[c]: the holder of state.lock.                         *)
  team,       (* team[c]: the threads spawned for c and not yet joined.     *)
  pc,         (* pc[c][t]: where thread t is in the worker loop of c.       *)
  at,         (* at[c][t]: `start' when locked, then the item t runs.       *)
  stop,       (* stop[c][t]: the end of the range t claimed.                *)
  saved,      (* saved[c][t]: previous_worker_limit.                        *)
  ran,        (* ran[c][i]: how often item i of c has run (history).        *)
  limit,      (* limit[t]: thread-local fa_parallel_worker_limit.           *)
  depth       (* depth[t]: thread-local fa_parallel_depth.                  *)

callVars   == <<phase, owner, width, share>>
cursorVars == <<next, lock>>
loopVars   == <<team, pc, at, stop, saved>>
tlsVars    == <<limit, depth>>
vars == <<available, callVars, cursorVars, loopVars, ran, tlsVars>>

Threads == 0 .. ThreadIds - 1
Main    == 0    \* the thread that runs the program's main function

Phases == {"idle", "serial", "spawn", "work", "join", "done"}

\* "out": not in the call.  "loop": about to lock.  "locked": holds the mutex
\* and has read the cursor.  "run": runs the claimed range.  "exited": a
\* spawned thread that has returned from the worker function.
Places == {"out", "loop", "locked", "run", "exited"}

Smaller(a, b) == IF a < b THEN a ELSE b
Larger(a, b)  == IF a > b THEN a ELSE b
-----------------------------------------------------------------------------
\* fa_parallel_worker_count, as thread t sees it.
WorkerCount(t) ==
  IF limit[t] > 0 THEN Smaller(available, limit[t]) ELSE available

\* The units a worker claims one at a time: chunks of a "for", tasks.
Units(c) == (Count[c] + Grain[c] - 1) \div Grain[c]

\* The limit the worker functions install, over the one they found.
InstalledLimit(c, found) == IF share[c] > 0 THEN share[c] ELSE found

\* fa_parallel_tasks_worker leaves the depth alone.
Deeper(c) == IF Kind[c] = "for" THEN 1 ELSE 0

\* Control of thread t is at the call c.
Reaches(c, t) ==
  \/ c = Root /\ t = Main
  \/ \E p \in Calls :
       /\ pc[p][t] = "run"
       /\ at[p][t] < stop[p][t]
       /\ Child[p][at[p][t]] = c

\* A thread that does not exist.  pthread_create returns some such identity;
\* identities are interchangeable, so the model hands out the least one.
Free(u) ==
  /\ u # Main
  /\ \A c \in Calls :
       u \notin team[c] /\ (phase[c] \notin {"idle", "done"} => owner[c] # u)
Fresh(u) == Free(u) /\ \A v \in Threads : Free(v) => u <= v

Place(c, t, place) == pc' = [pc EXCEPT ![c][t] = place]
Enter(c, t, stage) ==
  /\ phase[c] = "idle"
  /\ Reaches(c, t)
  /\ phase' = [phase EXCEPT ![c] = stage]
  /\ owner' = [owner EXCEPT ![c] = t]
-----------------------------------------------------------------------------
Init ==
  /\ available \in 1 .. MaxAvailable
  /\ phase = [c \in Calls |-> "idle"]
  /\ owner = [c \in Calls |-> NoThread]
  /\ width = [c \in Calls |-> 0]
  /\ share = [c \in Calls |-> 0]
  /\ next  = [c \in Calls |-> 0]
  /\ lock  = [c \in Calls |-> NoThread]
  /\ team  = [c \in Calls |-> {}]
  /\ pc    = [c \in Calls |-> [t \in Threads |-> "out"]]
  /\ at    = [c \in Calls |-> [t \in Threads |-> 0]]
  /\ stop  = [c \in Calls |-> [t \in Threads |-> 0]]
  /\ saved = [c \in Calls |-> [t \in Threads |-> 0]]
  /\ ran   = [c \in Calls |-> [i \in Items(c) |-> 0]]
  /\ limit = [t \in Threads |-> 0]
  /\ depth = [t \in Threads |-> 0]

\* `end <= start', or no task at all: the call returns at once.
ReturnEmpty(c, t) ==
  /\ Count[c] = 0
  /\ Enter(c, t, "done")
  /\ UNCHANGED <<available, width, share, cursorVars, loopVars, ran, tlsVars>>

\* Faulty variant: the serial range ends one item early.
RunSeriallyShort(c, t) ==
  /\ Count[c] > 0
  /\ Enter(c, t, "serial")
  /\ Place(c, t, "run")
  /\ at'   = [at   EXCEPT ![c][t] = 0]
  /\ stop' = [stop EXCEPT ![c][t] = Count[c] - 1]
  /\ UNCHANGED <<available, width, share, cursorVars, team, saved, ran, tlsVars>>

\* The call runs all its items on the calling thread, because a guard says so
\* or because pthread_mutex_init failed, which it may do on any call.
RunSerially(c, t) ==
  /\ Count[c] > 0
  /\ Enter(c, t, "serial")
  /\ Place(c, t, "run")
  /\ at'   = [at   EXCEPT ![c][t] = 0]
  /\ stop' = [stop EXCEPT ![c][t] = Count[c]]
  /\ UNCHANGED <<available, width, share, cursorVars, team, saved, ran, tlsVars>>

\* Faulty variant: every task gets the caller's whole budget.
ForkUndivided(c, t) ==
  /\ Count[c] > 0
  /\ depth[t] = 0 /\ WorkerCount(t) > 1 /\ Units(c) > 1
  /\ Enter(c, t, "spawn")
  /\ width' = [width EXCEPT ![c] = Smaller(WorkerCount(t), Units(c))]
  /\ share' = [share EXCEPT ![c] =
                 IF Kind[c] = "for" THEN limit[t]
                 ELSE Larger(1, WorkerCount(t))]
  /\ next'  = [next EXCEPT ![c] = 0]
  /\ UNCHANGED <<available, lock, loopVars, ran, tlsVars>>

\* The call sets its shared state up and starts to spawn.
Fork(c, t) ==
  /\ Count[c] > 0
  /\ depth[t] = 0 /\ WorkerCount(t) > 1 /\ Units(c) > 1
  /\ Enter(c, t, "spawn")
  /\ width' = [width EXCEPT ![c] = Smaller(WorkerCount(t), Units(c))]
  /\ share' = [share EXCEPT ![c] =
                 IF Kind[c] = "for" THEN limit[t]
                 ELSE Larger(1, WorkerCount(t) \div width'[c])]
  /\ next'  = [next EXCEPT ![c] = 0]
  /\ UNCHANGED <<available, lock, loopVars, ran, tlsVars>>

\* One pthread_create succeeds; the new thread starts with fresh thread-local
\* state and enters the worker loop.
Spawn(c, u) ==
  /\ phase[c] = "spawn"
  /\ Cardinality(team[c]) + 1 < width[c]
  /\ Fresh(u)
  /\ team'  = [team EXCEPT ![c] = @ \cup {u}]
  /\ Place(c, u, "loop")
  /\ saved' = [saved EXCEPT ![c][u] = 0]
  /\ limit' = [limit EXCEPT ![u] = InstalledLimit(c, 0)]
  /\ depth' = [depth EXCEPT ![u] = Deeper(c)]
  /\ UNCHANGED <<available, callVars, cursorVars, at, stop, ran>>

\* The spawn loop ends, early if a pthread_create failed, and the caller
\* becomes a worker of its own call.
JoinInWork(c) ==
  LET t == owner[c]
  IN  /\ phase[c] = "spawn"
      /\ phase' = [phase EXCEPT ![c] = "work"]
      /\ Place(c, t, "loop")
      /\ saved' = [saved EXCEPT ![c][t] = limit[t]]
      /\ limit' = [limit EXCEPT ![t] = InstalledLimit(c, @)]
      /\ depth' = [depth EXCEPT ![t] = @ + Deeper(c)]
      /\ UNCHANGED <<available, owner, width, share, cursorVars, team, at, stop, ran>>

\* Faulty variant: the mutex does not exclude.
LockIgnoringHolder(c, t) ==
  /\ pc[c][t] = "loop"
  /\ lock' = [lock EXCEPT ![c] = t]
  /\ at'   = [at EXCEPT ![c][t] = next[c]]
  /\ Place(c, t, "locked")
  /\ UNCHANGED <<available, callVars, next, team, stop, saved, ran, tlsVars>>

\* pthread_mutex_lock, then the cursor is read.
Lock(c, t) ==
  /\ pc[c][t] = "loop"
  /\ lock[c] = NoThread
  /\ lock' = [lock EXCEPT ![c] = t]
  /\ at'   = [at EXCEPT ![c][t] = next[c]]
  /\ Place(c, t, "locked")
  /\ UNCHANGED <<available, callVars, next, team, stop, saved, ran, tlsVars>>

\* Faulty variant: the last range is not cut at the end.
ClaimUnclamped(c, t) ==
  /\ pc[c][t] = "locked"
  /\ at[c][t] < Count[c]
  /\ LET end == at[c][t] + Grain[c]
     IN  /\ stop' = [stop EXCEPT ![c][t] = end]
         /\ next' = [next EXCEPT ![c] = end]
  /\ lock' = [lock EXCEPT ![c] = NoThread]
  /\ Place(c, t, "run")
  /\ UNCHANGED <<available, callVars, team, at, saved, ran, tlsVars>>

\* Items are left: claim a range, advance the cursor, unlock.
Claim(c, t) ==
  /\ pc[c][t] = "locked"
  /\ at[c][t] < Count[c]
  /\ LET end == Smaller(at[c][t] + Grain[c], Count[c])
     IN  /\ stop' = [stop EXCEPT ![c][t] = end]
         /\ next' = [next EXCEPT ![c] = end]
  /\ lock' = [lock EXCEPT ![c] = NoThread]
  /\ Place(c, t, "run")
  /\ UNCHANGED <<available, callVars, team, at, saved, ran, tlsVars>>

\* Faulty variant: the worker limit is not restored.
LeaveLoopStillLimited(c, t) ==
  /\ pc[c][t] = "locked"
  /\ at[c][t] >= Count[c]
  /\ lock'  = [lock EXCEPT ![c] = NoThread]
  /\ UNCHANGED limit
  /\ depth' = [depth EXCEPT ![t] = @ - Deeper(c)]
  /\ \/ t = owner[c] /\ Place(c, t, "out") /\ phase' = [phase EXCEPT ![c] = "join"]
     \/ t # owner[c] /\ Place(c, t, "exited") /\ UNCHANGED phase
  /\ at'    = [at    EXCEPT ![c][t] = 0]
  /\ saved' = [saved EXCEPT ![c][t] = 0]
  /\ UNCHANGED <<available, owner, width, share, next, team, stop, ran>>

\* Faulty variant: the mutex is not released.
LeaveLoopStillLocked(c, t) ==
  /\ pc[c][t] = "locked"
  /\ at[c][t] >= Count[c]
  /\ UNCHANGED lock
  /\ limit' = [limit EXCEPT ![t] = saved[c][t]]
  /\ depth' = [depth EXCEPT ![t] = @ - Deeper(c)]
  /\ \/ t = owner[c] /\ Place(c, t, "out") /\ phase' = [phase EXCEPT ![c] = "join"]
     \/ t # owner[c] /\ Place(c, t, "exited") /\ UNCHANGED phase
  /\ at'    = [at    EXCEPT ![c][t] = 0]
  /\ saved' = [saved EXCEPT ![c][t] = 0]
  /\ UNCHANGED <<available, owner, width, share, next, team, stop, ran>>

\* Nothing is left: unlock, leave the loop, put the thread-local state back.
LeaveLoop(c, t) ==
  /\ pc[c][t] = "locked"
  /\ at[c][t] >= Count[c]
  /\ lock'  = [lock EXCEPT ![c] = NoThread]
  /\ limit' = [limit EXCEPT ![t] = saved[c][t]]
  /\ depth' = [depth EXCEPT ![t] = @ - Deeper(c)]
  /\ \/ t = owner[c] /\ Place(c, t, "out") /\ phase' = [phase EXCEPT ![c] = "join"]
     \/ t # owner[c] /\ Place(c, t, "exited") /\ UNCHANGED phase
  /\ at'    = [at    EXCEPT ![c][t] = 0]
  /\ saved' = [saved EXCEPT ![c][t] = 0]
  /\ UNCHANGED <<available, owner, width, share, next, team, stop, ran>>

\* The next item of the claimed range runs, once the call it makes returned.
RunItem(c, t) ==
  LET i == at[c][t]
  IN  /\ pc[c][t] = "run"
      /\ i < stop[c][t]
      /\ Child[c][i] # NoCall => phase[Child[c][i]] = "done"
      /\ ran' = [ran EXCEPT ![c][i] = @ + 1]
      /\ at'  = [at  EXCEPT ![c][t] = i + 1]
      /\ UNCHANGED <<available, callVars, cursorVars, team, pc, stop, saved, tlsVars>>

\* fn returns, and the locals start and end of the loop body with it.  A
\* serial call returns with it; a worker looks for more.
FinishRange(c, t) ==
  /\ pc[c][t] = "run"
  /\ at[c][t] = stop[c][t]
  /\ \/ phase[c] = "serial" /\ Place(c, t, "out") /\ phase' = [phase EXCEPT ![c] = "done"]
     \/ phase[c] # "serial" /\ Place(c, t, "loop") /\ UNCHANGED phase
  /\ at'   = [at   EXCEPT ![c][t] = 0]
  /\ stop' = [stop EXCEPT ![c][t] = 0]
  /\ UNCHANGED <<available, owner, width, share, cursorVars, team, saved, ran,
                 tlsVars>>

\* Faulty variant: nobody is waited for.
JoinWithoutWaiting(c) ==
  /\ phase[c] = "join"
  /\ phase' = [phase EXCEPT ![c] = "done"]
  /\ team'  = [team EXCEPT ![c] = {}]
  /\ pc'    = [pc EXCEPT ![c] = [t \in Threads |-> IF t \in team[c] THEN "out" ELSE @[t]]]
  /\ UNCHANGED <<available, owner, width, share, cursorVars, at, stop, saved,
                 ran, tlsVars>>

\* The caller has joined every thread it spawned; the call returns.
Join(c) ==
  /\ phase[c] = "join"
  /\ \A u \in team[c] : pc[c][u] = "exited"
  /\ phase' = [phase EXCEPT ![c] = "done"]
  /\ team'  = [team EXCEPT ![c] = {}]
  /\ pc'    = [pc EXCEPT ![c] = [t \in Threads |-> IF t \in team[c] THEN "out" ELSE @[t]]]
  /\ UNCHANGED <<available, owner, width, share, cursorVars, at, stop, saved,
                 ran, tlsVars>>

WorkerStep(c, t) ==
  Lock(c, t) \/ Claim(c, t) \/ LeaveLoop(c, t) \/ RunItem(c, t) \/ FinishRange(c, t)

CallStep(c, t) == ReturnEmpty(c, t) \/ RunSerially(c, t) \/ Fork(c, t)

Progress ==
  \/ \E c \in Calls, t \in Threads : CallStep(c, t) \/ WorkerStep(c, t)
  \/ \E c \in Calls : JoinInWork(c) \/ Join(c)

Next ==
  \/ Progress
  \/ \E c \in Calls, u \in Threads : Spawn(c, u)

SafetySpec == Init /\ [][Next]_vars

\* The kernel keeps scheduling: while some thread can step, some thread does.
\* Nothing is assumed about which, nor that any pthread_create succeeds.
Fairness == WF_vars(Progress)

Spec == SafetySpec /\ Fairness
-----------------------------------------------------------------------------
\* Every variable has its type, and no cursor passes the end of its call: the
\* items are slots of the output array.
TypeOK ==
  /\ available \in 1 .. MaxAvailable
  /\ phase \in [Calls -> Phases]
  /\ owner \in [Calls -> Threads \cup {NoThread}]
  /\ width \in [Calls -> Int]
  /\ share \in [Calls -> Int]
  /\ next  \in [Calls -> Nat] /\ \A c \in Calls : next[c] <= Count[c]
  /\ lock  \in [Calls -> Threads \cup {NoThread}]
  /\ team  \in [Calls -> SUBSET Threads]
  /\ pc    \in [Calls -> [Threads -> Places]]
  /\ at    \in [Calls -> [Threads -> Nat]]
  /\ stop  \in [Calls -> [Threads -> Nat]]
  /\ saved \in [Calls -> [Threads -> Int]]
  /\ DOMAIN ran = Calls
  /\ \A c \in Calls : ran[c] \in [Items(c) -> Nat]
  /\ limit \in [Threads -> Int]
  /\ depth \in [Threads -> Int]

\* Thread t has claimed item i of call c and not finished it.
Holds(c, t, i) == pc[c][t] = "run" /\ i \in at[c][t] .. stop[c][t] - 1

\* No item is ever run twice, or claimed by two threads at once: generated
\* workers write their result slot without any lock of its own.
ClaimsDisjoint ==
  \A c \in Calls : \A i \in Items(c) :
    /\ ran[c][i] <= 1
    /\ ran[c][i] = 1 => \A t \in Threads : ~Holds(c, t, i)
    /\ \A t, u \in Threads : Holds(c, t, i) /\ Holds(c, u, i) => t = u

\* A call that has returned has run every item, its mutex is free when it is
\* destroyed, and no thread is left in it: the shared state is on the caller's
\* stack and dies with the return.
ReturnedCallsAreComplete ==
  \A c \in Calls : phase[c] = "done" =>
    /\ \A i \in Items(c) : ran[c][i] = 1
    /\ lock[c] = NoThread
    /\ \A t \in Threads : pc[c][t] = "out"

\* The threads that exist and have not exited.
Alive == {Main} \cup {t \in Threads : \E c \in Calls : t \in team[c] /\ pc[c][t] # "exited"}

\* However calls nest, the threads alive never exceed FLOWARROW_THREADS: a
\* batch of tasks divides its workers among the calls its tasks make.
ThreadBudget == Cardinality(Alive) <= available

\* The worker loops thread t is in, from its innermost call outwards.
LoopsOf(t) == {c \in Calls : phase[c] # "serial" /\ pc[c][t] \in {"loop", "locked", "run"}}
Least(S) == CHOOSE x \in S : \A y \in S : x <= y

\* The thread-local state says exactly what the nesting does: depth counts the
\* parallel "for" loops the thread is in, and the limit is the smallest share
\* any of them gave it.  In particular a call restores what it found.
ThreadLocalsMatchNesting ==
  \A t \in Threads :
    LET shares == {share[c] : c \in LoopsOf(t)} \ {0}
    IN  t \in Alive =>
          /\ depth[t] = Cardinality({c \in LoopsOf(t) : Kind[c] = "for"})
          /\ limit[t] = IF shares = {} THEN 0 ELSE Least(shares)

\* What a caller can tell about a call.
Status == [c \in Calls |->
  IF phase[c] \in {"idle", "done"} THEN phase[c] ELSE "running"]

\* The runtime implements ForkJoin, its liveness included.
FJ == INSTANCE ForkJoin WITH status <- Status
ImplementsForkJoin == FJ!Spec

\* The outermost call returns, whichever pthread_create fails: no thread waits
\* for a mutex or a join for ever.
ProgramReturns == <>(phase[Root] = "done")
=============================================================================
