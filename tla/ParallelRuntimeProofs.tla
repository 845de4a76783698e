----------------------- MODULE ParallelRuntimeProofs -----------------------
(***************************************************************************)
(* Proofs about ParallelRuntime, for every tree of calls, every number of  *)
(* threads and every failure of pthread_create and pthread_mutex_init.     *)
(* The inductive invariant says, call by call, who is in the call, what    *)
(* the mutex protects, and where each item of the call is: still ahead of  *)
(* the cursor, claimed by exactly one thread, or run once.                 *)
(***************************************************************************)
EXTENDS ParallelRuntime, TLAPS, FiniteSetTheorems

Parallel == {"spawn", "work", "join"}

\* Who is in call c.
Members(c) ==
  /\ phase[c] \in Parallel \cup {"serial"} => owner[c] \in Threads /\ owner[c] \notin team[c]
  /\ phase[c] \notin Parallel => team[c] = {}
  /\ \A t \in Threads : pc[c][t] # "out" =>
       t \in team[c] \/ (t = owner[c] /\ phase[c] \in {"serial", "work"})
  /\ phase[c] = "serial" => pc[c][owner[c]] = "run"
  /\ \A t \in Threads : pc[c][t] = "exited" => t \in team[c]

\* What the mutex of call c protects, and that the loop ends at the end.
Locking(c) ==
  /\ \A t \in Threads : pc[c][t] = "locked" <=> lock[c] = t
  /\ \A t \in Threads : pc[c][t] = "locked" => at[c][t] = next[c]
  /\ phase[c] = "join" => next[c] = Count[c]

\* Claimed ranges lie behind the cursor and inside the call.
Ranges(c) ==
  \A t \in Threads : pc[c][t] = "run" =>
    /\ at[c][t] <= stop[c][t]
    /\ stop[c][t] <= Count[c]
    /\ phase[c] \in Parallel => stop[c][t] <= next[c]

\* Where the items of a parallel call are: ahead of the cursor, claimed by one
\* thread, or run once.
Shared(c) ==
  \A i \in Items(c) :
    /\ i >= next[c] => ran[c][i] = 0
    /\ i < next[c]  => ran[c][i] = 1 \/ (ran[c][i] = 0 /\ \E t \in Threads : Holds(c, t, i))
    /\ \A t \in Threads : Holds(c, t, i) => ran[c][i] = 0
    /\ \A t, u \in Threads : Holds(c, t, i) /\ Holds(c, u, i) => t = u

\* Where the items of a call run by its caller alone are.
Serial(c) ==
  /\ stop[c][owner[c]] = Count[c]
  /\ \A i \in Items(c) : ran[c][i] = IF i < at[c][owner[c]] THEN 1 ELSE 0

Accounting(c) ==
  /\ Ranges(c)
  /\ phase[c] = "idle" => \A i \in Items(c) : ran[c][i] = 0
  /\ phase[c] = "serial" => Serial(c)
  /\ phase[c] \in Parallel => Shared(c)
  /\ phase[c] = "done" => \A i \in Items(c) : ran[c][i] = 1

CallInv(c) == Members(c) /\ Locking(c) /\ Accounting(c)

IInv == TypeOK /\ \A c \in Calls : CallInv(c)
-----------------------------------------------------------------------------
(***************************************************************************)
(* Type correctness.                                                       *)
(***************************************************************************)

LEMMA ConstantTypes ==
  /\ Count \in [Calls -> Nat]
  /\ Grain \in [Calls -> Nat \ {0}]
  /\ Main \in Threads
  /\ NoThread \notin Threads
  /\ MaxAvailable \in Nat
BY CallTreeAssumption, ThreadsAssumption DEF Threads, Main

LEMMA InitInv == Init => IInv
<1> SUFFICES ASSUME Init PROVE IInv
  OBVIOUS
<1> USE ConstantTypes DEF Items
<1>1. TypeOK
  BY ThreadsAssumption, SMTT(60) DEF Init, TypeOK, Phases, Places
<1>2. ASSUME NEW c \in Calls PROVE CallInv(c)
  BY <1>2, SMTT(60) DEF Init, CallInv, Members, Locking, Accounting, Ranges, Serial, Shared, Parallel
<1> QED
  BY <1>1, <1>2 DEF IInv

LEMMA WorkerCountType ==
  ASSUME TypeOK, NEW t \in Threads
  PROVE  WorkerCount(t) \in Int
BY ConstantTypes DEF TypeOK, WorkerCount, Smaller

LEMMA UnitsType ==
  ASSUME NEW c \in Calls
  PROVE  Units(c) \in Int
<1>1. Count[c] \in Nat /\ Grain[c] \in Nat /\ Grain[c] > 0
  BY ConstantTypes
<1> QED
  BY <1>1 DEF Units

LEMMA TypeStep == IInv /\ [Next]_vars => TypeOK'
<1> SUFFICES ASSUME IInv, [Next]_vars PROVE TypeOK'
  OBVIOUS
<1> USE ConstantTypes
<1> USE DEF IInv, TypeOK, Phases, Places, Place, Enter,
            callVars, cursorVars, loopVars, tlsVars
<1>1. ASSUME NEW c \in Calls, NEW t \in Threads, ReturnEmpty(c, t) PROVE TypeOK'
  BY <1>1 DEF ReturnEmpty
<1>2. ASSUME NEW c \in Calls, NEW t \in Threads, RunSerially(c, t) PROVE TypeOK'
  BY <1>2 DEF RunSerially
<1>3. ASSUME NEW c \in Calls, NEW t \in Threads, Fork(c, t) PROVE TypeOK'
  <2>1. WorkerCount(t) \in Int /\ Units(c) \in Int
    BY WorkerCountType, UnitsType
  <2>2. Smaller(WorkerCount(t), Units(c)) \in Nat \ {0}
    BY <1>3, <2>1 DEF Fork, Smaller
  <2>3. width'[c] = Smaller(WorkerCount(t), Units(c)) /\ width' \in [Calls -> Int]
    BY <1>3, <2>2 DEF Fork
  <2>4. Larger(1, WorkerCount(t) \div width'[c]) \in Int
    <3> DEFINE w == WorkerCount(t)
               v == width'[c]
    <3>1. w \in Int /\ v \in Nat /\ v > 0
      BY <2>1, <2>2, <2>3
    <3> HIDE DEF w, v
    <3>2. w \div v \in Int
      BY <3>1
    <3>3. Larger(1, w \div v) \in Int
      BY <3>2 DEF Larger
    <3> QED
      BY <3>3 DEF w, v
  <2>5. share' \in [Calls -> Int]
    BY <1>3, <2>4 DEF Fork
  <2> QED
    BY <1>3, <2>3, <2>5 DEF Fork
<1>4. ASSUME NEW c \in Calls, NEW t \in Threads, Spawn(c, t) PROVE TypeOK'
  BY <1>4 DEF Spawn, InstalledLimit, Deeper
<1>5. ASSUME NEW c \in Calls, JoinInWork(c) PROVE TypeOK'
  BY <1>5, SMTT(60) DEF JoinInWork, InstalledLimit, Deeper, CallInv, Members, Parallel
<1>6. ASSUME NEW c \in Calls, NEW t \in Threads, Lock(c, t) PROVE TypeOK'
  BY <1>6 DEF Lock
<1>7. ASSUME NEW c \in Calls, NEW t \in Threads, Claim(c, t) PROVE TypeOK'
  BY <1>7 DEF Claim, Smaller
<1>8. ASSUME NEW c \in Calls, NEW t \in Threads, LeaveLoop(c, t) PROVE TypeOK'
  <2>1. phase' \in [Calls -> Phases] /\ pc' \in [Calls -> [Threads -> Places]]
    <3>1. CASE t = owner[c] /\ Place(c, t, "out") /\ phase' = [phase EXCEPT ![c] = "join"]
      BY <3>1
    <3>2. CASE t # owner[c] /\ Place(c, t, "exited") /\ UNCHANGED phase
      BY <3>2
    <3> QED
      BY <1>8, <3>1, <3>2 DEF LeaveLoop
  <2>2. limit' \in [Threads -> Int] /\ depth' \in [Threads -> Int]
    BY <1>8 DEF LeaveLoop, Deeper
  <2>3. /\ lock' \in [Calls -> Threads \cup {NoThread}]
        /\ at' \in [Calls -> [Threads -> Nat]]
        /\ saved' \in [Calls -> [Threads -> Int]]
    BY <1>8 DEF LeaveLoop
  <2> QED
    BY <1>8, <2>1, <2>2, <2>3 DEF LeaveLoop
<1>9. ASSUME NEW c \in Calls, NEW t \in Threads, RunItem(c, t) PROVE TypeOK'
  <2>1. at[c][t] \in Items(c)
    BY <1>9, SMTT(60) DEF RunItem, CallInv, Accounting, Ranges, Items
  <2>2. ran' = [ran EXCEPT ![c][at[c][t]] = ran[c][at[c][t]] + 1]
    BY <1>9 DEF RunItem
  <2>3. DOMAIN ran' = Calls /\ \A d \in Calls : ran'[d] \in [Items(d) -> Nat]
    BY <2>1, <2>2
  <2> QED
    BY <1>9, <2>3 DEF RunItem
<1>10. ASSUME NEW c \in Calls, NEW t \in Threads, FinishRange(c, t) PROVE TypeOK'
  <2>1. phase' \in [Calls -> Phases] /\ pc' \in [Calls -> [Threads -> Places]]
    <3>1. CASE phase[c] = "serial" /\ Place(c, t, "out") /\ phase' = [phase EXCEPT ![c] = "done"]
      BY <3>1
    <3>2. CASE phase[c] # "serial" /\ Place(c, t, "loop") /\ UNCHANGED phase
      BY <3>2
    <3> QED
      BY <1>10, <3>1, <3>2 DEF FinishRange
  <2>2. at' \in [Calls -> [Threads -> Nat]] /\ stop' \in [Calls -> [Threads -> Nat]]
    BY <1>10 DEF FinishRange
  <2> QED
    BY <1>10, <2>1, <2>2 DEF FinishRange
<1>11. ASSUME NEW c \in Calls, Join(c) PROVE TypeOK'
  BY <1>11 DEF Join
<1>12. CASE UNCHANGED vars
  BY <1>12 DEF vars
<1> QED
  BY <1>1, <1>2, <1>3, <1>4, <1>5, <1>6, <1>7, <1>8, <1>9, <1>10, <1>11, <1>12
  DEF Next, Progress, CallStep, WorkerStep
-----------------------------------------------------------------------------
(***************************************************************************)
(* A step of call c leaves the invariant of every other call alone.        *)
(***************************************************************************)

Untouched(d) ==
  /\ phase'[d] = phase[d] /\ owner'[d] = owner[d] /\ team'[d] = team[d]
  /\ next'[d] = next[d] /\ lock'[d] = lock[d] /\ ran'[d] = ran[d]
  /\ pc'[d] = pc[d] /\ at'[d] = at[d] /\ stop'[d] = stop[d]

OnlyCall(c) == \A d \in Calls \ {c} : Untouched(d)

LocalTypes(c) ==
  /\ phase[c] \in Phases
  /\ owner[c] \in Threads \cup {NoThread}
  /\ next[c] \in Nat /\ next[c] <= Count[c]
  /\ lock[c] \in Threads \cup {NoThread}
  /\ team[c] \in SUBSET Threads
  /\ pc[c] \in [Threads -> Places]
  /\ at[c] \in [Threads -> Nat]
  /\ stop[c] \in [Threads -> Nat]
  /\ ran[c] \in [Items(c) -> Nat]
  /\ Count[c] \in Nat /\ Grain[c] \in Nat \ {0}
  /\ NoThread \notin Threads

LEMMA InvAtCall ==
  ASSUME IInv, NEW c \in Calls
  PROVE  Members(c) /\ Locking(c) /\ Accounting(c) /\ LocalTypes(c)
BY ConstantTypes DEF IInv, CallInv, TypeOK, LocalTypes

LEMMA Frame ==
  ASSUME NEW d \in Calls, CallInv(d), Untouched(d)
  PROVE  CallInv(d)'
<1>1. Members(d)'
  BY DEF CallInv, Untouched, Members, Parallel
<1>2. Locking(d)'
  BY DEF CallInv, Untouched, Locking
<1>3. Accounting(d)'
  BY DEF CallInv, Untouched, Accounting, Ranges, Serial, Shared, Parallel, Holds, Items
<1> QED
  BY <1>1, <1>2, <1>3 DEF CallInv

LEMMA ReturnEmptyInv ==
  ASSUME IInv, NEW c \in Calls, NEW t \in Threads, ReturnEmpty(c, t)
  PROVE  OnlyCall(c) /\ CallInv(c)'
<1>0. Members(c) /\ Locking(c) /\ Accounting(c) /\ LocalTypes(c)
  BY InvAtCall
<1>1. /\ phase[c] = "idle" /\ phase'[c] = "done" /\ Count[c] = 0
      /\ team'[c] = team[c]
      /\ next'[c] = next[c]
      /\ lock'[c] = lock[c]
      /\ pc'[c] = pc[c]
      /\ at'[c] = at[c]
      /\ stop'[c] = stop[c]
      /\ ran'[c] = ran[c]
  BY <1>0, SMTT(60) DEF IInv, LocalTypes, ReturnEmpty, Enter, Place, TypeOK, cursorVars, callVars, loopVars, tlsVars
<1>2. OnlyCall(c)
  BY DEF IInv, ReturnEmpty, Enter, Place, TypeOK, OnlyCall, Untouched, cursorVars, callVars, loopVars, tlsVars
<1>3. Members(c)'
  BY <1>0, <1>1 DEF Members, Parallel, LocalTypes
<1>4. Locking(c)'
  BY <1>0, <1>1, SMTT(60) DEF Locking, Members, Parallel, LocalTypes
<1>5. Accounting(c)'
  BY <1>0, <1>1, SMTT(60) DEF Accounting, Ranges, Serial, Shared, Members, Locking, Parallel, Holds, Items, LocalTypes
<1> QED
  BY <1>2, <1>3, <1>4, <1>5 DEF CallInv

LEMMA RunSeriallyInv ==
  ASSUME IInv, NEW c \in Calls, NEW t \in Threads, RunSerially(c, t)
  PROVE  OnlyCall(c) /\ CallInv(c)'
<1>0. Members(c) /\ Locking(c) /\ Accounting(c) /\ LocalTypes(c)
  BY InvAtCall
<1>1. /\ phase[c] = "idle" /\ phase'[c] = "serial" /\ owner'[c] = t
      /\ pc'[c] = [pc[c] EXCEPT ![t] = "run"]
      /\ at'[c] = [at[c] EXCEPT ![t] = 0]
      /\ stop'[c] = [stop[c] EXCEPT ![t] = Count[c]]
      /\ team'[c] = team[c]
      /\ next'[c] = next[c]
      /\ lock'[c] = lock[c]
      /\ ran'[c] = ran[c]
  BY <1>0, SMTT(60) DEF IInv, LocalTypes, RunSerially, Enter, Place, TypeOK, cursorVars, callVars, loopVars, tlsVars
<1>2. OnlyCall(c)
  BY DEF IInv, RunSerially, Enter, Place, TypeOK, OnlyCall, Untouched, cursorVars, callVars, loopVars, tlsVars
<1>3. Members(c)'
  BY <1>0, <1>1 DEF Members, Parallel, LocalTypes
<1>4. Locking(c)'
  BY <1>0, <1>1, SMTT(60) DEF Locking, Members, Parallel, LocalTypes
<1>5. Accounting(c)'
  BY <1>0, <1>1, SMTT(60) DEF Accounting, Ranges, Serial, Shared, Members, Locking, Parallel, Holds, Items, LocalTypes
<1> QED
  BY <1>2, <1>3, <1>4, <1>5 DEF CallInv

LEMMA ForkInv ==
  ASSUME IInv, NEW c \in Calls, NEW t \in Threads, Fork(c, t)
  PROVE  OnlyCall(c) /\ CallInv(c)'
<1>0. Members(c) /\ Locking(c) /\ Accounting(c) /\ LocalTypes(c)
  BY InvAtCall
<1>1. /\ phase[c] = "idle" /\ phase'[c] = "spawn" /\ owner'[c] = t
      /\ next'[c] = 0
      /\ team'[c] = team[c]
      /\ lock'[c] = lock[c]
      /\ pc'[c] = pc[c]
      /\ at'[c] = at[c]
      /\ stop'[c] = stop[c]
      /\ ran'[c] = ran[c]
  BY <1>0, SMTT(60) DEF IInv, LocalTypes, Fork, Enter, Place, TypeOK, cursorVars, callVars, loopVars, tlsVars
<1>2. OnlyCall(c)
  BY DEF IInv, Fork, Enter, Place, TypeOK, OnlyCall, Untouched, cursorVars, callVars, loopVars, tlsVars
<1>3. Members(c)'
  BY <1>0, <1>1 DEF Members, Parallel, LocalTypes
<1>4. Locking(c)'
  BY <1>0, <1>1, SMTT(60) DEF Locking, Members, Parallel, LocalTypes
<1>5. ASSUME NEW u \in Threads, NEW i \in Items(c)
      PROVE  Holds(c, u, i)' <=> Holds(c, u, i)
  BY <1>0, <1>1 DEF Holds, LocalTypes
<1>6. Ranges(c)'
  BY <1>0, <1>1, SMTT(60) DEF Ranges, Accounting, Members, Locking, Parallel, LocalTypes
<1>7. phase'[c] \in Parallel => Shared(c)'
  <2>1. ASSUME NEW i \in Items(c) PROVE ran'[c][i] = 0 /\ \A u \in Threads : ~Holds(c, u, i)'
    BY <1>0, <1>1, <1>5, SMTT(60) DEF Accounting, Members, Parallel, Holds
  <2> QED
    BY <1>0, <1>1, <2>1 DEF Shared, LocalTypes, Items
<1>8. phase'[c] = "serial" => Serial(c)'
  BY <1>0, <1>1, SMTT(60) DEF Serial, Accounting, Members, Parallel, LocalTypes, Items
<1>9. Accounting(c)'
  BY <1>0, <1>1, <1>5, <1>6, <1>7, <1>8, SMTT(60) DEF Accounting, Parallel, Serial, Shared, Members, Locking, LocalTypes, Items
<1> QED
  BY <1>2, <1>3, <1>4, <1>9 DEF CallInv

LEMMA SpawnInv ==
  ASSUME IInv, NEW c \in Calls, NEW t \in Threads, Spawn(c, t)
  PROVE  OnlyCall(c) /\ CallInv(c)'
<1>0. Members(c) /\ Locking(c) /\ Accounting(c) /\ LocalTypes(c)
  BY InvAtCall
<1>1. /\ phase[c] = "spawn" /\ t \notin team[c] /\ owner[c] # t
      /\ team'[c] = team[c] \cup {t}
      /\ pc'[c] = [pc[c] EXCEPT ![t] = "loop"]
      /\ phase'[c] = phase[c]
      /\ owner'[c] = owner[c]
      /\ next'[c] = next[c]
      /\ lock'[c] = lock[c]
      /\ at'[c] = at[c]
      /\ stop'[c] = stop[c]
      /\ ran'[c] = ran[c]
  BY <1>0 DEF IInv, LocalTypes, Spawn, Enter, Place, TypeOK, cursorVars, callVars, loopVars, tlsVars, Fresh, Free
<1>2. OnlyCall(c)
  BY DEF IInv, Spawn, Enter, Place, TypeOK, OnlyCall, Untouched, cursorVars, callVars, loopVars, tlsVars
<1>3. Members(c)'
  BY <1>0, <1>1 DEF Members, Parallel, LocalTypes
<1>4. Locking(c)'
  BY <1>0, <1>1, SMTT(60) DEF Locking, Members, Parallel, LocalTypes
<1>5. ASSUME NEW u \in Threads, NEW i \in Items(c)
      PROVE  Holds(c, u, i)' <=> Holds(c, u, i)
  BY <1>0, <1>1, SMTT(20) DEF Holds, Items, LocalTypes, Locking, Accounting, Members, Parallel
<1>6. Ranges(c)'
  BY <1>0, <1>1, SMTT(60) DEF Ranges, Accounting, Members, Locking, Parallel, LocalTypes
<1>7. phase'[c] \in Parallel => Shared(c)'
  BY <1>0, <1>1, <1>5, SMTT(60) DEF Shared, Accounting, Members, Locking, Parallel, LocalTypes, Items
<1>8. phase'[c] = "serial" => Serial(c)'
  BY <1>0, <1>1, SMTT(60) DEF Serial, Accounting, Members, Parallel, LocalTypes, Items
<1>9. Accounting(c)'
  BY <1>0, <1>1, <1>5, <1>6, <1>7, <1>8, SMTT(60) DEF Accounting, Parallel, Serial, Shared, Members, Locking, LocalTypes, Items
<1> QED
  BY <1>2, <1>3, <1>4, <1>9 DEF CallInv

LEMMA JoinInWorkInv ==
  ASSUME IInv, NEW c \in Calls, JoinInWork(c)
  PROVE  OnlyCall(c) /\ CallInv(c)'
<1>0. Members(c) /\ Locking(c) /\ Accounting(c) /\ LocalTypes(c)
  BY InvAtCall
<1>1. /\ phase[c] = "spawn" /\ phase'[c] = "work"
      /\ pc'[c] = [pc[c] EXCEPT ![owner[c]] = "loop"]
      /\ owner'[c] = owner[c]
      /\ team'[c] = team[c]
      /\ next'[c] = next[c]
      /\ lock'[c] = lock[c]
      /\ at'[c] = at[c]
      /\ stop'[c] = stop[c]
      /\ ran'[c] = ran[c]
  BY <1>0, SMTT(60) DEF IInv, LocalTypes, JoinInWork, Enter, Place, TypeOK, cursorVars, callVars, loopVars, tlsVars
<1>2. OnlyCall(c)
  BY DEF IInv, JoinInWork, Enter, Place, TypeOK, OnlyCall, Untouched, cursorVars, callVars, loopVars, tlsVars
<1>3. Members(c)'
  BY <1>0, <1>1 DEF Members, Parallel, LocalTypes
<1>4. Locking(c)'
  BY <1>0, <1>1, SMTT(60) DEF Locking, Members, Parallel, LocalTypes
<1>5. ASSUME NEW u \in Threads, NEW i \in Items(c)
      PROVE  Holds(c, u, i)' <=> Holds(c, u, i)
  BY <1>0, <1>1, SMTT(20) DEF Holds, Items, LocalTypes, Locking, Accounting, Members, Parallel
<1>6. Ranges(c)'
  BY <1>0, <1>1, SMTT(60) DEF Ranges, Accounting, Members, Locking, Parallel, LocalTypes
<1>7. phase'[c] \in Parallel => Shared(c)'
  BY <1>0, <1>1, <1>5, SMTT(60) DEF Shared, Accounting, Members, Locking, Parallel, LocalTypes, Items
<1>8. phase'[c] = "serial" => Serial(c)'
  BY <1>0, <1>1, SMTT(60) DEF Serial, Accounting, Members, Parallel, LocalTypes, Items
<1>9. Accounting(c)'
  BY <1>0, <1>1, <1>5, <1>6, <1>7, <1>8, SMTT(60) DEF Accounting, Parallel, Serial, Shared, Members, Locking, LocalTypes, Items
<1> QED
  BY <1>2, <1>3, <1>4, <1>9 DEF CallInv

LEMMA LockInv ==
  ASSUME IInv, NEW c \in Calls, NEW t \in Threads, Lock(c, t)
  PROVE  OnlyCall(c) /\ CallInv(c)'
<1>0. Members(c) /\ Locking(c) /\ Accounting(c) /\ LocalTypes(c)
  BY InvAtCall
<1>1. /\ pc[c][t] = "loop" /\ lock[c] = NoThread /\ lock'[c] = t
      /\ pc'[c] = [pc[c] EXCEPT ![t] = "locked"]
      /\ at'[c] = [at[c] EXCEPT ![t] = next[c]]
      /\ phase'[c] = phase[c]
      /\ owner'[c] = owner[c]
      /\ team'[c] = team[c]
      /\ next'[c] = next[c]
      /\ stop'[c] = stop[c]
      /\ ran'[c] = ran[c]
  BY <1>0, SMTT(60) DEF IInv, LocalTypes, Lock, Enter, Place, TypeOK, cursorVars, callVars, loopVars, tlsVars
<1>2. OnlyCall(c)
  BY DEF IInv, Lock, Enter, Place, TypeOK, OnlyCall, Untouched, cursorVars, callVars, loopVars, tlsVars
<1>3. Members(c)'
  BY <1>0, <1>1 DEF Members, Parallel, LocalTypes
<1>4. Locking(c)'
  BY <1>0, <1>1, SMTT(60) DEF Locking, Members, Parallel, LocalTypes
<1>5. ASSUME NEW u \in Threads, NEW i \in Items(c)
      PROVE  Holds(c, u, i)' <=> Holds(c, u, i)
  BY <1>0, <1>1 DEF Holds, LocalTypes
<1>6. Ranges(c)'
  BY <1>0, <1>1, SMTT(60) DEF Ranges, Accounting, Members, Locking, Parallel, LocalTypes
<1>7. phase'[c] \in Parallel => Shared(c)'
  BY <1>0, <1>1, <1>5, SMTT(60) DEF Shared, Accounting, Members, Locking, Parallel, LocalTypes, Items
<1>8. phase'[c] = "serial" => Serial(c)'
  BY <1>0, <1>1, SMTT(60) DEF Serial, Accounting, Members, Parallel, LocalTypes, Items
<1>9. Accounting(c)'
  BY <1>0, <1>1, <1>5, <1>6, <1>7, <1>8, SMTT(60) DEF Accounting, Parallel, Serial, Shared, Members, Locking, LocalTypes, Items
<1> QED
  BY <1>2, <1>3, <1>4, <1>9 DEF CallInv

LEMMA ClaimInv ==
  ASSUME IInv, NEW c \in Calls, NEW t \in Threads, Claim(c, t)
  PROVE  OnlyCall(c) /\ CallInv(c)'
<1>0. Members(c) /\ Locking(c) /\ Accounting(c) /\ LocalTypes(c)
  BY InvAtCall
<1>1. /\ pc[c][t] = "locked" /\ at[c][t] < Count[c] /\ lock'[c] = NoThread
      /\ next'[c] = Smaller(at[c][t] + Grain[c], Count[c])
      /\ stop'[c] = [stop[c] EXCEPT ![t] = next'[c]]
      /\ pc'[c] = [pc[c] EXCEPT ![t] = "run"]
      /\ phase'[c] = phase[c]
      /\ owner'[c] = owner[c]
      /\ team'[c] = team[c]
      /\ at'[c] = at[c]
      /\ ran'[c] = ran[c]
  BY <1>0, SMTT(60) DEF IInv, LocalTypes, Claim, Enter, Place, TypeOK, cursorVars, callVars, loopVars, tlsVars
<1>2. OnlyCall(c)
  BY DEF IInv, Claim, Enter, Place, TypeOK, OnlyCall, Untouched, cursorVars, callVars, loopVars, tlsVars
<1>3. Members(c)'
  BY <1>0, <1>1 DEF Members, Parallel, LocalTypes
<1>4. Locking(c)'
  BY <1>0, <1>1, SMTT(60) DEF Locking, Members, Parallel, LocalTypes
<1>5. ASSUME NEW u \in Threads, NEW i \in Items(c)
      PROVE  Holds(c, u, i)' <=> Holds(c, u, i) \/ (u = t /\ i \in next[c] .. next'[c] - 1)
  BY <1>0, <1>1, SMTT(20) DEF Holds, Items, LocalTypes, Locking, Accounting, Ranges, Members, Parallel, Smaller
<1>6. Ranges(c)'
  BY <1>0, <1>1, SMTT(60) DEF Ranges, Accounting, Members, Locking, Parallel, LocalTypes, Smaller
<1>7. phase'[c] \in Parallel => Shared(c)'
  <2> SUFFICES ASSUME phase[c] \in Parallel, NEW i \in Items(c) PROVE Shared(c)!(i)'
    BY <1>1 DEF Shared
  <2>1. /\ at[c][t] = next[c] /\ next[c] <= next'[c] /\ next'[c] <= Count[c]
        /\ next[c] \in Nat /\ next'[c] \in Nat /\ i \in Nat
    BY <1>0, <1>1, SMTT(60) DEF Locking, LocalTypes, Smaller, Items
  <2>2. Shared(c)!(i)
    BY <1>0 DEF Accounting, Shared
  <2>3. ASSUME NEW u \in Threads PROVE Holds(c, u, i) => i < next[c]
    BY <1>0, SMTT(60) DEF Holds, Accounting, Ranges, LocalTypes, Items
  <2>4. ran'[c] = ran[c] /\ ran[c][i] \in Nat
    BY <1>0, <1>1 DEF LocalTypes
  <2>5. ASSUME NEW u \in Threads
        PROVE  Holds(c, u, i)' <=> Holds(c, u, i) \/ (u = t /\ next[c] <= i /\ i < next'[c])
    BY <1>5, <2>1
  <2> QED
    BY <2>1, <2>2, <2>3, <2>4, <2>5
<1>8. phase'[c] = "serial" => Serial(c)'
  BY <1>0, <1>1, SMTT(60) DEF Serial, Accounting, Members, Parallel, LocalTypes, Items
<1>9. Accounting(c)'
  BY <1>0, <1>1, <1>5, <1>6, <1>7, <1>8, SMTT(60) DEF Accounting, Parallel, Serial, Shared, Members, Locking, LocalTypes, Items
<1> QED
  BY <1>2, <1>3, <1>4, <1>9 DEF CallInv

LEMMA LeaveLoopInv ==
  ASSUME IInv, NEW c \in Calls, NEW t \in Threads, LeaveLoop(c, t)
  PROVE  OnlyCall(c) /\ CallInv(c)'
<1>0. Members(c) /\ Locking(c) /\ Accounting(c) /\ LocalTypes(c)
  BY InvAtCall
<1>1. /\ pc[c][t] = "locked" /\ at[c][t] >= Count[c] /\ lock'[c] = NoThread
      /\ at'[c] = [at[c] EXCEPT ![t] = 0]
      /\ \/ t = owner[c] /\ phase'[c] = "join" /\ pc'[c] = [pc[c] EXCEPT ![t] = "out"]
         \/ t # owner[c] /\ phase'[c] = phase[c] /\ pc'[c] = [pc[c] EXCEPT ![t] = "exited"]
      /\ owner'[c] = owner[c]
      /\ team'[c] = team[c]
      /\ next'[c] = next[c]
      /\ stop'[c] = stop[c]
      /\ ran'[c] = ran[c]
  BY <1>0 DEF IInv, LocalTypes, LeaveLoop, Enter, Place, TypeOK, cursorVars, callVars, loopVars, tlsVars
<1>2. OnlyCall(c)
  BY DEF IInv, LeaveLoop, Enter, Place, TypeOK, OnlyCall, Untouched, cursorVars, callVars, loopVars, tlsVars
<1>3. Members(c)'
  BY <1>0, <1>1 DEF Members, Parallel, LocalTypes
<1>4. Locking(c)'
  BY <1>0, <1>1, SMTT(60) DEF Locking, Members, Parallel, LocalTypes
<1>5. ASSUME NEW u \in Threads, NEW i \in Items(c)
      PROVE  Holds(c, u, i)' <=> Holds(c, u, i)
  BY <1>0, <1>1 DEF Holds, LocalTypes
<1>6. Ranges(c)'
  BY <1>0, <1>1, SMTT(60) DEF Ranges, Accounting, Members, Locking, Parallel, LocalTypes
<1>7. phase'[c] \in Parallel => Shared(c)'
  <2>1. phase[c] \in Parallel
    BY <1>0, <1>1, SMTT(60) DEF Members, Parallel, LocalTypes, Phases
  <2>2. Shared(c) /\ ran'[c] = ran[c] /\ next'[c] = next[c]
    BY <1>0, <1>1, <2>1 DEF Accounting
  <2> QED
    BY <1>5, <2>2 DEF Shared
<1>8. phase'[c] = "serial" => Serial(c)'
  BY <1>0, <1>1, SMTT(60) DEF Serial, Accounting, Members, Parallel, LocalTypes, Items
<1>9. Accounting(c)'
  BY <1>0, <1>1, <1>5, <1>6, <1>7, <1>8, SMTT(60) DEF Accounting, Parallel, Serial, Shared, Members, Locking, LocalTypes, Items
<1> QED
  BY <1>2, <1>3, <1>4, <1>9 DEF CallInv

LEMMA RunItemInv ==
  ASSUME IInv, NEW c \in Calls, NEW t \in Threads, RunItem(c, t)
  PROVE  OnlyCall(c) /\ CallInv(c)'
<1>0. Members(c) /\ Locking(c) /\ Accounting(c) /\ LocalTypes(c)
  BY InvAtCall
<1>1. /\ pc[c][t] = "run" /\ at[c][t] < stop[c][t]
      /\ ran'[c] = [ran[c] EXCEPT ![at[c][t]] = ran[c][at[c][t]] + 1]
      /\ at'[c] = [at[c] EXCEPT ![t] = at[c][t] + 1]
      /\ phase'[c] = phase[c]
      /\ owner'[c] = owner[c]
      /\ team'[c] = team[c]
      /\ next'[c] = next[c]
      /\ lock'[c] = lock[c]
      /\ pc'[c] = pc[c]
      /\ stop'[c] = stop[c]
  BY <1>0, SMTT(60) DEF IInv, LocalTypes, RunItem, Enter, Place, TypeOK, cursorVars, callVars, loopVars, tlsVars
<1>a. at[c][t] \in Items(c) /\ Holds(c, t, at[c][t])
  <2>1. at[c][t] \in Nat /\ stop[c][t] \in Nat /\ Count[c] \in Nat
    BY <1>0 DEF LocalTypes
  <2>2. stop[c][t] <= Count[c]
    BY <1>0, <1>1 DEF Accounting, Ranges
  <2> QED
    BY <1>1, <2>1, <2>2 DEF Holds, Items
<1>2. OnlyCall(c)
  BY DEF IInv, RunItem, Enter, Place, TypeOK, OnlyCall, Untouched, cursorVars, callVars, loopVars, tlsVars
<1>3. Members(c)'
  BY <1>0, <1>1 DEF Members, Parallel, LocalTypes
<1>4. Locking(c)'
  BY <1>0, <1>1, SMTT(60) DEF Locking, Members, Parallel, LocalTypes
<1>5. ASSUME NEW u \in Threads, NEW i \in Items(c)
      PROVE  Holds(c, u, i)' <=> Holds(c, u, i) /\ ~(u = t /\ i = at[c][t])
  BY <1>0, <1>1 DEF Holds, LocalTypes
<1>6. Ranges(c)'
  BY <1>0, <1>1, SMTT(60) DEF Ranges, Accounting, Members, Locking, Parallel, LocalTypes
<1>7. phase'[c] \in Parallel => Shared(c)'
  <2> SUFFICES ASSUME phase[c] \in Parallel, NEW i \in Items(c) PROVE Shared(c)!(i)'
    BY <1>1 DEF Shared
  <2>1. Shared(c)!(i) /\ ran[c][i] \in Nat /\ at[c][t] \in Items(c) /\ Holds(c, t, at[c][t])
    BY <1>0, <1>a DEF Accounting, Shared, LocalTypes
  <2>2. CASE i = at[c][t]
    <3>1. ran'[c][i] = 1 /\ ran[c][i] = 0 /\ Holds(c, t, i)
      BY <1>0, <1>1, <2>1, <2>2 DEF LocalTypes
    <3>2. next'[c] = next[c] /\ i < next[c]
      BY <1>0, <1>1, <2>1, <2>2, <3>1, SMTT(60) DEF LocalTypes, Accounting, Ranges, Items
    <3>3. ASSUME NEW u \in Threads PROVE ~Holds(c, u, i)'
      BY <1>5, <2>1, <2>2, <3>1
    <3> QED
      BY <1>0, <3>1, <3>2, <3>3 DEF LocalTypes, Items
  <2>3. CASE i # at[c][t]
    <3>1. ran'[c][i] = ran[c][i] /\ next'[c] = next[c]
      BY <1>0, <1>1, <2>1, <2>3 DEF LocalTypes
    <3>2. ASSUME NEW u \in Threads PROVE Holds(c, u, i)' <=> Holds(c, u, i)
      BY <1>5, <2>3
    <3> QED
      BY <2>1, <3>1, <3>2
  <2> QED
    BY <2>2, <2>3
<1>8. phase'[c] = "serial" => Serial(c)'
  <2> SUFFICES ASSUME phase[c] = "serial" PROVE Serial(c)'
    BY <1>1
  <2>1. t = owner[c] /\ owner'[c] = t /\ Serial(c) /\ at[c][t] \in Items(c)
    BY <1>0, <1>1, <1>a DEF Members, Parallel, Accounting
  <2>2. at'[c][t] = at[c][t] + 1 /\ stop'[c][t] = stop[c][t]
    BY <1>0, <1>1 DEF LocalTypes
  <2>3. ASSUME NEW i \in Items(c) PROVE ran'[c][i] = IF i < at'[c][t] THEN 1 ELSE 0
    <3>1. i \in Nat /\ at[c][t] \in Nat /\ ran[c] \in [Items(c) -> Nat]
      BY <1>0 DEF LocalTypes, Items
    <3>2. ran[c][i] = IF i < at[c][t] THEN 1 ELSE 0
      BY <2>1 DEF Serial
    <3>3. CASE i = at[c][t]
      BY <1>1, <2>2, <3>1, <3>2, <3>3
    <3>4. CASE i # at[c][t]
      BY <1>1, <2>2, <3>1, <3>2, <3>4
    <3> QED
      BY <3>3, <3>4
  <2> QED
    BY <2>1, <2>2, <2>3 DEF Serial
<1>9. Accounting(c)'
  BY <1>0, <1>1, <1>5, <1>6, <1>7, <1>8, SMTT(60) DEF Accounting, Parallel, Serial, Shared, Members, Locking, LocalTypes, Items
<1> QED
  BY <1>2, <1>3, <1>4, <1>9 DEF CallInv

LEMMA FinishRangeInv ==
  ASSUME IInv, NEW c \in Calls, NEW t \in Threads, FinishRange(c, t)
  PROVE  OnlyCall(c) /\ CallInv(c)'
<1>0. Members(c) /\ Locking(c) /\ Accounting(c) /\ LocalTypes(c)
  BY InvAtCall
<1>1. /\ pc[c][t] = "run" /\ at[c][t] = stop[c][t]
      /\ \/ phase[c] = "serial" /\ phase'[c] = "done" /\ pc'[c] = [pc[c] EXCEPT ![t] = "out"]
         \/ phase[c] # "serial" /\ phase'[c] = phase[c] /\ pc'[c] = [pc[c] EXCEPT ![t] = "loop"]
      /\ at'[c] = [at[c] EXCEPT ![t] = 0]
      /\ stop'[c] = [stop[c] EXCEPT ![t] = 0]
      /\ owner'[c] = owner[c]
      /\ team'[c] = team[c]
      /\ next'[c] = next[c]
      /\ lock'[c] = lock[c]
      /\ ran'[c] = ran[c]
  BY <1>0 DEF IInv, LocalTypes, FinishRange, Enter, Place, TypeOK, cursorVars, callVars, loopVars, tlsVars
<1>2. OnlyCall(c)
  BY DEF IInv, FinishRange, Enter, Place, TypeOK, OnlyCall, Untouched, cursorVars, callVars, loopVars, tlsVars
<1>3. Members(c)'
  BY <1>0, <1>1 DEF Members, Parallel, LocalTypes
<1>4. Locking(c)'
  BY <1>0, <1>1, SMTT(60) DEF Locking, Members, Parallel, LocalTypes
<1>5. ASSUME NEW u \in Threads, NEW i \in Items(c)
      PROVE  Holds(c, u, i)' <=> Holds(c, u, i)
  <2>1. CASE u = t
    <3>1. at[c][t] .. stop[c][t] - 1 = {}
      BY <1>0, <1>1 DEF LocalTypes
    <3>2. pc'[c][t] # "run"
      BY <1>0, <1>1 DEF LocalTypes
    <3> QED
      BY <2>1, <3>1, <3>2 DEF Holds
  <2>2. CASE u # t
    <3>1. pc'[c][u] = pc[c][u] /\ at'[c][u] = at[c][u] /\ stop'[c][u] = stop[c][u]
      BY <1>0, <1>1, <2>2 DEF LocalTypes
    <3> QED
      BY <3>1 DEF Holds
  <2> QED
    BY <2>1, <2>2
<1>6. Ranges(c)'
  BY <1>0, <1>1, SMTT(60) DEF Ranges, Accounting, Members, Locking, Parallel, LocalTypes
<1>7. phase'[c] \in Parallel => Shared(c)'
  BY <1>0, <1>1, <1>5, SMTT(60) DEF Shared, Accounting, Members, Locking, Parallel, LocalTypes, Items
<1>8. phase'[c] = "serial" => Serial(c)'
  BY <1>0, <1>1, SMTT(60) DEF Serial, Accounting, Members, Parallel, LocalTypes, Items
<1>9. Accounting(c)'
  BY <1>0, <1>1, <1>5, <1>6, <1>7, <1>8, SMTT(60) DEF Accounting, Parallel, Serial, Shared, Members, Locking, LocalTypes, Items
<1> QED
  BY <1>2, <1>3, <1>4, <1>9 DEF CallInv

LEMMA JoinInv ==
  ASSUME IInv, NEW c \in Calls, Join(c)
  PROVE  OnlyCall(c) /\ CallInv(c)'
<1>0. Members(c) /\ Locking(c) /\ Accounting(c) /\ LocalTypes(c)
  BY InvAtCall
<1>1. /\ phase[c] = "join" /\ phase'[c] = "done" /\ team'[c] = {}
      /\ \A u \in team[c] : pc[c][u] = "exited"
      /\ pc'[c] = [t \in Threads |-> IF t \in team[c] THEN "out" ELSE pc[c][t]]
      /\ owner'[c] = owner[c]
      /\ next'[c] = next[c]
      /\ lock'[c] = lock[c]
      /\ at'[c] = at[c]
      /\ stop'[c] = stop[c]
      /\ ran'[c] = ran[c]
  BY <1>0, SMTT(60) DEF IInv, LocalTypes, Join, Enter, Place, TypeOK, cursorVars, callVars, loopVars, tlsVars
<1>2. OnlyCall(c)
  BY DEF IInv, Join, Enter, Place, TypeOK, OnlyCall, Untouched, cursorVars, callVars, loopVars, tlsVars
<1>3. \A t \in Threads : pc'[c][t] = "out" /\ pc[c][t] \in {"out", "exited"}
  <2> TAKE t \in Threads
  <2>1. t \notin team[c] => pc[c][t] = "out"
    BY <1>0, <1>1 DEF Members
  <2>2. t \in team[c] => pc[c][t] = "exited"
    BY <1>1
  <2>3. pc'[c][t] = IF t \in team[c] THEN "out" ELSE pc[c][t]
    BY <1>1
  <2> QED
    BY <2>1, <2>2, <2>3
<1>4. Members(c)'
  BY <1>1, <1>3 DEF Members, Parallel
<1>5. Locking(c)'
  BY <1>0, <1>1, <1>3 DEF Locking, LocalTypes
<1>6. ASSUME NEW i \in Items(c) PROVE ran'[c][i] = 1
  <2>1. \A t \in Threads : ~Holds(c, t, i)
    BY <1>3 DEF Holds
  <2>2. i < next[c]
    BY <1>0, <1>1 DEF Locking, LocalTypes, Items
  <2> QED
    BY <1>0, <1>1, <2>1, <2>2, SMTT(60) DEF Accounting, Shared, Parallel, LocalTypes
<1>7. Accounting(c)'
  BY <1>1, <1>3, <1>6 DEF Accounting, Ranges, Parallel
<1> QED
  BY <1>2, <1>4, <1>5, <1>7 DEF CallInv

-----------------------------------------------------------------------------
(***************************************************************************)
(* The invariant holds of every behaviour.                                 *)
(***************************************************************************)

LEMMA Preserved ==
  ASSUME IInv, NEW c \in Calls, OnlyCall(c), CallInv(c)', TypeOK'
  PROVE  IInv'
<1>1. ASSUME NEW d \in Calls PROVE CallInv(d)'
  <2>1. CASE d = c
    BY <2>1
  <2>2. CASE d # c
    BY <2>2, Frame DEF IInv, OnlyCall
  <2> QED
    BY <2>1, <2>2
<1> QED
  BY <1>1 DEF IInv

LEMMA InvStep == IInv /\ [Next]_vars => IInv'
<1> SUFFICES ASSUME IInv, [Next]_vars PROVE IInv'
  OBVIOUS
<1>0. TypeOK'
  BY TypeStep
<1>1. ASSUME NEW c \in Calls, NEW t \in Threads, CallStep(c, t) PROVE IInv'
  BY <1>0, <1>1, ReturnEmptyInv, RunSeriallyInv, ForkInv, Preserved DEF CallStep
<1>2. ASSUME NEW c \in Calls, NEW t \in Threads, WorkerStep(c, t) PROVE IInv'
  BY <1>0, <1>2, LockInv, ClaimInv, LeaveLoopInv, RunItemInv, FinishRangeInv, Preserved
  DEF WorkerStep
<1>3. ASSUME NEW c \in Calls, JoinInWork(c) \/ Join(c) PROVE IInv'
  BY <1>0, <1>3, JoinInWorkInv, JoinInv, Preserved
<1>4. ASSUME NEW c \in Calls, NEW u \in Threads, Spawn(c, u) PROVE IInv'
  BY <1>0, <1>4, SpawnInv, Preserved
<1>5. CASE UNCHANGED vars
  <2>1. ASSUME NEW c \in Calls PROVE Untouched(c)
    BY <1>5, SMTT(60) DEF vars, callVars, cursorVars, loopVars, Untouched
  <2> QED
    BY <1>0, <2>1, Frame DEF IInv
<1> QED
  BY <1>1, <1>2, <1>3, <1>4, <1>5 DEF Next, Progress

\* The conjunction TypeOK and, call by call, the account of its threads, its
\* mutex and its items is an invariant of the runtime.
THEOREM Invariance == Spec => []IInv
<1>1. Init => IInv
  BY InitInv
<1>2. IInv /\ [Next]_vars => IInv'
  BY InvStep
<1> QED
  BY <1>1, <1>2, PTL DEF Spec, SafetySpec

\* Every variable keeps its type, and no cursor passes the end of its call:
\* fa_parallel_for never hands out a slot beyond the output array.
THEOREM TypeCorrect == Spec => []TypeOK
<1>1. IInv => TypeOK
  BY DEF IInv
<1> QED
  BY <1>1, Invariance, PTL

LEMMA Disjoint == IInv => ClaimsDisjoint
  <1> SUFFICES ASSUME IInv, NEW c \in Calls, NEW i \in Items(c)
               PROVE  /\ ran[c][i] <= 1
                      /\ ran[c][i] = 1 => \A t \in Threads : ~Holds(c, t, i)
                      /\ \A t, u \in Threads : Holds(c, t, i) /\ Holds(c, u, i) => t = u
    BY DEF ClaimsDisjoint
  <1>0. Members(c) /\ Accounting(c) /\ LocalTypes(c)
    BY InvAtCall
  <1>1. CASE phase[c] \in {"idle", "done"}
    <2>1. \A t \in Threads : ~Holds(c, t, i)
      BY <1>0, <1>1 DEF Members, Parallel, Holds
    <2> QED
      BY <1>0, <1>1, <2>1 DEF Accounting
  <1>2. CASE phase[c] = "serial"
    <2>1. \A t \in Threads : Holds(c, t, i) => t = owner[c]
      BY <1>0, <1>2 DEF Members, Parallel, Holds
    <2>2. Holds(c, owner[c], i) => ran[c][i] = 0
      BY <1>0, <1>2, SMTT(60) DEF Accounting, Serial, Holds, LocalTypes, Items, Members, Parallel
    <2>3. ran[c][i] <= 1
      BY <1>0, <1>2 DEF Accounting, Serial
    <2> QED
      BY <2>1, <2>2, <2>3
  <1>3. CASE phase[c] \in Parallel
    <2>1. Shared(c)!(i)
      BY <1>0, <1>3 DEF Accounting, Shared
    <2>2. ran[c][i] <= 1
      BY <1>0, <2>1 DEF LocalTypes, Items
    <2> QED
      BY <2>1, <2>2
  <1> QED
    BY <1>0, <1>1, <1>2, <1>3 DEF LocalTypes, Phases, Parallel

\* No item runs twice and none is claimed by two threads at once, whatever the
\* tree of calls, the number of threads and the failures of pthread_create.
THEOREM ClaimsAreDisjoint == Spec => []ClaimsDisjoint
BY Disjoint, Invariance, PTL

\* A call that has returned has run every item once, its mutex is free and no
\* thread is left in it.
THEOREM ReturnsAreComplete == Spec => []ReturnedCallsAreComplete
<1>1. IInv => ReturnedCallsAreComplete
  <2> SUFFICES ASSUME IInv, NEW c \in Calls, phase[c] = "done"
               PROVE  /\ \A i \in Items(c) : ran[c][i] = 1
                      /\ lock[c] = NoThread
                      /\ \A t \in Threads : pc[c][t] = "out"
    BY DEF ReturnedCallsAreComplete
  <2>0. Members(c) /\ Locking(c) /\ Accounting(c) /\ LocalTypes(c)
    BY InvAtCall
  <2>1. \A t \in Threads : pc[c][t] = "out"
    BY <2>0 DEF Members, Parallel
  <2>2. lock[c] = NoThread
    BY <2>0, <2>1 DEF Locking, LocalTypes
  <2> QED
    BY <2>0, <2>1, <2>2 DEF Accounting
<1> QED
  BY <1>1, Invariance, PTL

-----------------------------------------------------------------------------
(***************************************************************************)
(* The runtime implements ForkJoin.                                        *)
(***************************************************************************)

LEMMA SameStatus ==
  ASSUME IInv, NEW c \in Calls, NEW p \in {"spawn", "work", "join"},
         phase[c] \in {"spawn", "work", "join"},
         phase' = [phase EXCEPT ![c] = p] \/ phase' = phase,
         UNCHANGED ran
  PROVE  UNCHANGED FJ!vars
BY DEF IInv, TypeOK, Status, FJ!vars

\* A call is made: by main, or by the item of a running call t is at.
LEMMA EnterImplements ==
  ASSUME IInv, NEW c \in Calls, NEW t \in Threads, NEW p \in {"done", "serial", "spawn"},
         Enter(c, t, p), p = "done" <=> Count[c] = 0, UNCHANGED ran
  PROVE  FJ!Begin(c)
<1>1. Status[c] = "idle"
  BY DEF Enter, Status
<1>2. \/ c = Root
      \/ \E d \in Calls : \E i \in Items(d) :
           Child[d][i] = c /\ Status[d] = "running" /\ ran[d][i] = 0
  <2>1. SUFFICES ASSUME NEW d \in Calls, pc[d][t] = "run", at[d][t] < stop[d][t],
                        Child[d][at[d][t]] = c
                 PROVE  \E i \in Items(d) :
                          Child[d][i] = c /\ Status[d] = "running" /\ ran[d][i] = 0
    BY DEF Enter, Reaches
  <2>2. Members(d) /\ Locking(d) /\ Accounting(d) /\ LocalTypes(d)
    BY InvAtCall
  <2>3. at[d][t] \in Items(d) /\ Holds(d, t, at[d][t])
    <3>1. at[d][t] \in Nat /\ stop[d][t] \in Nat /\ Count[d] \in Nat
      BY <2>2 DEF LocalTypes
    <3>2. stop[d][t] <= Count[d]
      BY <2>1, <2>2 DEF Accounting, Ranges
    <3> QED
      BY <2>1, <3>1, <3>2 DEF Holds, Items
  <2>4. phase[d] \in Parallel \/ (phase[d] = "serial" /\ t = owner[d])
    BY <2>1, <2>2 DEF Members, Parallel
  <2>5. Status[d] = "running"
    BY <2>4 DEF Status, Parallel
  <2>6. ran[d][at[d][t]] = 0
    <3>1. CASE phase[d] \in Parallel
      BY <2>2, <2>3, <3>1 DEF Accounting, Shared
    <3>2. CASE phase[d] = "serial" /\ t = owner[d]
      BY <2>2, <2>3, <3>2 DEF Accounting, Serial, LocalTypes
    <3> QED
      BY <2>4, <3>1, <3>2
  <2> QED
    BY <2>1, <2>3, <2>5, <2>6
<1>3. Status' = [Status EXCEPT ![c] = IF Count[c] = 0 THEN "done" ELSE "running"]
  BY DEF Enter, Status, IInv, TypeOK
<1> QED
  BY <1>1, <1>2, <1>3 DEF FJ!Begin, FJ!Items, Items

\* A call returns.
LEMMA ReturnImplements ==
  ASSUME IInv, IInv', NEW c \in Calls, phase[c] \notin {"idle", "done"},
         phase' = [phase EXCEPT ![c] = "done"], UNCHANGED ran
  PROVE  FJ!Return(c)
<1>1. Status[c] = "running" /\ Status' = [Status EXCEPT ![c] = "done"]
  BY DEF Status, IInv, TypeOK
<1>2. phase'[c] = "done"
  BY DEF IInv, TypeOK
<1>3. \A i \in Items(c) : ran[c][i] = 1
  BY <1>2 DEF IInv, CallInv, Accounting
<1> QED
  BY <1>1, <1>3 DEF FJ!Return, FJ!Items, Items

LEMMA RunItemImplements ==
  ASSUME IInv, NEW c \in Calls, NEW t \in Threads, RunItem(c, t)
  PROVE  \E i \in Items(c) : FJ!RunItem(c, i)
<1> DEFINE i == at[c][t]
<1>0. Members(c) /\ Accounting(c) /\ LocalTypes(c)
  BY InvAtCall
<1>1. i \in Items(c) /\ Holds(c, t, i)
  <2>1. i \in Nat /\ stop[c][t] \in Nat /\ Count[c] \in Nat
    BY <1>0 DEF LocalTypes
  <2>2. pc[c][t] = "run" /\ i < stop[c][t]
    BY DEF RunItem
  <2>3. stop[c][t] <= Count[c]
    BY <1>0, <2>2 DEF Accounting, Ranges
  <2> QED
    BY <2>1, <2>2, <2>3 DEF Holds, Items
<1>2. phase[c] \in Parallel \/ (phase[c] = "serial" /\ t = owner[c])
  BY <1>0, <1>1 DEF Members, Parallel, Holds
<1>3. Status[c] = "running" /\ Status' = Status
  BY <1>2, SMTT(60) DEF Status, Parallel, RunItem, callVars
<1>4. ran[c][i] = 0
  <2>1. CASE phase[c] \in Parallel
    BY <1>0, <1>1, <2>1 DEF Accounting, Shared
  <2>2. CASE phase[c] = "serial" /\ t = owner[c]
    BY <1>0, <1>1, <2>2 DEF Accounting, Serial, LocalTypes
  <2> QED
    BY <1>2, <2>1, <2>2
<1>5. ran' = [ran EXCEPT ![c][i] = 1]
  BY <1>4 DEF RunItem
<1>6. Child[c][i] # NoCall => Status[Child[c][i]] = "done"
  <2> SUFFICES ASSUME Child[c][i] # NoCall PROVE Status[Child[c][i]] = "done"
    OBVIOUS
  <2>1. Child[c][i] \in Calls
    BY <1>1, CallTreeAssumption
  <2>2. phase[Child[c][i]] = "done"
    BY DEF RunItem
  <2> QED
    BY <2>1, <2>2 DEF Status
<1> QED
  BY <1>1, <1>3, <1>4, <1>5, <1>6 DEF FJ!RunItem

LEMMA StepImplements == IInv /\ IInv' /\ [Next]_vars => [FJ!Next]_FJ!vars
<1> SUFFICES ASSUME IInv, IInv', [Next]_vars PROVE FJ!Next \/ UNCHANGED FJ!vars
  OBVIOUS
<1> USE DEF callVars, cursorVars, loopVars, tlsVars
<1>1. ASSUME NEW c \in Calls, NEW t \in Threads, CallStep(c, t) PROVE FJ!Begin(c)
  <2>1. ASSUME NEW p \in {"done", "serial", "spawn"}, Enter(c, t, p), UNCHANGED ran,
               p = "done" <=> Count[c] = 0
        PROVE  FJ!Begin(c)
    BY <2>1, EnterImplements
  <2>2. CASE ReturnEmpty(c, t)
    BY <2>1, <2>2 DEF ReturnEmpty
  <2>3. CASE RunSerially(c, t)
    BY <2>1, <2>3 DEF RunSerially
  <2>4. CASE Fork(c, t)
    BY <2>1, <2>4 DEF Fork
  <2> QED
    BY <1>1, <2>2, <2>3, <2>4 DEF CallStep
<1>2. ASSUME NEW c \in Calls, NEW t \in Threads, RunItem(c, t)
      PROVE  \E i \in Items(c) : FJ!RunItem(c, i)
  BY <1>2, RunItemImplements
<1>3. ASSUME NEW c \in Calls, NEW t \in Threads, Lock(c, t) \/ Claim(c, t)
      PROVE  UNCHANGED FJ!vars
  BY <1>3, SMTT(60) DEF Lock, Claim, FJ!vars, Status
<1>4. ASSUME NEW c \in Calls, NEW t \in Threads, LeaveLoop(c, t) PROVE UNCHANGED FJ!vars
  <2>1. CASE t = owner[c] /\ phase' = [phase EXCEPT ![c] = "join"]
    <3>1. phase[c] \in Parallel
      BY <1>4, InvAtCall, SMTT(60) DEF LeaveLoop, Members, Parallel, LocalTypes, Phases
    <3> QED
      BY <1>4, <2>1, <3>1, SameStatus DEF LeaveLoop, Parallel
  <2>2. CASE UNCHANGED phase
    BY <1>4, <2>2 DEF LeaveLoop, FJ!vars, Status
  <2> QED
    BY <1>4, <2>1, <2>2 DEF LeaveLoop
<1>5. ASSUME NEW c \in Calls, NEW t \in Threads, FinishRange(c, t)
      PROVE  FJ!Return(c) \/ UNCHANGED FJ!vars
  <2>1. CASE phase[c] = "serial" /\ phase' = [phase EXCEPT ![c] = "done"]
    BY <1>5, <2>1, ReturnImplements DEF FinishRange
  <2>2. CASE UNCHANGED phase
    BY <1>5, <2>2 DEF FinishRange, FJ!vars, Status
  <2> QED
    BY <1>5, <2>1, <2>2 DEF FinishRange
<1>6. ASSUME NEW c \in Calls, JoinInWork(c) PROVE UNCHANGED FJ!vars
  BY <1>6, SameStatus DEF JoinInWork
<1>7. ASSUME NEW c \in Calls, Join(c) PROVE FJ!Return(c)
  BY <1>7, ReturnImplements DEF Join
<1>8. ASSUME NEW c \in Calls, NEW u \in Threads, Spawn(c, u) PROVE UNCHANGED FJ!vars
  BY <1>8 DEF Spawn, FJ!vars, Status
<1>9. CASE UNCHANGED vars
  BY <1>9 DEF vars, FJ!vars, Status
<1> QED
  BY <1>1, <1>2, <1>3, <1>4, <1>5, <1>6, <1>7, <1>8, <1>9
  DEF Next, Progress, WorkerStep, FJ!Next, FJ!Items, Items

\* Every behaviour of the runtime is a behaviour of ForkJoin: the safety half of
\* ImplementsForkJoin (its liveness is beyond the prover and model-checked).
THEOREM ImplementsForkJoinSafety == Spec => FJ!SafetySpec
<1>1. Init => FJ!Init
  BY DEF Init, FJ!Init, Status, FJ!Items, Items
<1>2. IInv /\ IInv' /\ [Next]_vars => [FJ!Next]_FJ!vars
  BY StepImplements
<1> QED
  BY <1>1, <1>2, Invariance, PTL DEF Spec, SafetySpec, FJ!SafetySpec
-----------------------------------------------------------------------------
(***************************************************************************)
(* The thread budget.  The open calls are a tree: every call but the root  *)
(* was made by a thread that waits for it.  The invariant gives every call *)
(* of the tree a level and numbers the threads it may use, the numbers of  *)
(* a call within those of the thread that makes it, so that the threads    *)
(* alive have different numbers below `available'.  Levels and numbers are *)
(* bound by quantifiers: no variable of the model holds them.              *)
(***************************************************************************)

\* A call that has not returned, and the threads that are in it.
Open(c) == phase[c] \notin {"idle", "done"}
Crew(c) == team[c] \cup {owner[c]}
Within(c, t) == Open(c) /\ t \in Crew(c)

\* Thread t of call p is at an item that makes call d, and d has not returned.
AtItem(p, t, d)   == pc[p][t] = "run" /\ at[p][t] < stop[p][t] /\ Child[p][at[p][t]] = d
WaitsFor(p, t, d) == AtItem(p, t, d) /\ Open(d)
Waits(p, t)       == \E d \in Calls : WaitsFor(p, t, d)

\* The open calls are a tree, lv[c] the level of call c in it: a call that is
\* not the root was made by a thread that waits for it, and of the calls a
\* thread is in, it waits in all but the innermost.
RootFirst == phase[Root] = "idle" => \A c \in Calls : phase[c] = "idle"
Asked ==
  \A d \in Calls : Open(d) /\ d # Root => \E p \in Calls, t \in Threads : WaitsFor(p, t, d)
Levels(lv) ==
  \A p, d \in Calls, t \in Threads : WaitsFor(p, t, d) => owner[d] = t /\ lv[d] = lv[p] + 1
OneInnermost(lv) ==
  \A c, d \in Calls, t \in Threads : c # d /\ Within(c, t) /\ Within(d, t) =>
    lv[c] # lv[d] /\ (lv[c] < lv[d] => Waits(c, t))
TreeInv(lv) == RootFirst /\ Asked /\ Levels(lv) /\ OneInnermost(lv)

\* v is the limit that the loops in S leave: the smallest share, 0 for none.
IsLimit(v, S) ==
  \/ v = 0 /\ \A x \in S : share[x] = 0
  \/ /\ v > 0
     /\ \E x \in S : share[x] = v
     /\ \A x \in S : share[x] = 0 \/ share[x] >= v

\* The thread-local state of t follows from the loops it is in, and what a loop
\* saved from the loops around it.
ForsOf(t) == {c \in LoopsOf(t) : Kind[c] = "for"}
Outer(lv, c, t) == {x \in LoopsOf(t) : lv[x] < lv[c]}
Locals(lv, t) ==
  /\ IsFiniteSet(LoopsOf(t))
  /\ depth[t] = Cardinality(ForsOf(t))
  /\ IsLimit(limit[t], LoopsOf(t))
  /\ \A c \in LoopsOf(t) : IsLimit(saved[c][t], Outer(lv, c, t))
Shares(c) ==
  /\ phase[c] \in Parallel => share[c] >= 0 /\ (Kind[c] = "tasks" => share[c] >= 1)
  /\ phase[c] = "spawn" /\ limit[owner[c]] > 0 => 0 < share[c] /\ share[c] <= limit[owner[c]]
LocalsInv(lv) == (\A t \in Threads : Locals(lv, t)) /\ \A c \in Calls : Shares(c)

\* The threads a call may use are numbered: those of call c are rm[c] numbers
\* from lo[c] on, of which each thread of its crew gets as many as a call it
\* makes may use, thread t from from[c][t] on and the owner the first.
Unit(rm, c) ==
  IF phase[c] = "serial" THEN rm[c] ELSE IF Kind[c] = "for" THEN 1 ELSE share[c]
Apart(lo, rm, c, d) == lo[c] + rm[c] <= lo[d] \/ lo[d] + rm[d] <= lo[c]
Below(lv, lo, rm, d, c) ==
  \E v \in Threads, e \in Calls :
    WaitsFor(c, v, e) /\ lo[e] <= lo[d] /\ lo[d] + rm[d] <= lo[e] + rm[e] /\ lv[c] < lv[d]
Placed(lo, rm, from, c) ==
  /\ lo[c] >= 0 /\ rm[c] >= 1 /\ lo[c] + rm[c] <= available
  /\ from[c][owner[c]] = lo[c]
  /\ \A u \in Crew(c) : lo[c] <= from[c][u] /\ from[c][u] + Unit(rm, c) <= lo[c] + rm[c]
  /\ \A u, v \in Crew(c) : u # v =>
       from[c][u] + Unit(rm, c) <= from[c][v] \/ from[c][v] + Unit(rm, c) <= from[c][u]
\* No call gets less than the thread that makes it may use.
Enough(lv, rm, c) ==
  \/ rm[c] >= available
  \/ \E q \in LoopsOf(owner[c]) : lv[q] < lv[c] /\ (Kind[q] = "for" \/ share[q] <= rm[c])
\* While it spawns, the numbers after those of its crew are left.
Unused(lo, rm, from, c) ==
  /\ width[c] * Unit(rm, c) <= rm[c]
  /\ Cardinality(team[c]) + 1 <= width[c]
  /\ \A u \in Crew(c) :
       from[c][u] + Unit(rm, c) <= lo[c] + (Cardinality(team[c]) + 1) * Unit(rm, c)
Handed(lo, rm, from) ==
  \A c, e \in Calls, v \in Threads : WaitsFor(c, v, e) => lo[e] = from[c][v] /\ rm[e] = Unit(rm, c)
Nested(lv, lo, rm) ==
  \A c, d \in Calls : c # d /\ Open(c) /\ Open(d) =>
    Apart(lo, rm, c, d) \/ Below(lv, lo, rm, c, d) \/ Below(lv, lo, rm, d, c)
RoomInv(lv, lo, rm, from) ==
  /\ \A c \in Calls : Open(c) => Placed(lo, rm, from, c) /\ Enough(lv, rm, c)
  /\ \A c \in Calls : phase[c] = "spawn" => Unused(lo, rm, from, c)
  /\ Handed(lo, rm, from)
  /\ Nested(lv, lo, rm)

Numbering(lv, lo, rm, from) ==
  /\ lv \in [Calls -> Int] /\ lo \in [Calls -> Int] /\ rm \in [Calls -> Int]
  /\ from \in [Calls -> [Threads -> Int]]
NInv(lv, lo, rm, from) ==
  /\ Numbering(lv, lo, rm, from)
  /\ TreeInv(lv) /\ LocalsInv(lv) /\ RoomInv(lv, lo, rm, from)
NestInv == \E lv, lo, rm, from : NInv(lv, lo, rm, from)
-----------------------------------------------------------------------------
\* Who is in a call's loop is in its crew.
LEMMA RunnersAreWithin ==
  ASSUME IInv, NEW c \in Calls, NEW t \in Threads, pc[c][t] # "out"
  PROVE  Within(c, t) /\ (t \in team[c] \/ (t = owner[c] /\ phase[c] \in {"serial", "work"}))
BY InvAtCall DEF Members, Parallel, Within, Open, Crew

LEMMA AtItemFacts ==
  ASSUME IInv, NEW p \in Calls, NEW t \in Threads, NEW d \in Calls, AtItem(p, t, d)
  PROVE  /\ at[p][t] \in Items(p) /\ Holds(p, t, at[p][t]) /\ Child[p][at[p][t]] = d
         /\ Within(p, t) /\ d # Root /\ pc[p][t] = "run"
<1>1. Members(p) /\ Accounting(p) /\ LocalTypes(p)
  BY InvAtCall
<1>2. /\ pc[p][t] = "run" /\ at[p][t] < stop[p][t] /\ stop[p][t] <= Count[p]
      /\ at[p][t] \in Nat /\ stop[p][t] \in Nat /\ Count[p] \in Nat /\ Child[p][at[p][t]] = d
  BY <1>1 DEF AtItem, Accounting, Ranges, LocalTypes
<1>3. at[p][t] \in Items(p) /\ Holds(p, t, at[p][t])
  BY <1>2 DEF Items, Holds
<1>4. d # Root
  BY <1>2, <1>3, CallTreeAssumption
<1> QED
  BY <1>2, <1>3, <1>4, RunnersAreWithin

\* A call has one caller: the tree gives it one item, and one thread has that.
LEMMA OneCaller ==
  ASSUME IInv, NEW p \in Calls, NEW q \in Calls, NEW t \in Threads, NEW u \in Threads,
         NEW d \in Calls, AtItem(p, t, d), AtItem(q, u, d)
  PROVE  p = q /\ t = u
<1>1. /\ at[p][t] \in Items(p) /\ Holds(p, t, at[p][t]) /\ Child[p][at[p][t]] = d
      /\ at[q][u] \in Items(q) /\ Holds(q, u, at[q][u]) /\ Child[q][at[q][u]] = d
  BY AtItemFacts
<1>2. p = q /\ at[p][t] = at[q][u]
  BY <1>1, CallTreeAssumption
<1> QED
  BY <1>1, <1>2, Disjoint DEF ClaimsDisjoint

\* An open call that an item makes has a thread at that item.
LEMMA AskedForItem ==
  ASSUME IInv, Asked, NEW p \in Calls, NEW i \in Items(p), NEW d \in Calls,
         Child[p][i] = d, Open(d)
  PROVE  \E t \in Threads : WaitsFor(p, t, d) /\ at[p][t] = i
<1>1. d # Root
  BY CallTreeAssumption
<1>2. PICK q \in Calls, t \in Threads : WaitsFor(q, t, d)
  BY <1>1 DEF Asked
<1>3. at[q][t] \in Items(q) /\ Child[q][at[q][t]] = d
  BY <1>2, AtItemFacts DEF WaitsFor
<1>4. p = q /\ at[q][t] = i
  BY <1>3, CallTreeAssumption
<1> QED
  BY <1>2, <1>4
-----------------------------------------------------------------------------
\* The root is the first call.
LEMMA RootFirstStep ==
  ASSUME IInv, RootFirst, Next
  PROVE  RootFirst'
<1> SUFFICES ASSUME phase'[Root] = "idle", NEW c \in Calls PROVE phase'[c] = "idle"
  BY DEF RootFirst
<1>0. Root \in Calls /\ phase \in [Calls -> Phases] /\ owner \in [Calls -> Threads \cup {NoThread}]
  BY CallTreeAssumption DEF IInv, TypeOK
<1>1. ASSUME NEW d \in Calls, NEW p \in Phases \ {"idle"}, phase' = [phase EXCEPT ![d] = p]
      PROVE  Root # d /\ phase[Root] = "idle" /\ phase[d] = "idle"
  BY <1>0, <1>1 DEF RootFirst
<1>2. ASSUME NEW d \in Calls, NEW t \in Threads, NEW p \in Phases \ {"idle"}, Enter(d, t, p)
      PROVE  FALSE
  <2>1. Root # d /\ phase[Root] = "idle"
    BY <1>1, <1>2 DEF Enter
  <2>2. PICK q \in Calls : AtItem(q, t, d)
    BY <1>2, <2>1 DEF Enter, Reaches, AtItem
  <2>3. phase[q] # "idle"
    BY <2>2, AtItemFacts DEF Within, Open
  <2> QED
    BY <2>1, <2>3 DEF RootFirst
<1>3. CASE UNCHANGED phase
  BY <1>3 DEF RootFirst
<1>4. ASSUME NEW d \in Calls, NEW t \in Threads, CallStep(d, t) PROVE FALSE
  BY <1>2, <1>4 DEF CallStep, ReturnEmpty, RunSerially, Fork, Phases
<1>5. ASSUME NEW d \in Calls, NEW t \in Threads, WorkerStep(d, t) PROVE phase'[c] = "idle"
  <2>1. CASE Lock(d, t) \/ Claim(d, t) \/ RunItem(d, t)
    BY <1>3, <2>1 DEF Lock, Claim, RunItem, callVars
  <2>2. CASE LeaveLoop(d, t)
    <3>1. pc[d][t] # "out" BY <2>2 DEF LeaveLoop
    <3>2. phase[d] # "idle" BY <3>1, RunnersAreWithin DEF Within, Open
    <3> QED BY <1>1, <1>3, <2>2, <3>2 DEF LeaveLoop, Phases
  <2>3. CASE FinishRange(d, t)
    BY <1>1, <1>3, <2>3 DEF FinishRange, Phases
  <2> QED
    BY <1>5, <2>1, <2>2, <2>3 DEF WorkerStep
<1>6. ASSUME NEW d \in Calls, JoinInWork(d) \/ Join(d) PROVE FALSE
  BY <1>1, <1>6 DEF JoinInWork, Join, Phases
<1>7. ASSUME NEW d \in Calls, NEW u \in Threads, Spawn(d, u) PROVE phase'[c] = "idle"
  BY <1>3, <1>7 DEF Spawn, callVars
<1> QED
  BY <1>4, <1>5, <1>6, <1>7 DEF Next, Progress

\* Owners are threads, and a call that waits has not returned.
LEMMA OpenCalls ==
  ASSUME IInv
  PROVE  /\ \A c \in Calls : Open(c) => owner[c] \in Threads /\ Crew(c) \subseteq Threads
         /\ \A p, d \in Calls, t \in Threads :
              WaitsFor(p, t, d) => Open(p) /\ Open(d) /\ Within(p, t) /\ AtItem(p, t, d)
<1>1. ASSUME NEW c \in Calls, Open(c) PROVE owner[c] \in Threads /\ Crew(c) \subseteq Threads
  BY <1>1, InvAtCall DEF Members, LocalTypes, Open, Crew, Phases, Parallel
<1>2. ASSUME NEW p \in Calls, NEW d \in Calls, NEW t \in Threads, WaitsFor(p, t, d)
      PROVE  Open(p) /\ Open(d) /\ Within(p, t) /\ AtItem(p, t, d)
  BY <1>2, AtItemFacts DEF WaitsFor, Within
<1> QED BY <1>1, <1>2

\* A step that leaves the tree of open calls as it is.
SameWaits == \A p, d \in Calls, t \in Threads : WaitsFor(p, t, d)' <=> WaitsFor(p, t, d)
SameLoops == \A t \in Threads : LoopsOf(t)' = LoopsOf(t)
SameCalls ==
  /\ UNCHANGED <<available, width, share>>
  /\ \A c \in Calls : /\ Open(c)' <=> Open(c)
                      /\ Open(c) => owner'[c] = owner[c] /\ team'[c] = team[c]
                      /\ Open(c) => (phase'[c] = "serial" <=> phase[c] = "serial")
                      /\ phase'[c] = "spawn" => phase[c] = "spawn"
  /\ SameWaits

LEMMA TreeKept ==
  ASSUME IInv, NEW lv, TreeInv(lv), RootFirst', SameCalls
  PROVE  TreeInv(lv)'
<1>1. \A c \in Calls, t \in Threads : /\ Within(c, t)' <=> Within(c, t)
                                      /\ Waits(c, t)' <=> Waits(c, t)
  BY DEF Within, Waits, Crew, SameCalls, SameWaits
<1>2. Asked' BY DEF TreeInv, Asked, SameCalls, SameWaits
<1>3. Levels(lv)' BY DEF TreeInv, Levels, WaitsFor, SameCalls, SameWaits
<1>4. OneInnermost(lv)' BY <1>1 DEF TreeInv, OneInnermost
<1> QED BY <1>2, <1>3, <1>4 DEF TreeInv

LEMMA RoomKept ==
  ASSUME IInv, NEW lv, NEW lo, NEW rm, NEW from, RoomInv(lv, lo, rm, from), SameCalls,
         \A c \in Calls : Open(c) => Enough(lv, rm, c)'
  PROVE  RoomInv(lv, lo, rm, from)'
<1>1. \A c \in Calls : Open(c) => Unit(rm, c)' = Unit(rm, c) /\ Crew(c)' = Crew(c)
  BY DEF Unit, Crew, SameCalls
<1>2. ASSUME NEW c \in Calls, Open(c)' PROVE Placed(lo, rm, from, c)' /\ Enough(lv, rm, c)'
  <2>1. Open(c) BY <1>2 DEF SameCalls
  <2>2. Placed(lo, rm, from, c) BY <2>1 DEF RoomInv
  <2> QED BY <1>1, <2>1, <2>2 DEF Placed, SameCalls
<1>3. ASSUME NEW c \in Calls, phase'[c] = "spawn" PROVE Unused(lo, rm, from, c)'
  <2>1. phase[c] = "spawn" /\ Open(c) BY <1>3 DEF SameCalls, Open
  <2>2. Unused(lo, rm, from, c) BY <2>1 DEF RoomInv
  <2> QED BY <1>1, <2>1, <2>2 DEF Unused, SameCalls
<1>4. Handed(lo, rm, from)'
  <2>1. \A c, e \in Calls, v \in Threads : WaitsFor(c, v, e) => Open(c) BY OpenCalls
  <2> QED BY <1>1, <2>1 DEF RoomInv, Handed, SameCalls, SameWaits
<1>5. Nested(lv, lo, rm)' BY DEF RoomInv, Nested, Below, Apart, SameCalls, SameWaits
<1> QED BY <1>2, <1>3, <1>4, <1>5 DEF RoomInv

\* A step that leaves what thread u sees as it is.
LEMMA LocalsKept ==
  ASSUME NEW lv, NEW u \in Threads, Locals(lv, u), LoopsOf(u)' = LoopsOf(u), UNCHANGED share,
         limit'[u] = limit[u], depth'[u] = depth[u],
         \A x \in LoopsOf(u) : saved'[x][u] = saved[x][u]
  PROVE  Locals(lv, u)'
<1>1. ForsOf(u)' = ForsOf(u) /\ \A x \in LoopsOf(u) : Outer(lv, x, u)' = Outer(lv, x, u)
  BY DEF ForsOf, Outer
<1> QED BY <1>1 DEF Locals, IsLimit

\* A step that leaves the thread-local state as it is, too.
Quiet == SameCalls /\ SameLoops /\ UNCHANGED <<saved, limit, depth>>

LEMMA QuietKeeps ==
  ASSUME IInv, NEW lv, NEW lo, NEW rm, NEW from, NInv(lv, lo, rm, from), RootFirst', Quiet,
         \A c \in Calls : phase'[c] \in Parallel => phase[c] \in Parallel
  PROVE  NInv(lv, lo, rm, from)'
<1>1. TreeInv(lv)' BY TreeKept DEF NInv, Quiet
<1>2. LocalsInv(lv)'
  <2>1. \A t \in Threads : Locals(lv, t)'
    BY LocalsKept DEF NInv, LocalsInv, Quiet, SameCalls, SameLoops
  <2>2. ASSUME NEW c \in Calls PROVE Shares(c)'
    <3>1. Shares(c) /\ (phase'[c] = "spawn" => phase[c] = "spawn" /\ Open(c))
      BY DEF NInv, LocalsInv, Quiet, SameCalls, Open
    <3> QED BY <3>1 DEF Shares, Quiet, SameCalls
  <2> QED BY <2>1, <2>2 DEF LocalsInv
<1>3. ASSUME NEW c \in Calls, Open(c) PROVE Enough(lv, rm, c)'
  <2>1. owner[c] \in Threads /\ owner'[c] = owner[c] BY <1>3, OpenCalls DEF Quiet, SameCalls
  <2>2. LoopsOf(owner[c])' = LoopsOf(owner[c]) BY <2>1 DEF Quiet, SameLoops
  <2> QED BY <1>3, <2>1, <2>2 DEF NInv, RoomInv, Enough, Quiet, SameCalls
<1>4. RoomInv(lv, lo, rm, from)' BY <1>3, RoomKept DEF NInv, Quiet
<1> QED BY <1>1, <1>2, <1>4 DEF NInv, Numbering
-----------------------------------------------------------------------------
\* What a thread t has to offer to the call d it makes: a level n above those
\* of the calls it is in, and the r numbers from l on.
Clear(lo, rm, l, r, c) == lo[c] + rm[c] <= l \/ l + r <= lo[c]
Gives(lv, lo, rm, d, n, l, r, c) ==
  /\ lv[c] < n
  /\ \E v \in Threads :
       \/ AtItem(c, v, d)
       \/ \E e \in Calls : WaitsFor(c, v, e) /\ lo[e] <= l /\ l + r <= lo[e] + rm[e]
Seat(lv, lo, rm, from, d, t, n, l, r) ==
  /\ l >= 0 /\ r >= 1 /\ l + r <= available
  /\ \A c \in Calls : Open(c) => Clear(lo, rm, l, r, c) \/ Gives(lv, lo, rm, d, n, l, r, c)
  /\ \/ r >= available
     \/ \E q \in LoopsOf(t) : lv[q] < n /\ (Kind[q] = "for" \/ share[q] <= r)
  /\ \A c \in Calls : Within(c, t) => lv[c] < n /\ (Waits(c, t) \/ AtItem(c, t, d))
  /\ \A c \in Calls, u \in Threads : AtItem(c, u, d) =>
       u = t /\ n = lv[c] + 1 /\ l = from[c][u] /\ r = Unit(rm, c)
  /\ d # Root => \E c \in Calls, u \in Threads : AtItem(c, u, d)

EnterStep(d, t) ==
  /\ phase[d] = "idle"
  /\ \E st \in {"serial", "spawn"} : phase' = [phase EXCEPT ![d] = st]
  /\ owner' = [owner EXCEPT ![d] = t]
  /\ UNCHANGED <<available, team, saved, limit, depth>>
  /\ \A c \in Calls \ {d} : width'[c] = width[c] /\ share'[c] = share[c]
  /\ SameLoops
  /\ \A p, e \in Calls, u \in Threads :
       WaitsFor(p, u, e)' <=> WaitsFor(p, u, e) \/ (e = d /\ AtItem(p, u, d))

LEMMA Seated ==
  ASSUME IInv, TypeOK', NEW lv, NEW lo, NEW rm, NEW from, NInv(lv, lo, rm, from), RootFirst',
         NEW d \in Calls, NEW t \in Threads, EnterStep(d, t),
         NEW n \in Int, NEW l \in Int, NEW r \in Int, Seat(lv, lo, rm, from, d, t, n, l, r),
         NEW lv2, NEW lo2, NEW rm2, NEW from2,
         lv2 = [lv EXCEPT ![d] = n], lo2 = [lo EXCEPT ![d] = l], rm2 = [rm EXCEPT ![d] = r],
         from2 = [from EXCEPT ![d] = [u \in Threads |-> l]],
         Shares(d)', Unit(rm2, d)' <= r,
         phase'[d] = "spawn" => width'[d] * Unit(rm2, d)' <= r /\ 1 <= width'[d]
  PROVE  NInv(lv2, lo2, rm2, from2)'
<1>1. /\ lv2 \in [Calls -> Int] /\ lo2 \in [Calls -> Int] /\ rm2 \in [Calls -> Int]
      /\ from2 \in [Calls -> [Threads -> Int]]
      /\ lv2[d] = n /\ lo2[d] = l /\ rm2[d] = r /\ \A u \in Threads : from2[d][u] = l
      /\ \A c \in Calls : c # d => lv2[c] = lv[c] /\ lo2[c] = lo[c] /\ rm2[c] = rm[c]
                                   /\ from2[c] = from[c]
      /\ \A c \in Calls : lv[c] \in Int /\ lo[c] \in Int /\ rm[c] \in Int
                          /\ \A u \in Threads : from[c][u] \in Int
  BY DEF NInv, Numbering
<1>2. Unit(rm2, d)' <= r /\ (phase'[d] = "spawn" => width'[d] * Unit(rm2, d)' <= r /\ 1 <= width'[d])
  OBVIOUS
<1>3. /\ phase \in [Calls -> Phases] /\ owner \in [Calls -> Threads \cup {NoThread}]
      /\ ~Open(d) /\ team[d] = {} /\ d \in Calls
  BY InvAtCall DEF IInv, TypeOK, EnterStep, Open, Members, Parallel
<1>4. /\ phase'[d] \in {"serial", "spawn"} /\ owner'[d] = t /\ Open(d)'
      /\ \A c \in Calls : c # d => /\ phase'[c] = phase[c] /\ owner'[c] = owner[c]
                                   /\ share'[c] = share[c] /\ width'[c] = width[c]
                                   /\ (Open(c)' <=> Open(c)) /\ Crew(c)' = Crew(c)
      /\ Crew(d)' = {t} /\ team' = team /\ available' = available
  BY <1>3 DEF EnterStep, Open, Crew
<1>5. \A p, e \in Calls, u \in Threads :
        WaitsFor(p, u, e)' <=> WaitsFor(p, u, e) \/ (e = d /\ AtItem(p, u, d))
  BY DEF EnterStep
<1>6. \A p, e \in Calls, u \in Threads : WaitsFor(p, u, e) => p # d /\ e # d /\ Open(p) /\ Open(e)
  BY <1>3, OpenCalls
<1>7. \A p \in Calls, u \in Threads :
        AtItem(p, u, d) => p # d /\ Open(p) /\ u = t /\ n = lv[p] + 1 /\ l = from[p][u]
                           /\ r = Unit(rm, p)
  BY <1>3, AtItemFacts DEF Within, Seat
<1>8. TreeInv(lv2)'
  <2>1. Asked'
    <3>1. \A c \in Calls : c # d /\ Open(c)' /\ c # Root =>
            \E p \in Calls, u \in Threads : WaitsFor(p, u, c)'
      BY <1>4, <1>5 DEF NInv, TreeInv, Asked
    <3>2. d # Root => \E p \in Calls, u \in Threads : WaitsFor(p, u, d)'
      BY <1>5 DEF Seat
    <3> QED BY <3>1, <3>2 DEF Asked
  <2>2. Levels(lv2)'
    <3> SUFFICES ASSUME NEW p \in Calls, NEW e \in Calls, NEW u \in Threads, WaitsFor(p, u, e)'
                 PROVE  owner'[e] = u /\ lv2[e] = lv2[p] + 1
      BY DEF Levels
    <3>1. CASE WaitsFor(p, u, e)
      BY <1>1, <1>4, <1>6, <3>1 DEF NInv, TreeInv, Levels
    <3>2. CASE e = d /\ AtItem(p, u, d)
      BY <1>1, <1>4, <1>7, <3>2
    <3> QED BY <1>5, <3>1, <3>2
  <2>3. OneInnermost(lv2)'
    <3> SUFFICES ASSUME NEW c \in Calls, NEW e \in Calls, NEW u \in Threads, c # e,
                        Within(c, u)', Within(e, u)'
                 PROVE  lv2[c] # lv2[e] /\ (lv2[c] < lv2[e] => Waits(c, u)')
      BY DEF OneInnermost
    <3>0. \A x \in Calls : x # d => (Within(x, u)' <=> Within(x, u)) /\ (Waits(x, u) => Waits(x, u)')
      BY <1>4, <1>5 DEF Within, Waits
    <3>1. CASE c # d /\ e # d
      BY <1>1, <3>0, <3>1 DEF NInv, TreeInv, OneInnermost
    <3>2. ASSUME NEW x \in Calls, x # d, Within(x, u)', Within(d, u)'
          PROVE  lv2[x] < lv2[d] /\ Waits(x, u)'
      <4>1. u = t BY <1>4, <3>2 DEF Within
      <4>2. lv[x] < n /\ (Waits(x, t) \/ AtItem(x, t, d))
        BY <3>0, <3>2, <4>1 DEF Seat
      <4>3. AtItem(x, t, d) => Waits(x, t)' BY <1>5 DEF Waits
      <4> QED BY <1>1, <3>0, <3>2, <4>1, <4>2, <4>3
    <3>3. lv2[c] \in Int /\ lv2[e] \in Int BY <1>1
    <3> QED BY <3>1, <3>2, <3>3
  <2> QED BY <2>1, <2>2, <2>3 DEF TreeInv
<1>9. LocalsInv(lv2)'
  <2>1. \A u \in Threads : \A x \in LoopsOf(u) : Open(x) /\ x # d /\ x \in Calls
    BY <1>3, RunnersAreWithin DEF LoopsOf, Within
  <2>2. ASSUME NEW u \in Threads PROVE Locals(lv2, u)'
    <3>1. Locals(lv, u) BY DEF NInv, LocalsInv
    <3>2. LoopsOf(u)' = LoopsOf(u) BY DEF EnterStep, SameLoops
    <3>3. \A x \in LoopsOf(u) : share'[x] = share[x] /\ lv2[x] = lv[x] BY <1>1, <1>4, <2>1
    <3>4. /\ ForsOf(u)' = ForsOf(u) /\ depth' = depth /\ limit' = limit /\ saved' = saved
          /\ \A x \in LoopsOf(u) : Outer(lv2, x, u)' = Outer(lv, x, u)
      BY <3>2, <3>3 DEF ForsOf, Outer, EnterStep
    <3>5. ASSUME NEW S \in SUBSET LoopsOf(u), NEW v, IsLimit(v, S)
          PROVE  (v = 0 /\ \A x \in S : share'[x] = 0)
                 \/ (v > 0 /\ (\E x \in S : share'[x] = v) /\ \A x \in S : share'[x] = 0 \/ share'[x] >= v)
      BY <3>3, <3>5 DEF IsLimit
    <3>6. IsLimit(limit[u], LoopsOf(u))'
      <4>1. IsLimit(limit[u], LoopsOf(u)) /\ limit'[u] = limit[u] BY <3>1, <3>4 DEF Locals
      <4> DEFINE S == LoopsOf(u)
                 v == limit[u]
      <4>2. S \in SUBSET LoopsOf(u) /\ IsLimit(v, S) /\ S' = S /\ v' = v BY <3>2, <4>1
      <4> HIDE DEF S, v
      <4>3. (v = 0 /\ \A x \in S : share'[x] = 0)
            \/ (v > 0 /\ (\E x \in S : share'[x] = v) /\ \A x \in S : share'[x] = 0 \/ share'[x] >= v)
        BY <3>5, <4>2
      <4>4. IsLimit(v, S)' BY <4>2, <4>3 DEF IsLimit
      <4> QED BY <4>4 DEF S, v
    <3>7. ASSUME NEW x \in LoopsOf(u) PROVE IsLimit(saved[x][u], Outer(lv2, x, u))'
      <4>1. Outer(lv, x, u) \in SUBSET LoopsOf(u) BY DEF Outer
      <4> DEFINE S == Outer(lv, x, u)
                 v == saved[x][u]
      <4>2. S \in SUBSET LoopsOf(u) /\ IsLimit(v, S) /\ Outer(lv2, x, u)' = S /\ v' = v
        BY <3>1, <3>4, <4>1 DEF Locals
      <4> HIDE DEF S
      <4>3. (v = 0 /\ \A y \in S : share'[y] = 0)
            \/ (v > 0 /\ (\E y \in S : share'[y] = v) /\ \A y \in S : share'[y] = 0 \/ share'[y] >= v)
        BY <3>5, <4>2
      <4> QED BY <4>2, <4>3 DEF IsLimit
    <3> QED BY <3>1, <3>2, <3>4, <3>6, <3>7 DEF Locals
  <2>3. ASSUME NEW c \in Calls PROVE Shares(c)'
    <3>1. CASE c = d BY <3>1
    <3>2. CASE c # d
      BY <1>4, <3>2 DEF NInv, LocalsInv, Shares, EnterStep
    <3> QED BY <3>1, <3>2
  <2> QED BY <2>2, <2>3 DEF LocalsInv
<1>10. \A c \in Calls : c # d => Unit(rm2, c)' = Unit(rm, c) BY <1>1, <1>4 DEF Unit
<1>11. RoomInv(lv2, lo2, rm2, from2)'
  <2>1. ASSUME NEW c \in Calls, Open(c)' PROVE Placed(lo2, rm2, from2, c)' /\ Enough(lv2, rm2, c)'
    <3>1. CASE c # d
      <4>1. Placed(lo, rm, from, c) /\ Enough(lv, rm, c) /\ owner[c] \in Threads
        BY <1>4, <2>1, <3>1, OpenCalls DEF NInv, RoomInv
      <4>2. Placed(lo2, rm2, from2, c)'
        <5>1. /\ lo2[c] = lo[c] /\ rm2[c] = rm[c] /\ from2[c] = from[c] /\ owner'[c] = owner[c]
              /\ Unit(rm2, c)' = Unit(rm, c) /\ Crew(c)' = Crew(c) /\ available' = available
          BY <1>1, <1>4, <1>10, <3>1
        <5> QED BY <4>1, <5>1 DEF Placed
      <4>3. \A x \in LoopsOf(owner[c]) : x \in Calls /\ x # d
        BY <1>3, <4>1, RunnersAreWithin DEF LoopsOf, Within
      <4>4. Enough(lv2, rm2, c)'
        <5>1. owner'[c] = owner[c] /\ LoopsOf(owner[c])' = LoopsOf(owner[c]) /\ available' = available
          BY <1>4, <3>1, <4>1 DEF EnterStep, SameLoops
        <5>3. \A x \in LoopsOf(owner[c]) : lv2[x] = lv[x] /\ share'[x] = share[x]
          BY <1>1, <1>4, <4>3
        <5> QED BY <1>1, <3>1, <4>1, <5>1, <5>3 DEF Enough
      <4> QED BY <4>2, <4>4
    <3>2. CASE c = d
      <4>1. Placed(lo2, rm2, from2, d)'
        <5>1. l >= 0 /\ r >= 1 /\ l + r <= available BY DEF Seat
        <5>2. l + Unit(rm2, d)' <= l + r /\ Unit(rm2, d)' \in Int
          <6>1. Unit(rm2, d)' \in Int
            BY <1>1, <1>3 DEF Unit, TypeOK
          <6> QED BY <1>2, <6>1
        <5> QED BY <1>1, <1>4, <5>1, <5>2 DEF Placed
      <4>2. Enough(lv2, rm2, d)'
        <5>1. \A x \in LoopsOf(t) : x \in Calls /\ x # d
          BY <1>3, RunnersAreWithin DEF LoopsOf, Within
        <5>2. LoopsOf(t)' = LoopsOf(t) BY DEF EnterStep, SameLoops
        <5> QED BY <1>1, <1>4, <5>1, <5>2 DEF Enough, Seat
      <4> QED BY <3>2, <4>1, <4>2
    <3> QED BY <3>1, <3>2
  <2>2. ASSUME NEW c \in Calls, phase'[c] = "spawn" PROVE Unused(lo2, rm2, from2, c)'
    <3>1. CASE c # d
      <4>1. Unused(lo, rm, from, c) BY <1>4, <2>2, <3>1 DEF NInv, RoomInv
      <4> QED BY <1>1, <1>4, <1>10, <3>1, <4>1, ZenonT(60) DEF Unused
    <3>2. CASE c = d
      <4>1. Cardinality(team'[d]) = 0 BY <1>3, <1>4, FS_EmptySet
      <4>2. Unit(rm2, d)' \in Int /\ width'[d] \in Int
        BY <1>1, <1>3 DEF Unit, TypeOK
      <4>3. /\ lo2[d] = l /\ rm2[d] = r /\ Crew(d)' = {t} /\ from2[d][t] = l
            /\ width'[d] * Unit(rm2, d)' <= r /\ 1 <= width'[d]
        BY <1>1, <1>2, <1>4, <2>2, <3>2
      <4> DEFINE U == Unit(rm2, d)'
      <4>4. l + U <= l + (0 + 1) * U /\ U \in Int BY <4>2
      <4> HIDE DEF U
      <4> QED BY <3>2, <4>1, <4>2, <4>3, <4>4 DEF Unused, U
    <3> QED BY <3>1, <3>2
  <2>3. Handed(lo2, rm2, from2)'
    <3> SUFFICES ASSUME NEW c \in Calls, NEW e \in Calls, NEW v \in Threads, WaitsFor(c, v, e)'
                 PROVE  lo2[e] = from2[c][v] /\ rm2[e] = Unit(rm2, c)'
      BY DEF Handed
    <3>1. CASE WaitsFor(c, v, e)
      <4>1. c # d /\ e # d /\ lo[e] = from[c][v] /\ rm[e] = Unit(rm, c)
        BY <1>6, <3>1 DEF NInv, RoomInv, Handed
      <4> QED BY <1>1, <1>10, <4>1
    <3>2. CASE e = d /\ AtItem(c, v, d)
      BY <1>1, <1>7, <1>10, <3>2, ZenonT(60)
    <3> QED BY <1>5, <3>1, <3>2
  <2>4. Nested(lv2, lo2, rm2)'
    <3>1. ASSUME NEW c \in Calls, NEW e \in Calls, c # d, e # d, Below(lv, lo, rm, c, e)
          PROVE  Below(lv2, lo2, rm2, c, e)'
      BY <1>1, <1>5, <1>6, <3>1 DEF Below
    <3>2. ASSUME NEW c \in Calls, c # d, Open(c)
          PROVE  Apart(lo2, rm2, c, d) \/ Below(lv2, lo2, rm2, d, c)'
      <4>1. CASE Clear(lo, rm, l, r, c) BY <1>1, <3>2, <4>1 DEF Clear, Apart
      <4>2. CASE Gives(lv, lo, rm, d, n, l, r, c)
        <5>1. lv2[c] < lv2[d] BY <1>1, <3>2, <4>2 DEF Gives
        <5>2. PICK v \in Threads :
                \/ AtItem(c, v, d)
                \/ \E e \in Calls : WaitsFor(c, v, e) /\ lo[e] <= l /\ l + r <= lo[e] + rm[e]
          BY <4>2 DEF Gives
        <5>3. CASE AtItem(c, v, d)
          <6>1. WaitsFor(c, v, d)' BY <1>5, <5>3
          <6> QED BY <1>1, <5>1, <6>1 DEF Below
        <5>4. CASE \E e \in Calls : WaitsFor(c, v, e) /\ lo[e] <= l /\ l + r <= lo[e] + rm[e]
          <6>1. PICK e \in Calls : WaitsFor(c, v, e) /\ lo[e] <= l /\ l + r <= lo[e] + rm[e]
            BY <5>4
          <6>2. WaitsFor(c, v, e)' /\ e # d BY <1>5, <1>6, <6>1
          <6> QED BY <1>1, <5>1, <6>1, <6>2 DEF Below
        <5> QED BY <5>2, <5>3, <5>4
      <4> QED BY <3>2, <4>1, <4>2 DEF Seat
    <3>3. \A c \in Calls : Apart(lo2, rm2, c, d) <=> Apart(lo2, rm2, d, c) BY DEF Apart
    <3> SUFFICES ASSUME NEW c \in Calls, NEW e \in Calls, c # e, Open(c)', Open(e)'
                 PROVE  Apart(lo2, rm2, c, e) \/ Below(lv2, lo2, rm2, c, e)'
                        \/ Below(lv2, lo2, rm2, e, c)'
      BY DEF Nested, Apart
    <3>4. CASE c # d /\ e # d
      BY <1>1, <1>4, <3>1, <3>4 DEF NInv, RoomInv, Nested, Apart
    <3>5. CASE c = d BY <1>4, <3>2, <3>3, <3>5
    <3>6. CASE e = d BY <1>4, <3>2, <3>6
    <3> QED BY <3>4, <3>5, <3>6
  <2> QED BY <2>1, <2>2, <2>3, <2>4 DEF RoomInv
<1> QED BY <1>1, <1>8, <1>9, <1>11 DEF NInv, Numbering
-----------------------------------------------------------------------------
\* Whatever call a thread may make, it has a seat for it.
LEMMA SeatForCall ==
  ASSUME IInv, NEW lv, NEW lo, NEW rm, NEW from, NInv(lv, lo, rm, from),
         NEW d \in Calls, NEW t \in Threads, phase[d] = "idle", Reaches(d, t)
  PROVE  \E n, l, r \in Int : Seat(lv, lo, rm, from, d, t, n, l, r)
<1>0. /\ available \in Int /\ available >= 1 /\ ~Open(d)
      /\ \A c \in Calls : lv[c] \in Int /\ lo[c] \in Int /\ rm[c] \in Int /\ share[c] \in Int
                          /\ \A u \in Threads : from[c][u] \in Int
  BY ConstantTypes DEF IInv, TypeOK, NInv, Numbering, Open
<1>1. CASE d = Root /\ t = Main
  <2>1. \A c \in Calls : ~Open(c) BY <1>1 DEF NInv, TreeInv, RootFirst, Open
  <2>2. \A c \in Calls, u \in Threads : ~Within(c, u) /\ ~AtItem(c, u, d)
    BY <1>1, <2>1, AtItemFacts DEF Within
  <2>3. Seat(lv, lo, rm, from, d, t, 0, 0, available)
    BY <1>0, <1>1, <2>1, <2>2 DEF Seat
  <2>4. 0 \in Int OBVIOUS
  <2> HIDE DEF Seat
  <2> QED BY <1>0, <2>3, <2>4
<1>2. CASE \E p \in Calls : AtItem(p, t, d)
  <2>1. PICK p \in Calls : AtItem(p, t, d) BY <1>2
  <2> DEFINE n == lv[p] + 1
             l == from[p][t]
             r == Unit(rm, p)
  <2>2. Within(p, t) /\ Open(p) /\ pc[p][t] = "run" /\ t \in Crew(p)
    BY <2>1, AtItemFacts DEF Within
  <2>3. /\ Placed(lo, rm, from, p) /\ Enough(lv, rm, p) /\ Shares(p)
    BY <2>2 DEF NInv, RoomInv, LocalsInv
  <2>4. phase[p] = "serial" \/ phase[p] \in Parallel BY <2>2, RunnersAreWithin, InvAtCall
    DEF LocalTypes, Phases, Parallel, Open
  <2>5. r \in Int /\ r >= 1 /\ n \in Int /\ l \in Int
    <3>1. Kind[p] \in {"for", "tasks"} BY CallTreeAssumption
    <3>2. r \in Int /\ r >= 1
      BY <1>0, <2>3, <2>4, <3>1 DEF Unit, Placed, Shares, Parallel
    <3> QED BY <1>0, <3>2
  <2>6. l >= 0 /\ l + r <= available /\ lo[p] <= l /\ l + r <= lo[p] + rm[p]
    BY <1>0, <2>2, <2>3, <2>5 DEF Placed
  <2>7. r >= available \/ \E q \in LoopsOf(t) : lv[q] < n /\ (Kind[q] = "for" \/ share[q] <= r)
    <3>1. CASE phase[p] = "serial"
      <4>1. owner[p] = t /\ r = rm[p] /\ lv[p] \in Int
        BY <1>0, <2>2, <3>1, RunnersAreWithin, InvAtCall DEF Members, Parallel, Unit
      <4>2. \A q \in LoopsOf(t) : lv[q] \in Int BY <1>0 DEF LoopsOf
      <4> QED BY <2>3, <4>1, <4>2 DEF Enough
    <3>2. CASE phase[p] \in Parallel
      <4>1. p \in LoopsOf(t) /\ phase[p] # "serial" BY <2>2, <3>2 DEF LoopsOf, Parallel
      <4> QED BY <1>0, <4>1 DEF Unit
    <3> QED BY <2>4, <3>1, <3>2
  <2>8. \A c \in Calls, u \in Threads : AtItem(c, u, d) => c = p /\ u = t BY <2>1, OneCaller
  <2>9. \A e \in Calls : ~WaitsFor(p, t, e)
    BY <1>0, <2>1 DEF WaitsFor, AtItem
  <2>10. ASSUME NEW c \in Calls, Within(c, t)
         PROVE  lv[c] < n /\ (Waits(c, t) \/ AtItem(c, t, d))
    <3>1. CASE c = p BY <1>0, <2>1, <3>1
    <3>2. CASE c # p
      <4>1. lv[c] # lv[p] /\ (lv[c] < lv[p] => Waits(c, t)) /\ ~(lv[p] < lv[c])
        BY <2>2, <2>9, <2>10, <3>2 DEF NInv, TreeInv, OneInnermost, Waits
      <4> QED BY <1>0, <4>1
    <3> QED BY <3>1, <3>2
  <2>11. ASSUME NEW c \in Calls, Open(c)
         PROVE  Clear(lo, rm, l, r, c) \/ Gives(lv, lo, rm, d, n, l, r, c)
    <3>1. CASE c = p BY <1>0, <2>1, <3>1 DEF Gives
    <3>2. CASE c # p
      <4>0. /\ lv[c] \in Int /\ lo[c] \in Int /\ rm[c] \in Int
            /\ lv[p] \in Int /\ lo[p] \in Int /\ rm[p] \in Int
        BY <1>0
      <4>1. CASE Apart(lo, rm, c, p) BY <2>5, <2>6, <4>0, <4>1 DEF Apart, Clear
      <4>2. CASE Below(lv, lo, rm, p, c)
        <5>1. PICK v \in Threads, e \in Calls :
                WaitsFor(c, v, e) /\ lo[e] <= lo[p] /\ lo[p] + rm[p] <= lo[e] + rm[e] /\ lv[c] < lv[p]
          BY <4>2 DEF Below
        <5>2. lo[e] \in Int /\ rm[e] \in Int BY <1>0
        <5>3. lo[e] <= l /\ l + r <= lo[e] + rm[e] /\ lv[c] < n BY <2>5, <2>6, <4>0, <5>1, <5>2
        <5> QED BY <5>1, <5>3 DEF Gives
      <4>3. CASE Below(lv, lo, rm, c, p)
        <5>1. PICK v \in Threads, e \in Calls :
                WaitsFor(p, v, e) /\ lo[e] <= lo[c] /\ lo[c] + rm[c] <= lo[e] + rm[e]
          BY <4>3 DEF Below
        <5>2. v # t BY <2>9, <5>1
        <5>3. v \in Crew(p) BY <5>1, OpenCalls DEF Within
        <5>4. lo[e] = from[p][v] /\ rm[e] = r BY <5>1 DEF NInv, RoomInv, Handed
        <5>5. from[p][v] + r <= l \/ l + r <= from[p][v] BY <2>2, <2>3, <5>2, <5>3 DEF Placed
        <5>6. from[p][v] \in Int BY <1>0
        <5> QED BY <2>5, <4>0, <5>1, <5>4, <5>5, <5>6 DEF Clear
      <4> QED BY <2>2, <2>11, <3>2, <4>1, <4>2, <4>3 DEF NInv, RoomInv, Nested
    <3> QED BY <3>1, <3>2
  <2>12. Seat(lv, lo, rm, from, d, t, n, l, r)
    BY <2>1, <2>5, <2>6, <2>7, <2>8, <2>10, <2>11 DEF Seat
  <2> QED BY <2>5, <2>12
<1> QED BY <1>1, <1>2 DEF Reaches, AtItem

\* A thread that may fork is offered as many numbers as it may use threads.
LEMMA SeatIsEnough ==
  ASSUME IInv, NEW lv, NEW lo, NEW rm, NEW from, NInv(lv, lo, rm, from),
         NEW d \in Calls, NEW t \in Threads, NEW n \in Int, NEW l \in Int, NEW r \in Int,
         Seat(lv, lo, rm, from, d, t, n, l, r), depth[t] = 0
  PROVE  WorkerCount(t) <= r
<1>0. available \in Int /\ limit[t] \in Int /\ \A c \in Calls : share[c] \in Int
  BY ConstantTypes DEF IInv, TypeOK
<1>1. CASE r >= available BY <1>0, <1>1 DEF WorkerCount, Smaller
<1>2. CASE \E q \in LoopsOf(t) : Kind[q] = "for" \/ share[q] <= r
  <2>1. PICK q \in LoopsOf(t) : Kind[q] = "for" \/ share[q] <= r BY <1>2
  <2>2. Locals(lv, t) BY DEF NInv, LocalsInv
  <2>3. Kind[q] # "for"
    <3> SUFFICES ASSUME Kind[q] = "for" PROVE FALSE OBVIOUS
    <3>1. q \in ForsOf(t) /\ ForsOf(t) \in SUBSET LoopsOf(t) BY DEF ForsOf
    <3>2. IsFiniteSet(ForsOf(t)) BY <2>2, <3>1, FS_Subset DEF Locals
    <3> QED BY <2>2, <3>1, <3>2, FS_EmptySet DEF Locals
  <2>4. q \in Calls /\ phase[q] \in Parallel
    <3>1. q \in Calls /\ pc[q][t] # "out" /\ phase[q] # "serial" BY DEF LoopsOf
    <3> QED BY <3>1, RunnersAreWithin, InvAtCall DEF Within, Open, LocalTypes, Phases, Parallel
  <2>5. Kind[q] = "tasks" BY <2>3, <2>4, CallTreeAssumption
  <2>6. share[q] >= 1 /\ share[q] \in Int /\ share[q] <= r
    BY <1>0, <2>1, <2>3, <2>4, <2>5 DEF NInv, LocalsInv, Shares
  <2>7. IsLimit(limit[t], LoopsOf(t)) BY <2>2 DEF Locals
  <2>8. limit[t] > 0 /\ limit[t] <= share[q] BY <1>0, <2>6, <2>7 DEF IsLimit
  <2> QED BY <1>0, <2>6, <2>8 DEF WorkerCount, Smaller
<1> QED BY <1>1, <1>2 DEF Seat
-----------------------------------------------------------------------------
\* A call that begins changes who waits only at the item that makes it.
LEMMA EnterWaits ==
  ASSUME IInv, Asked, NEW d \in Calls, NEW t \in Threads, phase[d] = "idle", Reaches(d, t),
         OnlyCall(d), Open(d)', \A u \in Threads : pc'[d][u] = "run" => at'[d][u] \in Items(d)
  PROVE  \A p, e \in Calls, u \in Threads :
           WaitsFor(p, u, e)' <=> WaitsFor(p, u, e) \/ (e = d /\ AtItem(p, u, d))
<1>0. ~Open(d) /\ \A u \in Threads : pc[d][u] = "out"
  BY InvAtCall, RunnersAreWithin DEF Open, Within
<1>1. ASSUME NEW e \in Calls PROVE Open(e)' <=> Open(e) \/ e = d
  BY <1>0 DEF OnlyCall, Untouched, Open
<1> SUFFICES ASSUME NEW p \in Calls, NEW e \in Calls, NEW u \in Threads
             PROVE  WaitsFor(p, u, e)' <=> WaitsFor(p, u, e) \/ (e = d /\ AtItem(p, u, d))
  OBVIOUS
<1>2. CASE p # d
  <2>1. AtItem(p, u, e)' <=> AtItem(p, u, e) BY <1>2 DEF OnlyCall, Untouched, AtItem
  <2> QED BY <1>1, <2>1 DEF WaitsFor
<1>3. CASE p = d
  <2>1. ~AtItem(d, u, d) /\ ~WaitsFor(d, u, e) BY <1>0 DEF AtItem, WaitsFor
  <2>2. ASSUME WaitsFor(d, u, e)' PROVE FALSE
    <3> DEFINE i == at'[d][u]
    <3>1. i \in Items(d) /\ Child[d][i] = e BY <2>2 DEF WaitsFor, AtItem
    <3> HIDE DEF i
    <3>2. CASE e = d
      <4>1. d # Root BY <3>1, <3>2, CallTreeAssumption
      <4>2. PICK q \in Calls : AtItem(q, t, d) BY <4>1 DEF Reaches, AtItem
      <4>3. at[q][t] \in Items(q) /\ Child[q][at[q][t]] = d /\ pc[q][t] = "run"
        BY <4>2, AtItemFacts
      <4>4. q = d BY <3>1, <3>2, <4>3, CallTreeAssumption
      <4> QED BY <1>0, <4>3, <4>4
    <3>3. CASE e # d
      <4>1. Open(e) BY <1>1, <2>2, <3>3 DEF WaitsFor
      <4>2. PICK v \in Threads : WaitsFor(d, v, e) BY <3>1, <4>1, AskedForItem
      <4> QED BY <1>0, <4>2, OpenCalls
    <3> QED BY <3>2, <3>3
  <2> QED BY <1>3, <2>1, <2>2
<1> QED BY <1>2, <1>3

\* Only a step inside a call changes who is in its loop.
LEMMA LoopsElsewhere ==
  ASSUME NEW c \in Calls, OnlyCall(c),
         \A t \in Threads : (c \in LoopsOf(t))' <=> c \in LoopsOf(t)
  PROVE  SameLoops
<1> SUFFICES ASSUME NEW t \in Threads PROVE LoopsOf(t)' = LoopsOf(t)
  BY DEF SameLoops
<1>1. ASSUME NEW d \in Calls, d # c PROVE (d \in LoopsOf(t))' <=> d \in LoopsOf(t)
  BY <1>1 DEF OnlyCall, Untouched, LoopsOf
<1>2. (c \in LoopsOf(t))' <=> c \in LoopsOf(t) OBVIOUS
<1>3. LoopsOf(t) \subseteq Calls /\ LoopsOf(t)' \subseteq Calls BY DEF LoopsOf
<1>4. ASSUME NEW d \in Calls PROVE d \in LoopsOf(t)' <=> d \in LoopsOf(t)
  BY <1>1, <1>2
<1> QED BY <1>3, <1>4

LEMMA RunSeriallyNests ==
  ASSUME IInv, TypeOK', RootFirst', NEW lv, NEW lo, NEW rm, NEW from, NInv(lv, lo, rm, from),
         NEW d \in Calls, NEW t \in Threads, RunSerially(d, t)
  PROVE  NestInv'
<1>0. /\ phase[d] = "idle" /\ Reaches(d, t) /\ OnlyCall(d)
      /\ \A u \in Threads : pc[d][u] = "out"
  BY RunSeriallyInv, RunnersAreWithin DEF RunSerially, Enter, Within, Open
<1>1. /\ phase' = [phase EXCEPT ![d] = "serial"] /\ owner' = [owner EXCEPT ![d] = t]
      /\ UNCHANGED <<available, team, saved, limit, depth, width, share>>
      /\ phase'[d] = "serial" /\ Open(d)'
  BY DEF RunSerially, Enter, tlsVars, IInv, TypeOK, Open
<1>2. \A u \in Threads : pc'[d][u] = "run" => at'[d][u] \in Items(d)
  <2>1. at'[d][t] = 0 /\ \A u \in Threads : u # t => pc'[d][u] = "out"
    BY <1>0 DEF RunSerially, Place, IInv, TypeOK
  <2>2. 0 \in Items(d) BY ConstantTypes DEF RunSerially, Items
  <2> QED BY <2>1, <2>2
<1>3. EnterStep(d, t)
  <2>1. SameLoops BY <1>0, <1>1, LoopsElsewhere DEF LoopsOf
  <2>2. \A p, e \in Calls, u \in Threads :
          WaitsFor(p, u, e)' <=> WaitsFor(p, u, e) \/ (e = d /\ AtItem(p, u, d))
    BY <1>0, <1>1, <1>2, EnterWaits DEF NInv, TreeInv
  <2> QED BY <1>0, <1>1, <2>1, <2>2 DEF EnterStep
<1>4. PICK n, l, r \in Int : Seat(lv, lo, rm, from, d, t, n, l, r) BY <1>0, SeatForCall
<1> DEFINE lv2   == [lv EXCEPT ![d] = n]
           lo2   == [lo EXCEPT ![d] = l]
           rm2   == [rm EXCEPT ![d] = r]
           from2 == [from EXCEPT ![d] = [u \in Threads |-> l]]
<1>5. /\ lv2 = [lv EXCEPT ![d] = n] /\ lo2 = [lo EXCEPT ![d] = l] /\ rm2 = [rm EXCEPT ![d] = r]
      /\ from2 = [from EXCEPT ![d] = [u \in Threads |-> l]] /\ rm2[d] = r
  BY DEF NInv, Numbering
<1> HIDE DEF lv2, lo2, rm2, from2
<1>6. Shares(d)' BY <1>1 DEF Shares, Parallel
<1>7. Unit(rm2, d)' <= r BY <1>1, <1>5 DEF Unit
<1>8. phase'[d] # "spawn" BY <1>1
<1>9. NInv(lv2, lo2, rm2, from2)' BY <1>3, <1>4, <1>5, <1>6, <1>7, <1>8, Seated
<1> QED BY <1>9 DEF NestInv

\* The workers of a batch and what each of them may use come out of what the
\* caller may use.
LEMMA Division ==
  ASSUME NEW w \in Nat, NEW k \in Nat \ {0}, k <= w
  PROVE  w \div k \in Nat /\ w \div k >= 1 /\ w \div k <= w /\ k * (w \div k) <= w
<1>1. w \div k \in Nat OBVIOUS
<1>2. k * (w \div k) <= w /\ w < k * (w \div k) + k OBVIOUS
<1>3. w \div k >= 1
  <2> DEFINE x == w \div k
  <2>1. x \in Nat /\ (x = 0 => k * x = 0) BY <1>1
  <2>2. x # 0 BY <1>2, <2>1
  <2> QED BY <2>1, <2>2
<1>4. w \div k <= w
  <2> DEFINE x == w \div k
  <2>1. x \in Nat /\ k * x <= w BY <1>1, <1>2
  <2> HIDE DEF x
  <2>2. x <= k * x BY <2>1
  <2>3. x <= w BY <2>1, <2>2
  <2> QED BY <2>3 DEF x
<1> QED BY <1>1, <1>2, <1>3, <1>4
LEMMA ForkNests ==
  ASSUME IInv, TypeOK', RootFirst', NEW lv, NEW lo, NEW rm, NEW from, NInv(lv, lo, rm, from),
         NEW d \in Calls, NEW t \in Threads, Fork(d, t)
  PROVE  NestInv'
<1>0. /\ phase[d] = "idle" /\ Reaches(d, t) /\ OnlyCall(d)
      /\ \A u \in Threads : pc[d][u] = "out"
  BY ForkInv, RunnersAreWithin DEF Fork, Enter, Within, Open
<1>1. /\ phase' = [phase EXCEPT ![d] = "spawn"] /\ owner' = [owner EXCEPT ![d] = t]
      /\ UNCHANGED <<available, team, pc, at, saved, limit, depth>>
      /\ phase'[d] = "spawn" /\ Open(d)' /\ owner'[d] = t
      /\ \A c \in Calls \ {d} : width'[c] = width[c] /\ share'[c] = share[c]
  BY DEF Fork, Enter, tlsVars, loopVars, IInv, TypeOK, Open
<1>2. \A u \in Threads : pc'[d][u] = "run" => at'[d][u] \in Items(d) BY <1>0, <1>1
<1>3. EnterStep(d, t)
  <2>1. SameLoops BY <1>0, <1>1, LoopsElsewhere DEF LoopsOf
  <2>2. \A p, e \in Calls, u \in Threads :
          WaitsFor(p, u, e)' <=> WaitsFor(p, u, e) \/ (e = d /\ AtItem(p, u, d))
    BY <1>0, <1>1, <1>2, EnterWaits DEF NInv, TreeInv
  <2> QED BY <1>0, <1>1, <2>1, <2>2 DEF EnterStep
<1>4. PICK n, l, r \in Int : Seat(lv, lo, rm, from, d, t, n, l, r) BY <1>0, SeatForCall
<1> DEFINE lv2   == [lv EXCEPT ![d] = n]
           lo2   == [lo EXCEPT ![d] = l]
           rm2   == [rm EXCEPT ![d] = r]
           from2 == [from EXCEPT ![d] = [u \in Threads |-> l]]
           w == WorkerCount(t)
           k == width'[d]
<1>5. /\ lv2 = [lv EXCEPT ![d] = n] /\ lo2 = [lo EXCEPT ![d] = l] /\ rm2 = [rm EXCEPT ![d] = r]
      /\ from2 = [from EXCEPT ![d] = [u \in Threads |-> l]] /\ rm2[d] = r
  BY DEF NInv, Numbering
<1> HIDE DEF lv2, lo2, rm2, from2
<1>6. /\ w <= r /\ w \in Int /\ w > 1 /\ Units(d) > 1 /\ Units(d) \in Int /\ Kind[d] \in {"for", "tasks"}
      /\ share'[d] = IF Kind[d] = "for" THEN limit[t] ELSE Larger(1, w \div k)
      /\ k = Smaller(w, Units(d)) /\ limit[t] \in Int
  BY <1>4, SeatIsEnough, WorkerCountType, UnitsType, CallTreeAssumption DEF Fork, IInv, TypeOK
<1>7. k \in Nat \ {0} /\ k <= w /\ w \in Nat BY <1>6 DEF Smaller
<1>8. limit[t] >= 0 /\ (limit[t] > 0 => w <= limit[t])
  <2>1. limit[t] >= 0 BY <1>6 DEF NInv, LocalsInv, Locals, IsLimit
  <2>2. available \in Int BY ConstantTypes DEF IInv, TypeOK
  <2> QED BY <1>6, <2>1, <2>2 DEF WorkerCount, Smaller
<1> HIDE DEF w, k
<1>9. /\ share'[d] \in Int /\ share'[d] >= 0
      /\ Kind[d] = "tasks" => 1 <= share'[d] /\ share'[d] <= w /\ k * share'[d] <= w
  <2>1. w \div k \in Nat /\ w \div k >= 1 /\ w \div k <= w /\ k * (w \div k) <= w
    BY <1>7, Division
  <2>2. Larger(1, w \div k) = w \div k BY <2>1 DEF Larger
  <2> QED BY <1>6, <1>8, <2>1, <2>2
<1>10. Unit(rm2, d)' = IF Kind[d] = "for" THEN 1 ELSE share'[d] BY <1>1 DEF Unit
<1>11. Shares(d)'
  <2>1. /\ share'[d] >= 0 /\ (Kind[d] = "tasks" => share'[d] >= 1) BY <1>9
  <2>2. limit[t] > 0 => 0 < share'[d] /\ share'[d] <= limit[t]
    BY <1>6, <1>7, <1>8, <1>9
  <2> QED BY <1>1, <2>1, <2>2 DEF Shares
<1>12. Unit(rm2, d)' <= r /\ k * Unit(rm2, d)' <= r /\ 1 <= k
  <2>1. CASE Kind[d] = "for" BY <1>6, <1>7, <1>10, <2>1
  <2>2. CASE Kind[d] = "tasks"
    <3> DEFINE s == share'[d]
    <3>1. Unit(rm2, d)' = s /\ s \in Int /\ s <= w /\ k * s <= w BY <1>9, <1>10, <2>2
    <3> HIDE DEF s
    <3>2. k * s \in Int BY <1>7, <3>1
    <3>3. s <= r /\ k * s <= r BY <1>6, <3>1, <3>2
    <3> QED BY <1>7, <3>1, <3>3
  <2> QED BY <1>6, <2>1, <2>2
<1>13. NInv(lv2, lo2, rm2, from2)'
  BY <1>3, <1>4, <1>5, <1>11, <1>12, Seated DEF k
<1> QED BY <1>13 DEF NestInv
-----------------------------------------------------------------------------
\* The call e is over: it was innermost for the threads in it.
EndStep(e) ==
  /\ Open(e) /\ phase' = [phase EXCEPT ![e] = "done"]
  /\ UNCHANGED <<available, owner, width, share, saved, limit, depth>>
  /\ \A c \in Calls \ {e} : team'[c] = team[c]
  /\ SameLoops
  /\ \A u \in Threads : ~Waits(e, u)
  /\ \A p, d \in Calls, u \in Threads : WaitsFor(p, u, d)' <=> WaitsFor(p, u, d) /\ d # e

LEMMA EndKeeps ==
  ASSUME IInv, NEW lv, NEW lo, NEW rm, NEW from, NInv(lv, lo, rm, from), RootFirst',
         NEW e \in Calls, EndStep(e)
  PROVE  NInv(lv, lo, rm, from)'
<1>0. /\ \A c \in Calls : lv[c] \in Int /\ lo[c] \in Int /\ rm[c] \in Int
      /\ phase \in [Calls -> Phases]
  BY DEF NInv, Numbering, IInv, TypeOK
<1>1. /\ \A c \in Calls : Open(c)' <=> Open(c) /\ c # e
      /\ \A c \in Calls : c # e => phase'[c] = phase[c] /\ Crew(c)' = Crew(c)
      /\ phase'[e] = "done"
  BY <1>0 DEF EndStep, Open, Crew
<1>2. \A p, d \in Calls, u \in Threads : WaitsFor(p, u, d)' <=> WaitsFor(p, u, d) /\ d # e
  BY DEF EndStep
<1>3. \A c \in Calls, u \in Threads : Within(c, u)' <=> Within(c, u) /\ c # e
  BY <1>1 DEF Within
<1>4. \A d \in Calls, u \in Threads : ~WaitsFor(e, u, d) BY DEF EndStep, Waits
\* No call lies between e and the one that made it.
<1>5. ASSUME NEW c \in Calls, NEW x \in Calls, NEW v \in Threads, WaitsFor(c, v, e), lv[c] < lv[x]
      PROVE  lv[e] = lv[c] + 1 /\ ~(lv[x] < lv[e])
  BY <1>0, <1>5 DEF NInv, TreeInv, Levels
<1>6. TreeInv(lv)'
  <2>1. Asked'
    <3>1. \A d \in Calls : Open(d)' => Open(d) /\ d # e BY <1>1
    <3> QED BY <1>2, <3>1 DEF NInv, TreeInv, Asked
  <2>2. Levels(lv)' BY <1>2 DEF NInv, TreeInv, Levels, EndStep
  <2>3. OneInnermost(lv)'
    <3> SUFFICES ASSUME NEW c \in Calls, NEW x \in Calls, NEW t \in Threads, c # x,
                        Within(c, t)', Within(x, t)'
                 PROVE  lv[c] # lv[x] /\ (lv[c] < lv[x] => Waits(c, t)')
      BY DEF OneInnermost
    <3>1. Within(c, t) /\ Within(x, t) /\ c # e /\ x # e BY <1>3
    <3>2. lv[c] # lv[x] /\ (lv[c] < lv[x] => Waits(c, t))
      BY <3>1 DEF NInv, TreeInv, OneInnermost
    <3>3. ASSUME lv[c] < lv[x] PROVE Waits(c, t)'
      <4>1. PICK y \in Calls : WaitsFor(c, t, y) BY <3>2, <3>3 DEF Waits
      <4>2. y # e
        <5> SUFFICES ASSUME y = e PROVE FALSE OBVIOUS
        <5>1. WaitsFor(c, t, e) BY <4>1
        <5>2. Within(e, t)
          BY <5>1, OpenCalls DEF NInv, TreeInv, Levels, Within, Crew
        <5>3. lv[e] # lv[x] /\ (lv[e] < lv[x] => Waits(e, t))
          BY <3>1, <5>2 DEF NInv, TreeInv, OneInnermost
        <5>4. ~(lv[x] < lv[e]) BY <1>5, <3>3, <5>1
        <5>5. lv[e] < lv[x] BY <1>0, <5>3, <5>4
        <5> QED BY <1>4, <5>3, <5>5 DEF Waits
      <4> QED BY <1>2, <4>1, <4>2 DEF Waits
    <3> QED BY <3>2, <3>3
  <2> QED BY <2>1, <2>2, <2>3 DEF TreeInv
<1>7. LocalsInv(lv)'
  <2>1. \A t \in Threads : Locals(lv, t)'
    BY LocalsKept DEF NInv, LocalsInv, EndStep, SameLoops
  <2>2. ASSUME NEW c \in Calls PROVE Shares(c)'
    <3>1. CASE c = e BY <1>1, <3>1 DEF Shares, Parallel
    <3>2. CASE c # e BY <1>1, <3>2 DEF NInv, LocalsInv, Shares, EndStep
    <3> QED BY <3>1, <3>2
  <2> QED BY <2>1, <2>2 DEF LocalsInv
<1>8. \A c \in Calls : c # e => Unit(rm, c)' = Unit(rm, c) BY <1>1 DEF Unit, EndStep
<1>9. RoomInv(lv, lo, rm, from)'
  <2>1. ASSUME NEW c \in Calls, Open(c)' PROVE Placed(lo, rm, from, c)' /\ Enough(lv, rm, c)'
    <3>1. Open(c) /\ c # e /\ owner[c] \in Threads BY <1>1, <2>1, OpenCalls
    <3>2. Placed(lo, rm, from, c) /\ Enough(lv, rm, c) BY <3>1 DEF NInv, RoomInv
    <3>3. Placed(lo, rm, from, c)' BY <1>1, <1>8, <3>1, <3>2 DEF Placed, EndStep
    <3>4. Enough(lv, rm, c)' BY <3>1, <3>2 DEF Enough, EndStep, SameLoops
    <3> QED BY <3>3, <3>4
  <2>2. \A c \in Calls : phase'[c] = "spawn" => Unused(lo, rm, from, c)'
    <3> SUFFICES ASSUME NEW c \in Calls, phase'[c] = "spawn" PROVE Unused(lo, rm, from, c)'
      OBVIOUS
    <3>1. c # e /\ Unused(lo, rm, from, c) BY <1>1 DEF NInv, RoomInv
    <3> QED BY <1>1, <1>8, <3>1 DEF Unused, EndStep
  <2>3. Handed(lo, rm, from)'
    <3> SUFFICES ASSUME NEW c \in Calls, NEW d \in Calls, NEW v \in Threads, WaitsFor(c, v, d)'
                 PROVE  lo[d] = from[c][v] /\ rm[d] = Unit(rm, c)'
      BY DEF Handed
    <3>1. WaitsFor(c, v, d) /\ c # e BY <1>2, <1>4
    <3> QED BY <1>8, <3>1 DEF NInv, RoomInv, Handed
  <2>4. Nested(lv, lo, rm)'
    <3>1. ASSUME NEW c \in Calls, NEW x \in Calls, Below(lv, lo, rm, x, c), x # e, c # e, Open(x)
          PROVE  Below(lv, lo, rm, x, c)'
      <4>1. PICK v \in Threads, y \in Calls :
              WaitsFor(c, v, y) /\ lo[y] <= lo[x] /\ lo[x] + rm[x] <= lo[y] + rm[y] /\ lv[c] < lv[x]
        BY <3>1 DEF Below
      <4>2. y # e
        <5> SUFFICES ASSUME y = e PROVE FALSE OBVIOUS
        <5>1. ~(lv[x] < lv[e]) /\ lv[e] = lv[c] + 1 BY <1>5, <4>1
        <5>2. ~Below(lv, lo, rm, x, e) BY <1>4 DEF Below
        <5>3. ~Below(lv, lo, rm, e, x) BY <5>1 DEF Below
        <5>4. Apart(lo, rm, x, e)
          BY <3>1, <5>2, <5>3 DEF NInv, RoomInv, Nested, EndStep
        <5>5. rm[x] >= 1 /\ rm[e] >= 1 BY <3>1 DEF NInv, RoomInv, Placed, EndStep
        <5> QED BY <1>0, <4>1, <5>4, <5>5 DEF Apart
      <4> QED BY <1>2, <4>1, <4>2 DEF Below
    <3> SUFFICES ASSUME NEW c \in Calls, NEW x \in Calls, c # x, Open(c)', Open(x)'
                 PROVE  Apart(lo, rm, c, x) \/ Below(lv, lo, rm, c, x)' \/ Below(lv, lo, rm, x, c)'
      BY DEF Nested, Apart
    <3>2. Open(c) /\ Open(x) /\ c # e /\ x # e BY <1>1
    <3>3. Apart(lo, rm, c, x) \/ Below(lv, lo, rm, c, x) \/ Below(lv, lo, rm, x, c)
      BY <3>2 DEF NInv, RoomInv, Nested
    <3> QED BY <3>1, <3>2, <3>3
  <2> QED BY <2>1, <2>2, <2>3, <2>4 DEF RoomInv
<1> QED BY <1>6, <1>7, <1>9 DEF NInv, Numbering
-----------------------------------------------------------------------------
\* A step in call c that changes no item of a waiting thread.
LEMMA InnerWaits ==
  ASSUME NEW c \in Calls, OnlyCall(c), Open(c)' <=> Open(c),
         \A u \in Threads, d \in Calls : Open(d) => (AtItem(c, u, d)' <=> AtItem(c, u, d))
  PROVE  SameWaits /\ \A d \in Calls : Open(d)' <=> Open(d)
<1>1. ASSUME NEW d \in Calls PROVE Open(d)' <=> Open(d)
  BY DEF OnlyCall, Untouched, Open
<1>2. ASSUME NEW p \in Calls, p # c, NEW u \in Threads, NEW d \in Calls
      PROVE  AtItem(p, u, d)' <=> AtItem(p, u, d)
  BY <1>2 DEF OnlyCall, Untouched, AtItem
<1> QED BY <1>1, <1>2 DEF SameWaits, WaitsFor

\* A thread that waits in none of its calls but the innermost is in that.
LEMMA Innermost ==
  ASSUME IInv, NEW lv, lv \in [Calls -> Int], TreeInv(lv),
         NEW c \in Calls, NEW t \in Threads, Within(c, t), ~Waits(c, t),
         NEW d \in Calls, d # c, Within(d, t)
  PROVE  lv[d] < lv[c] /\ pc[d][t] = "run"
<1>1. lv[c] # lv[d] /\ ~(lv[c] < lv[d]) BY DEF TreeInv, OneInnermost
<1>2. lv[d] < lv[c] BY <1>1
<1>3. Waits(d, t) BY <1>2 DEF TreeInv, OneInnermost
<1> QED BY <1>2, <1>3 DEF Waits, WaitsFor, AtItem

\* The caller enters its own loop.
LEMMA JoinInWorkNests ==
  ASSUME IInv, TypeOK', RootFirst', NEW lv, NEW lo, NEW rm, NEW from, NInv(lv, lo, rm, from),
         NEW c \in Calls, JoinInWork(c)
  PROVE  NestInv'
<1>1. owner[c] \in Threads
  BY InvAtCall DEF JoinInWork, Members, Parallel
<1>2. PICK t \in Threads : t = owner[c] BY <1>1
<1>3. /\ phase[c] = "spawn" /\ t \in Threads /\ OnlyCall(c) /\ Within(c, t) /\ Open(c)
      /\ pc[c][t] = "out"
  BY <1>2, JoinInWorkInv, InvAtCall, RunnersAreWithin
     DEF JoinInWork, Members, Parallel, Within, Open, Crew
<1>4. /\ phase'[c] = "work" /\ pc'[c] = [pc[c] EXCEPT ![t] = "loop"] /\ at'[c] = at[c]
      /\ stop'[c] = stop[c]
      /\ UNCHANGED <<available, owner, width, share, team>>
      /\ \A d \in Calls : d # c => phase'[d] = phase[d]
      /\ saved' = [saved EXCEPT ![c][t] = limit[t]]
      /\ limit' = [limit EXCEPT ![t] = InstalledLimit(c, limit[t])]
      /\ depth' = [depth EXCEPT ![t] = depth[t] + Deeper(c)]
  BY <1>3, <1>2 DEF JoinInWork, Place, IInv, TypeOK, cursorVars
<1>5. SameCalls
  <2>1. Open(c)' <=> Open(c) BY <1>3, <1>4 DEF Open
  <2>2. \A u \in Threads, d \in Calls : AtItem(c, u, d)' <=> AtItem(c, u, d)
    BY <1>3, <1>4, InvAtCall DEF AtItem, LocalTypes
  <2>3. SameWaits /\ \A d \in Calls : Open(d)' <=> Open(d) BY <1>3, <2>1, <2>2, InnerWaits
  <2> QED BY <1>3, <1>4, <2>3 DEF SameCalls
<1>6. TreeInv(lv)' BY <1>5, TreeKept DEF NInv
<1>7. /\ c \notin LoopsOf(t) /\ LoopsOf(t)' = LoopsOf(t) \cup {c}
      /\ \A u \in Threads : u # t => LoopsOf(u)' = LoopsOf(u)
  <2>1. pc[c] \in [Threads -> Places] BY InvAtCall DEF LocalTypes
  <2>2. \A u \in Threads, d \in Calls : d # c => (d \in LoopsOf(u)' <=> d \in LoopsOf(u))
    BY <1>3 DEF OnlyCall, Untouched, LoopsOf
  <2>3. c \notin LoopsOf(t) /\ c \in LoopsOf(t)' BY <1>3, <1>4, <2>1 DEF LoopsOf
  <2>4. \A u \in Threads : u # t => (c \in LoopsOf(u)' <=> c \in LoopsOf(u))
    BY <1>3, <1>4, <2>1 DEF LoopsOf
  <2>5. \A u \in Threads : LoopsOf(u) \subseteq Calls /\ LoopsOf(u)' \subseteq Calls BY DEF LoopsOf
  <2>6. \A d \in Calls : d \in LoopsOf(t)' <=> d \in LoopsOf(t) \/ d = c BY <2>2, <2>3
  <2>7. ASSUME NEW u \in Threads, u # t PROVE LoopsOf(u)' = LoopsOf(u)
    <3>1. \A d \in Calls : d \in LoopsOf(u)' <=> d \in LoopsOf(u) BY <2>2, <2>4, <2>7
    <3> QED BY <2>5, <3>1
  <2> QED BY <2>3, <2>5, <2>6, <2>7
<1>8. lv \in [Calls -> Int] BY DEF NInv, Numbering
\* c is the innermost call of t.
<1>9. \A d \in Calls : d # c /\ Within(d, t) => lv[d] < lv[c] /\ pc[d][t] = "run"
  <2>1. ~Waits(c, t) BY <1>3 DEF Waits, WaitsFor, AtItem
  <2> QED BY <1>3, <1>8, <2>1, Innermost DEF NInv
<1>10. \A x \in LoopsOf(t) : x \in Calls /\ x # c /\ lv[x] < lv[c]
  <2>1. \A x \in LoopsOf(t) : x \in Calls /\ x # c /\ Within(x, t)
    BY <1>7, RunnersAreWithin DEF LoopsOf
  <2> QED BY <1>9, <2>1
<1>11. /\ Locals(lv, t) /\ Shares(c) /\ Kind[c] \in {"for", "tasks"}
      /\ share[c] \in Int /\ limit[t] \in Int /\ \A x \in Calls : share[x] \in Int
  BY <1>3, CallTreeAssumption DEF NInv, LocalsInv, IInv, TypeOK
<1>12. LocalsInv(lv)'
  <2>1. ASSUME NEW u \in Threads, u # t PROVE Locals(lv, u)'
    <3>1. /\ LoopsOf(u)' = LoopsOf(u) /\ limit'[u] = limit[u] /\ depth'[u] = depth[u]
          /\ \A x \in LoopsOf(u) : saved'[x][u] = saved[x][u]
      BY <1>3, <1>4, <1>7, <2>1 DEF IInv, TypeOK, LoopsOf
    <3>2. Locals(lv, u) BY DEF NInv, LocalsInv
    <3> QED BY <1>4, <3>1, <3>2, LocalsKept
  <2>2. Locals(lv, t)'
    <3>1. IsFiniteSet(LoopsOf(t)') BY <1>7, <1>11, FS_AddElement DEF Locals
    <3>2. depth'[t] = Cardinality(ForsOf(t)')
      <4>1. depth'[t] = depth[t] + Deeper(c) BY <1>3, <1>4 DEF IInv, TypeOK
      <4>2. ForsOf(t)' = IF Kind[c] = "for" THEN ForsOf(t) \cup {c} ELSE ForsOf(t)
        BY <1>7 DEF ForsOf
      <4>3. c \notin ForsOf(t) /\ IsFiniteSet(ForsOf(t))
        BY <1>7, <1>11, FS_Subset DEF ForsOf, Locals
      <4>4. Cardinality(ForsOf(t)) \in Nat BY <4>3, FS_CardinalityType
      <4>5. CASE Kind[c] = "for"
        <5>1. Cardinality(ForsOf(t) \cup {c}) = Cardinality(ForsOf(t)) + 1 BY <4>3, FS_AddElement
        <5>2. Deeper(c) = 1 /\ ForsOf(t)' = ForsOf(t) \cup {c} BY <4>2, <4>5 DEF Deeper
        <5> QED BY <1>11, <4>1, <5>1, <5>2 DEF Locals
      <4>6. CASE Kind[c] # "for"
        <5>1. Deeper(c) = 0 /\ ForsOf(t)' = ForsOf(t) BY <4>2, <4>6 DEF Deeper
        <5> QED BY <1>11, <4>1, <4>4, <5>1 DEF Locals
      <4> QED BY <4>5, <4>6
    <3>3. IsLimit(limit[t], LoopsOf(t))'
      <4>1. share' = share /\ limit'[t] = IF share[c] > 0 THEN share[c] ELSE limit[t]
        <5>1. limit \in [Threads -> Int] BY DEF IInv, TypeOK
        <5>2. limit'[t] = InstalledLimit(c, limit[t]) /\ share' = share BY <1>3, <1>4, <5>1
        <5> QED BY <5>2 DEF InstalledLimit
      <4>2. /\ share[c] >= 0 /\ (limit[t] > 0 => 0 < share[c] /\ share[c] <= limit[t])
        BY <1>3, <1>2, <1>11 DEF Shares, Parallel
      <4>3. IsLimit(limit[t], LoopsOf(t)) BY <1>11 DEF Locals
      <4>4. \A x \in LoopsOf(t) : share[x] \in Int BY <1>10, <1>11
      <4>5. limit[t] = 0 \/ limit[t] > 0 BY <4>3 DEF IsLimit
      <4>6. CASE limit[t] = 0 BY <1>7, <1>11, <4>1, <4>2, <4>3, <4>4, <4>6 DEF IsLimit
      <4>7. CASE limit[t] > 0 BY <1>7, <1>11, <4>1, <4>2, <4>3, <4>4, <4>7 DEF IsLimit
      <4> QED BY <4>5, <4>6, <4>7
    <3>4. ASSUME NEW x \in LoopsOf(t)' PROVE IsLimit(saved[x][t], Outer(lv, x, t))'
      <4>1. CASE x = c
        <5>1. saved'[c][t] = limit[t] /\ share' = share BY <1>3, <1>4 DEF IInv, TypeOK
        <5>2. Outer(lv, c, t)' = LoopsOf(t) BY <1>8, <1>7, <1>10 DEF Outer
        <5> QED BY <1>11, <4>1, <5>1, <5>2 DEF Locals, IsLimit
      <4>2. CASE x # c
        <5>1. x \in LoopsOf(t) /\ x \in Calls BY <1>7, <3>4, <4>2 DEF LoopsOf
        <5>2. saved'[x][t] = saved[x][t] /\ share' = share BY <1>3, <1>4, <4>2, <5>1 DEF IInv, TypeOK
        <5>3. Outer(lv, x, t)' = Outer(lv, x, t) BY <1>8, <1>7, <1>10, <5>1 DEF Outer
        <5> QED BY <1>11, <5>1, <5>2, <5>3 DEF Locals, IsLimit
      <4> QED BY <4>1, <4>2
    <3> QED BY <3>1, <3>2, <3>3, <3>4 DEF Locals
  <2>3. ASSUME NEW d \in Calls PROVE Shares(d)'
    <3>0. Shares(d) BY DEF NInv, LocalsInv
    <3>1. CASE d = c BY <1>3, <1>4, <3>0, <3>1 DEF Shares, Parallel
    <3>2. CASE d # c
      <4>1. phase'[d] = phase[d] /\ share'[d] = share[d] /\ owner'[d] = owner[d] BY <1>4, <3>2
      <4>2. phase[d] = "spawn" => owner[d] # t /\ owner[d] \in Threads
        <5> SUFFICES ASSUME phase[d] = "spawn", owner[d] = t PROVE FALSE
          BY OpenCalls DEF Open
        <5>1. Within(d, t) /\ pc[d][t] = "out"
          BY InvAtCall DEF Within, Open, Crew, Members, Parallel
        <5> QED BY <1>9, <3>2, <5>1
      <4>3. phase[d] = "spawn" => limit'[owner[d]] = limit[owner[d]]
        BY <1>4, <4>2 DEF IInv, TypeOK
      <4> QED BY <3>0, <4>1, <4>3 DEF Shares
    <3> QED BY <3>1, <3>2
  <2> QED BY <2>1, <2>2, <2>3 DEF LocalsInv
<1>13. ASSUME NEW d \in Calls, Open(d) PROVE Enough(lv, rm, d)'
  <2>1. owner[d] \in Threads /\ owner'[d] = owner[d] BY <1>4, <1>13, OpenCalls
  <2>2. LoopsOf(owner[d]) \subseteq LoopsOf(owner[d])' BY <1>3, <1>4, <1>7, <2>1
  <2> QED BY <1>4, <1>13, <2>1, <2>2 DEF NInv, RoomInv, Enough
<1>14. RoomInv(lv, lo, rm, from)' BY <1>5, <1>13, RoomKept DEF NInv
<1> QED BY <1>6, <1>12, <1>14 DEF NInv, Numbering, NestInv

\* A thread leaves the loop and puts its thread-local state back.
LEMMA LeaveLoopNests ==
  ASSUME IInv, TypeOK', RootFirst', NEW lv, NEW lo, NEW rm, NEW from, NInv(lv, lo, rm, from),
         NEW c \in Calls, NEW t \in Threads, LeaveLoop(c, t)
  PROVE  NestInv'
<1>1. /\ pc[c][t] = "locked" /\ OnlyCall(c) /\ Within(c, t) /\ Open(c) /\ phase[c] # "serial"
      /\ t = owner[c] => phase[c] = "work"
  BY LeaveLoopInv, InvAtCall, RunnersAreWithin
     DEF LeaveLoop, Members, Parallel, Within, Open, Crew
<1>2. /\ UNCHANGED <<available, owner, width, share, team, stop>>
      /\ \A d \in Calls : d # c => phase'[d] = phase[d]
      /\ saved' = [saved EXCEPT ![c][t] = 0]
      /\ limit' = [limit EXCEPT ![t] = saved[c][t]]
      /\ depth' = [depth EXCEPT ![t] = depth[t] - Deeper(c)]
      /\ at' = [at EXCEPT ![c][t] = 0]
  BY DEF LeaveLoop, IInv, TypeOK
<1>3. \/ t = owner[c] /\ pc' = [pc EXCEPT ![c][t] = "out"] /\ phase' = [phase EXCEPT ![c] = "join"]
      \/ t # owner[c] /\ pc' = [pc EXCEPT ![c][t] = "exited"] /\ UNCHANGED phase
  BY DEF LeaveLoop, Place
<1>4. /\ phase \in [Calls -> Phases] /\ pc \in [Calls -> [Threads -> Places]]
      /\ at \in [Calls -> [Threads -> Nat]] /\ saved \in [Calls -> [Threads -> Int]]
      /\ limit \in [Threads -> Int] /\ depth \in [Threads -> Int] /\ share \in [Calls -> Int]
  BY DEF IInv, TypeOK
<1>5. /\ pc'[c][t] \in {"out", "exited"} /\ Open(c)' /\ phase'[c] # "serial"
      /\ phase'[c] = "spawn" => phase[c] = "spawn"
      /\ phase[c] \in Parallel
      /\ \A u \in Threads : u # t => pc'[c][u] = pc[c][u] /\ at'[c][u] = at[c][u]
  BY <1>1, <1>2, <1>3, <1>4 DEF Open, Parallel, Phases
<1>6. SameCalls
  <2>1. \A u \in Threads, d \in Calls : AtItem(c, u, d)' <=> AtItem(c, u, d)
    BY <1>1, <1>2, <1>5 DEF AtItem
  <2>2. SameWaits /\ \A d \in Calls : Open(d)' <=> Open(d)
    BY <1>1, <1>5, <2>1, InnerWaits
  <2> QED BY <1>1, <1>2, <1>5, <2>2 DEF SameCalls
<1>7. TreeInv(lv)' BY <1>6, TreeKept DEF NInv
<1>8. /\ c \in LoopsOf(t) /\ LoopsOf(t)' = LoopsOf(t) \ {c}
      /\ \A u \in Threads : u # t => LoopsOf(u)' = LoopsOf(u)
  <2>1. \A u \in Threads, d \in Calls : d # c => (d \in LoopsOf(u)' <=> d \in LoopsOf(u))
    BY <1>1 DEF OnlyCall, Untouched, LoopsOf
  <2>2. c \in LoopsOf(t) /\ c \notin LoopsOf(t)' BY <1>1, <1>5 DEF LoopsOf
  <2>3. \A u \in Threads : u # t => (c \in LoopsOf(u)' <=> c \in LoopsOf(u))
    BY <1>1, <1>5 DEF LoopsOf
  <2>4. \A u \in Threads : LoopsOf(u) \subseteq Calls /\ LoopsOf(u)' \subseteq Calls BY DEF LoopsOf
  <2>5. \A d \in Calls : d \in LoopsOf(t)' <=> d \in LoopsOf(t) /\ d # c BY <2>1, <2>2
  <2>6. ASSUME NEW u \in Threads, u # t PROVE LoopsOf(u)' = LoopsOf(u)
    <3>1. \A d \in Calls : d \in LoopsOf(u)' <=> d \in LoopsOf(u) BY <2>1, <2>3, <2>6
    <3> QED BY <2>4, <3>1
  <2> QED BY <2>2, <2>4, <2>5, <2>6
\* c is the innermost call of t.
<1>9. lv \in [Calls -> Int] BY DEF NInv, Numbering
<1>10. ~Waits(c, t) BY <1>1 DEF Waits, WaitsFor, AtItem
<1>11. \A d \in Calls : d # c /\ Within(d, t) => lv[d] < lv[c] /\ pc[d][t] = "run"
  BY <1>1, <1>9, <1>10, Innermost DEF NInv
<1>12. \A x \in LoopsOf(t) : x \in Calls /\ (x # c => lv[x] < lv[c])
  <2>1. \A x \in LoopsOf(t) : x \in Calls /\ Within(x, t) BY RunnersAreWithin DEF LoopsOf
  <2> QED BY <1>11, <2>1
<1>13. Locals(lv, t) BY DEF NInv, LocalsInv
<1>14. Locals(lv, t)'
  <2>1. IsFiniteSet(LoopsOf(t)') BY <1>8, <1>13, FS_Subset DEF Locals
  <2>2. depth'[t] = Cardinality(ForsOf(t)')
    <3>1. depth'[t] = depth[t] - Deeper(c) BY <1>2, <1>4
    <3>2. IsFiniteSet(ForsOf(t)) BY <1>13, FS_Subset DEF ForsOf, Locals
    <3>3. CASE Kind[c] = "for"
      <4>1. c \in ForsOf(t) /\ ForsOf(t)' = ForsOf(t) \ {c} BY <1>8, <3>3 DEF ForsOf
      <4>2. Cardinality(ForsOf(t) \ {c}) = Cardinality(ForsOf(t)) - 1
        BY <3>2, <4>1, FS_RemoveElement
      <4>3. Deeper(c) = 1 BY <3>3 DEF Deeper
      <4> QED BY <1>13, <3>1, <4>1, <4>2, <4>3 DEF Locals
    <3>4. CASE Kind[c] # "for"
      <4>1. ForsOf(t)' = ForsOf(t) BY <1>8, <3>4 DEF ForsOf
      <4>2. Deeper(c) = 0 BY <3>4 DEF Deeper
      <4> QED BY <1>4, <1>13, <3>1, <4>1, <4>2 DEF Locals
    <3> QED BY <3>3, <3>4
  <2>3. Outer(lv, c, t) = LoopsOf(t)' BY <1>9, <1>8, <1>12 DEF Outer
  <2>4. IsLimit(limit[t], LoopsOf(t))'
    <3>1. limit'[t] = saved[c][t] BY <1>2, <1>4
    <3>2. IsLimit(saved[c][t], LoopsOf(t)') BY <1>8, <1>13, <2>3 DEF Locals
    <3> QED BY <1>2, <3>1, <3>2 DEF IsLimit
  <2>5. ASSUME NEW x \in LoopsOf(t)' PROVE IsLimit(saved[x][t], Outer(lv, x, t))'
    <3>1. x \in LoopsOf(t) /\ x # c /\ x \in Calls /\ lv[x] < lv[c] BY <1>8, <1>12, <2>5
    <3>2. saved'[x][t] = saved[x][t] BY <1>2, <1>4, <3>1
    <3>3. Outer(lv, x, t)' = Outer(lv, x, t) BY <1>9, <1>8, <3>1 DEF Outer
    <3>4. IsLimit(saved[x][t], Outer(lv, x, t)) BY <1>13, <3>1 DEF Locals
    <3> QED BY <1>2, <3>2, <3>3, <3>4 DEF IsLimit
  <2> QED BY <2>1, <2>2, <2>4, <2>5 DEF Locals
<1>15. ASSUME NEW u \in Threads, u # t PROVE Locals(lv, u)'
  <2>1. limit'[u] = limit[u] /\ depth'[u] = depth[u] BY <1>2, <1>4, <1>15
  <2>2. \A x \in LoopsOf(u) : saved'[x][u] = saved[x][u] BY <1>2, <1>4, <1>15 DEF LoopsOf
  <2>3. Locals(lv, u) BY DEF NInv, LocalsInv
  <2> QED BY <1>2, <1>8, <1>15, <2>1, <2>2, <2>3, LocalsKept
<1>16. ASSUME NEW d \in Calls PROVE Shares(d)'
  <2>1. Shares(d) BY DEF NInv, LocalsInv
  <2>2. phase'[d] \in Parallel => phase[d] \in Parallel BY <1>2, <1>5
  <2>3. phase'[d] = "spawn" => phase[d] = "spawn" BY <1>2, <1>5
  <2>4. phase[d] = "spawn" => owner[d] # t /\ owner[d] \in Threads
    <3> SUFFICES ASSUME phase[d] = "spawn", owner[d] = t PROVE FALSE
      BY OpenCalls DEF Open
    <3>1. d # c /\ Within(d, t) BY <1>1 DEF Within, Open, Crew
    <3>2. pc[d][t] = "out" BY InvAtCall DEF Members, Parallel
    <3> QED BY <1>11, <3>1, <3>2
  <2>5. phase[d] = "spawn" => limit'[owner[d]] = limit[owner[d]] BY <1>2, <1>4, <2>4
  <2> QED BY <1>2, <2>1, <2>2, <2>3, <2>5 DEF Shares
<1>17. ASSUME NEW d \in Calls, Open(d) PROVE Enough(lv, rm, d)'
  <2>1. PICK u \in Threads : u = owner[d] BY <1>17, OpenCalls
  <2>2. owner'[d] = u /\ Within(d, u) BY <1>2, <1>17, <2>1 DEF Within, Crew
  <2>3. Enough(lv, rm, d) BY <1>17 DEF NInv, RoomInv
  <2>4. ASSUME NEW q \in LoopsOf(u), lv[q] < lv[d] PROVE q \in LoopsOf(u)'
    <3>1. CASE u # t BY <1>8, <2>4, <3>1
    <3>2. CASE u = t
      <4>1. q # c
        <5> SUFFICES ASSUME q = c PROVE FALSE OBVIOUS
        <5>1. d # c /\ lv[d] < lv[c] BY <1>9, <1>11, <2>2, <2>4, <3>2
        <5> QED BY <1>9, <2>4, <5>1
      <4> QED BY <1>8, <2>4, <3>2, <4>1
    <3> QED BY <3>1, <3>2
  <2> QED BY <1>2, <2>1, <2>2, <2>3, <2>4 DEF Enough
<1>18. LocalsInv(lv)' BY <1>14, <1>15, <1>16 DEF LocalsInv
<1>19. RoomInv(lv, lo, rm, from)' BY <1>6, <1>17, RoomKept DEF NInv
<1> QED BY <1>7, <1>18, <1>19 DEF NInv, Numbering, NestInv

\* The numbers of k workers, and of one more.
LEMMA OneMore ==
  ASSUME NEW k \in Nat, NEW w \in Int, k + 2 <= w, NEW n \in Int, n >= 1
  PROVE  /\ (k + 1) * n \in Nat /\ (k + 2) * n = (k + 1) * n + n
         /\ (k + 2) * n <= w * n
<1>1. (k + 1) * n \in Nat /\ (k + 2) * n = (k + 1) * n + n OBVIOUS
<1>2. PICK m \in Nat : w = k + 2 + m
  <2>1. w - (k + 2) \in Nat /\ w = k + 2 + (w - (k + 2)) OBVIOUS
  <2> QED BY <2>1
<1>3. w * n = (k + 2) * n + m * n /\ m * n >= 0 BY <1>2
<1>4. (k + 2) * n \in Int /\ m * n \in Int BY <1>2
<1> QED BY <1>1, <1>3, <1>4

\* A thread is created: it gets the next numbers of the call.
LEMMA SpawnNests ==
  ASSUME IInv, TypeOK', RootFirst', NEW lv, NEW lo, NEW rm, NEW from, NInv(lv, lo, rm, from),
         NEW c \in Calls, NEW u \in Threads, Spawn(c, u)
  PROVE  NestInv'
<1>0. /\ phase[c] = "spawn" /\ OnlyCall(c) /\ Open(c) /\ Free(u)
      /\ Cardinality(team[c]) + 1 < width[c]
  BY SpawnInv DEF Spawn, Open, Fresh
<1>1. /\ UNCHANGED <<available, phase, owner, width, share, at, stop>>
      /\ team' = [team EXCEPT ![c] = team[c] \cup {u}]
      /\ pc' = [pc EXCEPT ![c][u] = "loop"]
      /\ saved' = [saved EXCEPT ![c][u] = 0]
      /\ limit' = [limit EXCEPT ![u] = InstalledLimit(c, 0)]
      /\ depth' = [depth EXCEPT ![u] = Deeper(c)]
  BY DEF Spawn, callVars, Place, IInv, TypeOK
<1>2. /\ team \in [Calls -> SUBSET Threads] /\ pc \in [Calls -> [Threads -> Places]]
      /\ saved \in [Calls -> [Threads -> Int]] /\ width \in [Calls -> Int]
      /\ limit \in [Threads -> Int] /\ depth \in [Threads -> Int] /\ share \in [Calls -> Int]
  BY DEF IInv, TypeOK
<1>3. /\ \A d \in Calls : Open(d) => u \notin Crew(d)
      /\ \A d \in Calls : ~Within(d, u) /\ pc[d][u] = "out" /\ u \notin team[d]
  <2>1. \A d \in Calls : u \notin team[d] /\ (Open(d) => owner[d] # u) BY <1>0 DEF Free, Open
  <2> QED BY <2>1, RunnersAreWithin DEF Within, Crew
<1>4. /\ \A d \in Calls : (Open(d)' <=> Open(d)) /\ (d # c => Crew(d)' = Crew(d))
      /\ Crew(c)' = Crew(c) \cup {u}
      /\ \A d \in Calls, v \in Threads : Within(d, v)' <=> Within(d, v) \/ (d = c /\ v = u)
  <2>1. \A d \in Calls : (Open(d)' <=> Open(d)) BY <1>1 DEF Open
  <2>2. \A d \in Calls : d # c => Crew(d)' = Crew(d) BY <1>1, <1>2 DEF Crew
  <2>3. Crew(c)' = Crew(c) \cup {u} BY <1>1, <1>2 DEF Crew
  <2> QED BY <1>0, <2>1, <2>2, <2>3 DEF Within
<1>5. SameWaits
  <2>1. \A v \in Threads, d \in Calls : AtItem(c, v, d)' <=> AtItem(c, v, d)
    BY <1>1, <1>2, <1>3 DEF AtItem
  <2> QED BY <1>0, <1>4, <2>1, InnerWaits
<1>6. TreeInv(lv)'
  <2>1. Asked' BY <1>4, <1>5 DEF NInv, TreeInv, Asked, SameWaits
  <2>2. Levels(lv)' BY <1>1, <1>5 DEF NInv, TreeInv, Levels, SameWaits
  <2>3. \A d \in Calls, v \in Threads : Waits(d, v)' <=> Waits(d, v)
    BY <1>5 DEF Waits, SameWaits
  <2>4. OneInnermost(lv)' BY <1>3, <1>4, <2>3 DEF NInv, TreeInv, OneInnermost
  <2> QED BY <2>1, <2>2, <2>4 DEF TreeInv
<1>7. LoopsOf(u)' = {c} /\ \A v \in Threads : v # u => LoopsOf(v)' = LoopsOf(v)
  <2>1. \A d \in Calls : pc'[d][u] = IF d = c THEN "loop" ELSE "out" BY <1>1, <1>2, <1>3
  <2>2. \A d \in Calls, v \in Threads : v # u => pc'[d][v] = pc[d][v] BY <1>1, <1>2
  <2>3. LoopsOf(u)' = {c} BY <1>0, <1>1, <2>1 DEF LoopsOf
  <2>4. ASSUME NEW v \in Threads, v # u PROVE LoopsOf(v)' = LoopsOf(v)
    BY <1>1, <2>2, <2>4 DEF LoopsOf
  <2> QED BY <2>3, <2>4
<1>8. Shares(c) /\ share[c] \in Int /\ share[c] >= 0 /\ Kind[c] \in {"for", "tasks"}
      /\ (Kind[c] = "tasks" => share[c] >= 1)
  BY <1>0, <1>2, CallTreeAssumption DEF NInv, LocalsInv, Shares, Parallel
<1>9. LocalsInv(lv)'
  <2>1. ASSUME NEW v \in Threads, v # u PROVE Locals(lv, v)'
    <3>1. limit'[v] = limit[v] /\ depth'[v] = depth[v] BY <1>1, <1>2, <2>1
    <3>2. \A x \in LoopsOf(v) : saved'[x][v] = saved[x][v] BY <1>1, <1>2, <2>1 DEF LoopsOf
    <3>3. Locals(lv, v) BY DEF NInv, LocalsInv
    <3> QED BY <1>1, <1>7, <2>1, <3>1, <3>2, <3>3, LocalsKept
  <2>2. Locals(lv, u)'
    <3>1. IsFiniteSet(LoopsOf(u)') BY <1>7, FS_EmptySet, FS_AddElement
    <3>2. depth'[u] = Cardinality(ForsOf(u)')
      <4>1. depth'[u] = Deeper(c) BY <1>1, <1>2
      <4>2. CASE Kind[c] = "for"
        <5>1. ForsOf(u)' = {c} /\ Deeper(c) = 1 BY <1>7, <4>2 DEF ForsOf, Deeper
        <5> QED BY <4>1, <5>1, FS_Singleton
      <4>3. CASE Kind[c] # "for"
        <5>1. ForsOf(u)' = {} /\ Deeper(c) = 0 BY <1>7, <4>3 DEF ForsOf, Deeper
        <5> QED BY <4>1, <5>1, FS_EmptySet
      <4> QED BY <4>2, <4>3
    <3>3. IsLimit(limit[u], LoopsOf(u))'
      <4>1. share' = share /\ limit'[u] = IF share[c] > 0 THEN share[c] ELSE 0
        BY <1>1, <1>2 DEF InstalledLimit
      <4> QED BY <1>7, <1>8, <4>1 DEF IsLimit
    <3>4. ASSUME NEW x \in LoopsOf(u)' PROVE IsLimit(saved[x][u], Outer(lv, x, u))'
      <4>1. x = c /\ saved'[c][u] = 0 BY <1>1, <1>2, <1>7, <3>4
      <4>2. Outer(lv, c, u)' = {}
        <5>1. lv[c] \in Int BY DEF NInv, Numbering
        <5> QED BY <1>7, <5>1 DEF Outer
      <4> QED BY <4>1, <4>2 DEF IsLimit
    <3> QED BY <3>1, <3>2, <3>3, <3>4 DEF Locals
  <2>3. ASSUME NEW d \in Calls PROVE Shares(d)'
    <3>1. Shares(d) BY DEF NInv, LocalsInv
    <3>2. phase[d] = "spawn" => limit'[owner[d]] = limit[owner[d]]
      <4>1. phase[d] = "spawn" => owner[d] # u /\ owner[d] \in Threads
        BY <1>3, OpenCalls DEF Open, Crew
      <4> QED BY <1>1, <1>2, <4>1
    <3> QED BY <1>1, <3>1, <3>2 DEF Shares
  <2> QED BY <2>1, <2>2, <2>3 DEF LocalsInv
<1> DEFINE k == Cardinality(team[c])
           n == Unit(rm, c)
<1>10. k \in Nat /\ Cardinality(team'[c]) = k + 1
  <2>1. IsFiniteSet(team[c])
    <3>1. Threads = 0 .. ThreadIds - 1 /\ 0 \in Int /\ ThreadIds - 1 \in Int
      BY ThreadsAssumption DEF Threads
    <3>2. IsFiniteSet(Threads) BY <3>1, FS_Interval
    <3> QED BY <1>2, <3>2, FS_Subset
  <2>2. team'[c] = team[c] \cup {u} /\ u \notin team[c] BY <1>1, <1>2, <1>3
  <2> QED BY <2>1, <2>2, FS_AddElement, FS_CardinalityType
<1>11. n \in Int /\ n >= 1 BY <1>0, <1>8 DEF Unit
<1>12. /\ lv \in [Calls -> Int] /\ lo \in [Calls -> Int] /\ rm \in [Calls -> Int]
       /\ from \in [Calls -> [Threads -> Int]]
  BY DEF NInv, Numbering
<1>13. (k + 1) * n \in Nat /\ (k + 2) * n = (k + 1) * n + n /\ (k + 2) * n <= width[c] * n
       /\ width[c] * n \in Int
  <2>1. k + 2 <= width[c] /\ width[c] \in Int BY <1>0, <1>2, <1>10
  <2> HIDE DEF k, n
  <2> QED BY <1>10, <1>11, <2>1, OneMore
<1>14. PICK from2 \in [Calls -> [Threads -> Int]] :
         /\ from2[c][u] = lo[c] + (k + 1) * n
         /\ \A d \in Calls, v \in Threads : d # c \/ v # u => from2[d][v] = from[d][v]
  <2> DEFINE f == [from EXCEPT ![c][u] = lo[c] + (k + 1) * n]
  <2> HIDE DEF k, n
  <2>1. /\ f \in [Calls -> [Threads -> Int]] /\ f[c][u] = lo[c] + (k + 1) * n
        /\ \A d \in Calls, v \in Threads : d # c \/ v # u => f[d][v] = from[d][v]
    BY <1>12, <1>13
  <2> HIDE DEF f
  <2> QED BY <2>1
<1>15. \A d \in Calls : Unit(rm, d)' = Unit(rm, d) BY <1>1 DEF Unit
<1>16. Placed(lo, rm, from, c) /\ Unused(lo, rm, from, c) BY <1>0 DEF NInv, RoomInv
<1>17. Placed(lo, rm, from2, c)' /\ Unused(lo, rm, from2, c)'
  <2> DEFINE h == (k + 1) * n
  <2>1. /\ lo[c] >= 0 /\ rm[c] >= 1 /\ lo[c] + rm[c] <= available
        /\ width[c] * n <= rm[c]
        /\ \A v \in Crew(c) : v # u /\ v \in Threads /\ from[c][v] \in Int
                              /\ lo[c] <= from[c][v] /\ from[c][v] + n <= lo[c] + h
                              /\ from[c][v] + n <= lo[c] + rm[c]
        /\ owner[c] \in Crew(c)
    BY <1>0, <1>3, <1>12, <1>16, OpenCalls DEF Placed, Unused, Crew
  <2>2. \A v \in Crew(c) : from2[c][v] = from[c][v] BY <1>14, <2>1
  <2>3. h \in Nat /\ h + n <= rm[c] /\ from2[c][u] = lo[c] + h /\ lo[c] \in Int /\ rm[c] \in Int
    <3>1. h + n <= width[c] * n BY <1>13
    <3> HIDE DEF h
    <3>2. h \in Nat BY <1>13 DEF h
    <3>3. h + n <= rm[c] BY <1>11, <1>12, <1>13, <2>1, <3>1, <3>2
    <3> QED BY <1>12, <1>14, <3>2, <3>3 DEF h
  <2>4. Unit(rm, c)' = n BY <1>15
  <2>5. Crew(c)' = Crew(c) \cup {u} BY <1>4
  <2>6. (k + 1 + 1) * n = h + n /\ k + 1 + 1 <= width[c]
    <3>1. k + 1 + 1 = k + 2 BY <1>10
    <3> QED BY <1>0, <1>2, <1>10, <1>13, <3>1
  <2> HIDE DEF h, n
  <2>7. \A v \in Crew(c)' : lo[c] <= from2[c][v] /\ from2[c][v] + n <= lo[c] + rm[c]
                            /\ from2[c][v] + n <= lo[c] + (h + n)
    BY <1>11, <2>1, <2>2, <2>3, <2>5
  <2>8. \A v, w \in Crew(c) : v # w => from2[c][v] + n <= from2[c][w] \/ from2[c][w] + n <= from2[c][v]
    BY <1>16, <2>2 DEF Placed, n
  <2>9. \A v \in Crew(c) : from2[c][v] + n <= from2[c][u]
    BY <1>11, <2>1, <2>2, <2>3
  <2>10. \A v, w \in Crew(c)' : v # w => from2[c][v] + n <= from2[c][w] \/ from2[c][w] + n <= from2[c][v]
    BY <2>5, <2>8, <2>9
  <2>11. from2[c][owner[c]] = lo[c] BY <1>16, <2>1, <2>2 DEF Placed
  <2>12. Placed(lo, rm, from2, c)'
    BY <1>1, <2>1, <2>4, <2>7, <2>10, <2>11 DEF Placed
  <2>13. Unused(lo, rm, from2, c)'
    <3>1. Cardinality(team[c])' = k + 1 BY <1>10
    <3>2. (width[c] * Unit(rm, c))' <= rm[c] BY <1>1, <2>1, <2>4
    <3>3. \A v \in Crew(c)' : from2[c][v] + n <= lo[c] + (k + 1 + 1) * n BY <2>6, <2>7
    <3> QED BY <1>1, <2>4, <2>6, <3>1, <3>2, <3>3 DEF Unused
  <2> QED BY <2>12, <2>13
<1>18. ASSUME NEW d \in Calls, Open(d)' PROVE Placed(lo, rm, from2, d)' /\ Enough(lv, rm, d)'
  <2>1. Open(d) /\ owner[d] \in Threads /\ owner[d] # u /\ Crew(d) \subseteq Threads
    BY <1>3, <1>4, <1>18, OpenCalls DEF Crew
  <2>2. Placed(lo, rm, from, d) /\ Enough(lv, rm, d) BY <2>1 DEF NInv, RoomInv
  <2>3. Enough(lv, rm, d)'
    <3>1. owner'[d] = owner[d] /\ LoopsOf(owner[d])' = LoopsOf(owner[d])
      <4>1. PICK v \in Threads : v = owner[d] BY <2>1
      <4>2. LoopsOf(v)' = LoopsOf(v) BY <1>7, <2>1, <4>1
      <4> QED BY <1>1, <4>1, <4>2
    <3> QED BY <1>1, <2>2, <3>1 DEF Enough
  <2>4. CASE d = c BY <1>17, <2>3, <2>4
  <2>5. CASE d # c
    <3>1. Crew(d)' = Crew(d) /\ Unit(rm, d)' = Unit(rm, d) BY <1>4, <1>15, <2>5
    <3>2. \A v \in Threads : from2[d][v] = from[d][v] BY <1>14, <2>5
    <3>3. Placed(lo, rm, from2, d)' BY <1>1, <2>1, <2>2, <3>1, <3>2 DEF Placed
    <3> QED BY <2>3, <3>3
  <2> QED BY <2>4, <2>5
<1>19. ASSUME NEW d \in Calls, phase'[d] = "spawn" PROVE Unused(lo, rm, from2, d)'
  <2>1. CASE d = c BY <1>17, <2>1
  <2>2. CASE d # c
    <3>1. Crew(d)' = Crew(d) /\ Unit(rm, d)' = Unit(rm, d) /\ team'[d] = team[d]
      BY <1>1, <1>2, <1>4, <1>15, <2>2
    <3>2. \A v \in Threads : from2[d][v] = from[d][v] BY <1>14, <2>2
    <3>3. phase[d] = "spawn" /\ Open(d) BY <1>1, <1>19 DEF Open
    <3>4. Unused(lo, rm, from, d) /\ Crew(d) \subseteq Threads BY <3>3, OpenCalls DEF NInv, RoomInv
    <3> QED BY <1>1, <3>1, <3>2, <3>4 DEF Unused
  <2> QED BY <2>1, <2>2
<1>20. Handed(lo, rm, from2)'
  <2> SUFFICES ASSUME NEW p \in Calls, NEW e \in Calls, NEW v \in Threads, WaitsFor(p, v, e)'
               PROVE  lo[e] = from2[p][v] /\ rm[e] = Unit(rm, p)'
    BY DEF Handed
  <2>1. WaitsFor(p, v, e) BY <1>5 DEF SameWaits
  <2>2. v # u BY <1>3, <2>1, OpenCalls
  <2>3. lo[e] = from[p][v] /\ rm[e] = Unit(rm, p) BY <2>1 DEF NInv, RoomInv, Handed
  <2> QED BY <1>14, <1>15, <2>2, <2>3
<1>21. Nested(lv, lo, rm)'
  BY <1>4, <1>5 DEF NInv, RoomInv, Nested, Below, Apart, SameWaits
<1>22. RoomInv(lv, lo, rm, from2)' BY <1>18, <1>19, <1>20, <1>21 DEF RoomInv
<1> QED BY <1>6, <1>9, <1>12, <1>14, <1>22 DEF NInv, Numbering, NestInv

\* A step in call c that leaves open calls, loops and thread-local state alone.
LEMMA StaysQuiet ==
  ASSUME IInv, NEW c \in Calls, OnlyCall(c),
         UNCHANGED <<available, width, share, saved, limit, depth>>,
         Open(c)' <=> Open(c),
         Open(c) => /\ owner'[c] = owner[c] /\ team'[c] = team[c]
                    /\ phase'[c] = "serial" <=> phase[c] = "serial"
                    /\ phase'[c] = "spawn" => phase[c] = "spawn",
         \A u \in Threads, d \in Calls : Open(d) => (AtItem(c, u, d)' <=> AtItem(c, u, d)),
         \A u \in Threads : (c \in LoopsOf(u))' <=> c \in LoopsOf(u)
  PROVE  Quiet
<1>1. SameWaits /\ \A d \in Calls : Open(d)' <=> Open(d) BY InnerWaits
<1>2. ASSUME NEW d \in Calls
      PROVE  /\ Open(d)' <=> Open(d)
             /\ Open(d) => owner'[d] = owner[d] /\ team'[d] = team[d]
             /\ Open(d) => (phase'[d] = "serial" <=> phase[d] = "serial")
             /\ phase'[d] = "spawn" => phase[d] = "spawn"
  <2>1. CASE d = c BY <1>1, <2>1 DEF Open
  <2>2. CASE d # c BY <1>1, <2>2 DEF OnlyCall, Untouched
  <2> QED BY <2>1, <2>2
<1>3. SameCalls BY <1>1, <1>2 DEF SameCalls
<1>4. SameLoops BY LoopsElsewhere
<1> QED BY <1>3, <1>4 DEF Quiet

\* A step in call c keeps the numbering, when it is quiet.
LEMMA QuietStep ==
  ASSUME IInv, RootFirst', NEW lv, NEW lo, NEW rm, NEW from, NInv(lv, lo, rm, from),
         NEW c \in Calls, OnlyCall(c), Quiet, phase'[c] \in Parallel => phase[c] \in Parallel
  PROVE  NestInv'
<1>1. \A d \in Calls : phase'[d] \in Parallel => phase[d] \in Parallel
  BY DEF OnlyCall, Untouched
<1> QED BY <1>1, QuietKeeps DEF NestInv

LEMMA ReturnEmptyQuiet ==
  ASSUME IInv, NEW c \in Calls, NEW t \in Threads, ReturnEmpty(c, t)
  PROVE  OnlyCall(c) /\ Quiet /\ phase'[c] \notin Parallel
<1>0. OnlyCall(c) /\ phase[c] = "idle" BY ReturnEmptyInv DEF ReturnEmpty, Enter
<1>1. /\ phase'[c] = "done" /\ UNCHANGED <<available, width, share, saved, limit, depth>>
      /\ pc' = pc /\ at' = at /\ stop' = stop
  BY DEF ReturnEmpty, Enter, loopVars, tlsVars, IInv, TypeOK
<1>2. \A u \in Threads : pc[c][u] = "out" BY <1>0, RunnersAreWithin DEF Within, Open
<1>3. ~Open(c) /\ ~Open(c)' BY <1>0, <1>1 DEF Open
<1>4. \A u \in Threads, d \in Calls : AtItem(c, u, d)' <=> AtItem(c, u, d) BY <1>1 DEF AtItem
<1>5. \A u \in Threads : (c \in LoopsOf(u))' <=> c \in LoopsOf(u) BY <1>1, <1>2 DEF LoopsOf
<1>6. Quiet BY <1>0, <1>1, <1>3, <1>4, <1>5, StaysQuiet
<1> QED BY <1>0, <1>1, <1>6 DEF Parallel

LEMMA LockQuiet ==
  ASSUME IInv, NEW c \in Calls, NEW t \in Threads, Lock(c, t)
  PROVE  OnlyCall(c) /\ Quiet /\ phase'[c] = phase[c]
<1>0. OnlyCall(c) /\ pc[c][t] = "loop" BY LockInv DEF Lock
<1>1. /\ UNCHANGED <<available, phase, owner, width, share, team, stop, saved, limit, depth>>
      /\ pc'[c][t] = "locked"
      /\ \A u \in Threads : u # t => pc'[c][u] = pc[c][u] /\ at'[c][u] = at[c][u]
  BY DEF Lock, Place, callVars, tlsVars, IInv, TypeOK
<1>2. \A u \in Threads, d \in Calls : AtItem(c, u, d)' <=> AtItem(c, u, d)
  BY <1>0, <1>1 DEF AtItem
<1>3. \A u \in Threads : (c \in LoopsOf(u))' <=> c \in LoopsOf(u) BY <1>0, <1>1 DEF LoopsOf
<1>4. Open(c)' <=> Open(c) BY <1>1 DEF Open
<1>5. Quiet BY <1>0, <1>1, <1>2, <1>3, <1>4, StaysQuiet
<1> QED BY <1>0, <1>1, <1>5

LEMMA ClaimQuiet ==
  ASSUME IInv, Asked, NEW c \in Calls, NEW t \in Threads, Claim(c, t)
  PROVE  OnlyCall(c) /\ Quiet /\ phase'[c] = phase[c]
<1>0. OnlyCall(c) /\ pc[c][t] = "locked" /\ at[c][t] < Count[c] BY ClaimInv DEF Claim
<1>1. /\ UNCHANGED <<available, phase, owner, width, share, team, at, saved, limit, depth>>
      /\ pc'[c][t] = "run"
      /\ \A u \in Threads : u # t => pc'[c][u] = pc[c][u] /\ stop'[c][u] = stop[c][u]
  BY DEF Claim, Place, callVars, tlsVars, IInv, TypeOK
<1>2. Members(c) /\ Locking(c) /\ Accounting(c) /\ LocalTypes(c) BY InvAtCall
<1>3. phase[c] \in Parallel /\ phase[c] # "serial" /\ at[c][t] = next[c]
  BY <1>0, <1>2 DEF Members, Locking, Parallel, LocalTypes, Phases
<1>4. ASSUME NEW u \in Threads, NEW d \in Calls, Open(d) PROVE AtItem(c, u, d)' <=> AtItem(c, u, d)
  <2>1. CASE u # t BY <1>1, <2>1 DEF AtItem
  <2>2. CASE u = t
    <3>1. ~AtItem(c, t, d) BY <1>0 DEF AtItem
    <3>2. ASSUME AtItem(c, t, d)' PROVE FALSE
      <4>1. Child[c][at[c][t]] = d /\ at[c][t] \in Items(c)
        BY <1>0, <1>1, <1>2, <3>2 DEF AtItem, Items, LocalTypes
      <4>2. PICK v \in Threads : WaitsFor(c, v, d) /\ at[c][v] = at[c][t]
        BY <1>4, <4>1, AskedForItem
      <4>3. pc[c][v] = "run" /\ at[c][v] < stop[c][v] BY <4>2 DEF WaitsFor, AtItem
      <4>4. stop[c][v] <= next[c] BY <1>2, <1>3, <4>3 DEF Accounting, Ranges
      <4> QED BY <1>2, <1>3, <4>2, <4>3, <4>4 DEF LocalTypes
    <3> QED BY <2>2, <3>1, <3>2
  <2> QED BY <2>1, <2>2
<1>5. \A u \in Threads : (c \in LoopsOf(u))' <=> c \in LoopsOf(u) BY <1>0, <1>1 DEF LoopsOf
<1>6. Open(c)' <=> Open(c) BY <1>1 DEF Open
<1>7. Quiet BY <1>0, <1>1, <1>4, <1>5, <1>6, StaysQuiet
<1> QED BY <1>0, <1>1, <1>7

LEMMA RunItemQuiet ==
  ASSUME IInv, Asked, NEW c \in Calls, NEW t \in Threads, RunItem(c, t)
  PROVE  OnlyCall(c) /\ Quiet /\ phase'[c] = phase[c]
<1>1. /\ OnlyCall(c) /\ pc[c][t] = "run" /\ at[c][t] < stop[c][t]
      /\ Child[c][at[c][t]] # NoCall => phase[Child[c][at[c][t]]] = "done"
  BY RunItemInv DEF RunItem
<1>2. /\ UNCHANGED <<available, phase, owner, width, share, team, pc, stop, saved, limit, depth>>
      /\ at'[c][t] = at[c][t] + 1
      /\ \A u \in Threads : u # t => at'[c][u] = at[c][u]
  BY DEF RunItem, callVars, tlsVars, IInv, TypeOK
<1>3. Members(c) /\ Locking(c) /\ Accounting(c) /\ LocalTypes(c) BY InvAtCall
<1>4. ASSUME NEW u \in Threads, NEW d \in Calls, Open(d) PROVE AtItem(c, u, d)' <=> AtItem(c, u, d)
  <2>1. CASE u # t BY <1>2, <2>1 DEF AtItem
  <2>2. CASE u = t
    <3>1. ~AtItem(c, t, d) BY <1>1, <1>4, CallTreeAssumption DEF AtItem, Open
    <3>2. ASSUME AtItem(c, t, d)' PROVE FALSE
      <4> DEFINE i == at[c][t] + 1
      <4>1. Child[c][i] = d /\ i \in Items(c) /\ Holds(c, t, i) /\ i # at[c][t]
        BY <1>1, <1>2, <1>3, <3>2, SMTT(40) DEF AtItem, Items, LocalTypes, Holds, Accounting, Ranges
      <4>2. PICK v \in Threads : WaitsFor(c, v, d) /\ at[c][v] = i
        BY <1>4, <4>1, AskedForItem
      <4>3. Holds(c, v, i) BY <4>2, AtItemFacts DEF WaitsFor
      <4>4. v = t BY <4>1, <4>3, Disjoint DEF ClaimsDisjoint
      <4> QED BY <4>1, <4>2, <4>4
    <3> QED BY <2>2, <3>1, <3>2
  <2> QED BY <2>1, <2>2
<1>5. \A u \in Threads : (c \in LoopsOf(u))' <=> c \in LoopsOf(u) BY <1>1, <1>2 DEF LoopsOf
<1>6. Open(c)' <=> Open(c) BY <1>2 DEF Open
<1>7. Quiet BY <1>1, <1>2, <1>4, <1>5, <1>6, StaysQuiet
<1> QED BY <1>1, <1>2, <1>7

\* The range of a worker is done: it looks for more.
LEMMA FinishRangeQuiet ==
  ASSUME IInv, NEW c \in Calls, NEW t \in Threads, FinishRange(c, t), phase[c] # "serial"
  PROVE  OnlyCall(c) /\ Quiet /\ phase'[c] = phase[c]
<1>0. OnlyCall(c) /\ pc[c][t] = "run" /\ at[c][t] = stop[c][t] BY FinishRangeInv DEF FinishRange
<1>1. /\ UNCHANGED <<available, phase, owner, width, share, team, saved, limit, depth>>
      /\ pc'[c][t] = "loop"
      /\ \A u \in Threads : u # t => /\ pc'[c][u] = pc[c][u] /\ at'[c][u] = at[c][u]
                                     /\ stop'[c][u] = stop[c][u]
  BY DEF FinishRange, Place, tlsVars, IInv, TypeOK
<1>2. LocalTypes(c) BY InvAtCall
<1>3. \A u \in Threads, d \in Calls : AtItem(c, u, d)' <=> AtItem(c, u, d)
  BY <1>0, <1>1, <1>2 DEF AtItem, LocalTypes
<1>4. \A u \in Threads : (c \in LoopsOf(u))' <=> c \in LoopsOf(u) BY <1>0, <1>1 DEF LoopsOf
<1>5. Open(c)' <=> Open(c) BY <1>1 DEF Open
<1>6. Quiet BY <1>0, <1>1, <1>3, <1>4, <1>5, StaysQuiet
<1> QED BY <1>0, <1>1, <1>6
-----------------------------------------------------------------------------
\* A call in which nobody is at an item, and that nobody is in afterwards.
LEMMA EndsNow ==
  ASSUME IInv, NEW e \in Calls, OnlyCall(e), Open(e), phase' = [phase EXCEPT ![e] = "done"],
         UNCHANGED <<available, owner, width, share, saved, limit, depth>>,
         \A u \in Threads : /\ \A d \in Calls : ~AtItem(e, u, d)
                            /\ pc'[e][u] = "out" /\ e \notin LoopsOf(u)
  PROVE  EndStep(e)
<1>1. phase'[e] = "done" BY DEF IInv, TypeOK
<1>2. \A d \in Calls : Open(d)' <=> Open(d) /\ d # e
  BY <1>1 DEF OnlyCall, Untouched, Open
<1>3. \A u \in Threads : ~Waits(e, u) BY DEF Waits, WaitsFor
<1>4. \A p, d \in Calls, u \in Threads : WaitsFor(p, u, d)' <=> WaitsFor(p, u, d) /\ d # e
  <2> SUFFICES ASSUME NEW p \in Calls, NEW d \in Calls, NEW u \in Threads
               PROVE  WaitsFor(p, u, d)' <=> WaitsFor(p, u, d) /\ d # e
    OBVIOUS
  <2>1. CASE p = e BY <2>1 DEF WaitsFor, AtItem
  <2>2. CASE p # e
    <3>1. AtItem(p, u, d)' <=> AtItem(p, u, d) BY <2>2 DEF OnlyCall, Untouched, AtItem
    <3> QED BY <1>2, <3>1 DEF WaitsFor
  <2> QED BY <2>1, <2>2
<1>5. SameLoops
  <2>1. \A u \in Threads : (e \in LoopsOf(u))' <=> e \in LoopsOf(u) BY DEF LoopsOf
  <2> QED BY <2>1, LoopsElsewhere
<1>6. \A c \in Calls \ {e} : team'[c] = team[c] BY DEF OnlyCall, Untouched
<1> QED BY <1>3, <1>4, <1>5, <1>6 DEF EndStep

LEMMA FinishRangeEnds ==
  ASSUME IInv, NEW c \in Calls, NEW t \in Threads, FinishRange(c, t), phase[c] = "serial"
  PROVE  EndStep(c)
<1>0. /\ OnlyCall(c) /\ Open(c) /\ pc[c][t] = "run" /\ at[c][t] = stop[c][t]
  BY FinishRangeInv DEF FinishRange, Open
<1>1. /\ phase' = [phase EXCEPT ![c] = "done"]
      /\ UNCHANGED <<available, owner, width, share, saved, limit, depth>>
      /\ pc'[c][t] = "out" /\ \A u \in Threads : u # t => pc'[c][u] = pc[c][u]
  BY DEF FinishRange, Place, tlsVars, IInv, TypeOK
<1>2. LocalTypes(c) /\ \A u \in Threads : u # t => pc[c][u] = "out"
  BY <1>0, InvAtCall DEF Members, Parallel
<1>3. \A u \in Threads : /\ \A d \in Calls : ~AtItem(c, u, d)
                         /\ pc'[c][u] = "out" /\ c \notin LoopsOf(u)
  BY <1>0, <1>1, <1>2 DEF AtItem, LoopsOf, LocalTypes
<1> QED BY <1>0, <1>1, <1>3, EndsNow

LEMMA JoinEnds ==
  ASSUME IInv, NEW c \in Calls, Join(c)
  PROVE  EndStep(c)
<1>0. OnlyCall(c) /\ Open(c) /\ phase[c] = "join" BY JoinInv DEF Join, Open
<1>1. /\ phase' = [phase EXCEPT ![c] = "done"]
      /\ UNCHANGED <<available, owner, width, share, saved, limit, depth>>
      /\ \A u \in Threads : pc'[c][u] = IF u \in team[c] THEN "out" ELSE pc[c][u]
  BY DEF Join, tlsVars, IInv, TypeOK
<1>2. \A u \in Threads : pc[c][u] = IF u \in team[c] THEN "exited" ELSE "out"
  BY <1>0, InvAtCall DEF Join, Members, Parallel
<1>3. \A u \in Threads : /\ \A d \in Calls : ~AtItem(c, u, d)
                         /\ pc'[c][u] = "out" /\ c \notin LoopsOf(u)
  BY <1>1, <1>2 DEF AtItem, LoopsOf
<1> QED BY <1>0, <1>1, <1>3, EndsNow
-----------------------------------------------------------------------------
LEMMA NestStep ==
  ASSUME IInv, IInv', NestInv, [Next]_vars
  PROVE  NestInv'
<1> PICK lv, lo, rm, from : NInv(lv, lo, rm, from) BY DEF NestInv
<1>1. CASE UNCHANGED vars
  <2>1. UNCHANGED <<available, phase, owner, width, share, team, pc, at, stop, saved, limit, depth>>
    BY <1>1 DEF vars, callVars, cursorVars, loopVars, tlsVars
  <2>2. SameWaits /\ SameLoops
    BY <2>1 DEF SameWaits, SameLoops, WaitsFor, AtItem, Open, LoopsOf
  <2>3. Quiet BY <2>1, <2>2 DEF Quiet, SameCalls, Open
  <2>4. RootFirst' BY <2>1 DEF NInv, TreeInv, RootFirst
  <2> QED BY <2>1, <2>3, <2>4, QuietKeeps DEF NestInv
<1> SUFFICES ASSUME Next PROVE NestInv' BY <1>1
<1>2. RootFirst' /\ TypeOK' /\ Asked BY RootFirstStep DEF NInv, TreeInv, IInv
<1>3. ASSUME NEW c \in Calls, NEW t \in Threads, CallStep(c, t) PROVE NestInv'
  <2>1. CASE ReturnEmpty(c, t) BY <1>2, <2>1, ReturnEmptyQuiet, QuietStep
  <2>2. CASE RunSerially(c, t) BY <1>2, <2>2, RunSeriallyNests
  <2>3. CASE Fork(c, t) BY <1>2, <2>3, ForkNests
  <2> QED BY <1>3, <2>1, <2>2, <2>3 DEF CallStep
<1>4. ASSUME NEW c \in Calls, NEW t \in Threads, WorkerStep(c, t) PROVE NestInv'
  <2>1. CASE Lock(c, t) BY <1>2, <2>1, LockQuiet, QuietStep
  <2>2. CASE Claim(c, t) BY <1>2, <2>2, ClaimQuiet, QuietStep
  <2>3. CASE LeaveLoop(c, t) BY <1>2, <2>3, LeaveLoopNests
  <2>4. CASE RunItem(c, t) BY <1>2, <2>4, RunItemQuiet, QuietStep
  <2>5. CASE FinishRange(c, t) /\ phase[c] # "serial" BY <1>2, <2>5, FinishRangeQuiet, QuietStep
  <2>6. CASE FinishRange(c, t) /\ phase[c] = "serial"
    BY <1>2, <2>6, FinishRangeEnds, EndKeeps DEF NestInv
  <2> QED BY <1>4, <2>1, <2>2, <2>3, <2>4, <2>5, <2>6 DEF WorkerStep
<1>5. ASSUME NEW c \in Calls, JoinInWork(c) PROVE NestInv' BY <1>2, <1>5, JoinInWorkNests
<1>6. ASSUME NEW c \in Calls, Join(c) PROVE NestInv' BY <1>2, <1>6, JoinEnds, EndKeeps DEF NestInv
<1>7. ASSUME NEW c \in Calls, NEW u \in Threads, Spawn(c, u) PROVE NestInv'
  BY <1>2, <1>7, SpawnNests
<1> QED BY <1>3, <1>4, <1>5, <1>6, <1>7 DEF Next, Progress

LEMMA InitNests == Init => NestInv
<1> SUFFICES ASSUME Init PROVE NestInv OBVIOUS
<1> DEFINE z == [c \in Calls |-> 0]
           f == [c \in Calls |-> [t \in Threads |-> 0]]
<1>1. \A c \in Calls : ~Open(c) /\ phase[c] = "idle" BY DEF Init, Open
<1>2. Numbering(z, z, z, f) BY DEF Numbering
<1> HIDE DEF z, f
<1>3. TreeInv(z)
  BY <1>1 DEF TreeInv, RootFirst, Asked, Levels, OneInnermost, WaitsFor, Within
<1>4. LocalsInv(z)
  <2>1. ASSUME NEW t \in Threads PROVE Locals(z, t)
    <3>1. LoopsOf(t) = {} /\ ForsOf(t) = {} BY DEF Init, LoopsOf, ForsOf
    <3>2. limit[t] = 0 /\ depth[t] = 0 BY DEF Init
    <3> QED BY <3>1, <3>2, FS_EmptySet DEF Locals, IsLimit
  <2>2. \A c \in Calls : Shares(c) BY <1>1 DEF Shares, Parallel
  <2> QED BY <2>1, <2>2 DEF LocalsInv
<1>5. RoomInv(z, z, z, f) BY <1>1 DEF RoomInv, Handed, Nested, WaitsFor
<1> QED BY <1>2, <1>3, <1>4, <1>5 DEF NInv, NestInv

\* Open calls nest, and what each may use lies within what its caller may use.
THEOREM Nesting == Spec => []NestInv
<1>1. IInv /\ IInv' /\ NestInv /\ [Next]_vars => NestInv' BY NestStep
<1> QED BY <1>1, InitNests, Invariance, PTL DEF Spec, SafetySpec

LEMMA LocalsAgree == IInv /\ NestInv => ThreadLocalsMatchNesting
<1> SUFFICES ASSUME IInv, NestInv, NEW t \in Threads
             PROVE  LET shares == {share[c] : c \in LoopsOf(t)} \ {0}
                    IN  /\ depth[t] = Cardinality({c \in LoopsOf(t) : Kind[c] = "for"})
                        /\ limit[t] = IF shares = {} THEN 0 ELSE Least(shares)
  BY DEF ThreadLocalsMatchNesting
<1> DEFINE shares == {share[c] : c \in LoopsOf(t)} \ {0}
<1>1. PICK lv : Locals(lv, t) BY DEF NestInv, NInv, LocalsInv
<1>2. limit[t] \in Int /\ \A x \in LoopsOf(t) : share[x] \in Int
  BY DEF IInv, TypeOK, LoopsOf
<1>3. IsLimit(limit[t], LoopsOf(t)) BY <1>1 DEF Locals
<1>4. CASE shares = {}
  <2>1. \A x \in LoopsOf(t) : share[x] = 0 BY <1>4
  <2>2. limit[t] = 0 BY <1>2, <1>3, <2>1 DEF IsLimit
  <2> QED BY <1>1, <1>4, <2>2 DEF Locals, ForsOf
<1>5. CASE shares # {}
  <2>1. limit[t] \in shares /\ \A y \in shares : y \in Int /\ limit[t] <= y
    BY <1>2, <1>3, <1>5 DEF IsLimit
  <2> HIDE DEF shares
  <2>2. Least(shares) \in shares /\ \A y \in shares : Least(shares) <= y BY <2>1 DEF Least
  <2>3. limit[t] = Least(shares) BY <1>2, <2>1, <2>2
  <2> QED BY <1>1, <1>5, <2>3 DEF Locals, ForsOf, shares
<1> QED BY <1>4, <1>5

\* The thread-local depth and limit say what the nesting of the loops does, for
\* every tree of calls: runtime.c puts back exactly what it found.
THEOREM LocalsMatch == Spec => []ThreadLocalsMatchNesting
BY LocalsAgree, Invariance, Nesting, PTL

\* A spawned thread has a number of its own, behind its call's first.
LEMMA OwnNumber ==
  ASSUME IInv, NEW lv, NEW lo, NEW rm, NEW from, NInv(lv, lo, rm, from),
         NEW c \in Calls, NEW t \in Threads, t \in team[c]
  PROVE  /\ Open(c) /\ t \in Crew(c) /\ Unit(rm, c) \in Int /\ Unit(rm, c) >= 1
         /\ Placed(lo, rm, from, c) /\ lo[c] \in Int /\ rm[c] \in Int
         /\ \A v \in Threads : from[c][v] \in Int
         /\ lo[c] < from[c][t] /\ from[c][t] + Unit(rm, c) <= lo[c] + rm[c]
<1>1. /\ phase[c] \in Parallel /\ owner[c] \in Threads /\ owner[c] # t
      /\ share[c] \in Int /\ Kind[c] \in {"for", "tasks"}
  BY InvAtCall, CallTreeAssumption DEF Members, Parallel, IInv, TypeOK
<1>2. Open(c) /\ t \in Crew(c) /\ owner[c] \in Crew(c) BY <1>1 DEF Open, Crew, Parallel
<1>3. Placed(lo, rm, from, c) BY <1>2 DEF NInv, RoomInv
<1>4. lo[c] \in Int /\ rm[c] \in Int /\ \A v \in Threads : from[c][v] \in Int
  BY DEF NInv, Numbering
<1>5. Unit(rm, c) \in Int /\ Unit(rm, c) >= 1
  <2>1. Shares(c) BY DEF NInv, LocalsInv
  <2> QED BY <1>1, <2>1 DEF Unit, Shares, Parallel
<1>6. lo[c] < from[c][t] /\ from[c][t] + Unit(rm, c) <= lo[c] + rm[c]
  <2>1. /\ from[c][owner[c]] = lo[c] /\ lo[c] <= from[c][t]
        /\ from[c][t] + Unit(rm, c) <= lo[c] + rm[c]
        /\ \/ from[c][t] + Unit(rm, c) <= from[c][owner[c]]
           \/ from[c][owner[c]] + Unit(rm, c) <= from[c][t]
    BY <1>1, <1>2, <1>3 DEF Placed
  <2> QED BY <1>4, <1>5, <2>1
<1> QED BY <1>2, <1>3, <1>4, <1>5, <1>6

LEMMA BelowDiffers ==
  ASSUME IInv, NEW lv, NEW lo, NEW rm, NEW from, NInv(lv, lo, rm, from),
         NEW c \in Calls, NEW t \in Threads, t \in team[c],
         NEW d \in Calls, NEW u \in Threads, u \in team[d], Below(lv, lo, rm, d, c)
  PROVE  from[c][t] # from[d][u]
<1>1. PICK v \in Threads, e \in Calls :
        WaitsFor(c, v, e) /\ lo[e] <= lo[d] /\ lo[d] + rm[d] <= lo[e] + rm[e]
  BY DEF Below
<1>2. /\ lo[e] = from[c][v] /\ rm[e] = Unit(rm, c) /\ v \in Crew(c)
      /\ lo[e] \in Int /\ rm[e] \in Int
  BY <1>1, OpenCalls DEF NInv, RoomInv, Handed, Within, Numbering
<1>3. /\ t \in Crew(c) /\ Unit(rm, c) \in Int /\ Unit(rm, c) >= 1
      /\ \A w \in Threads : from[c][w] \in Int
      /\ Placed(lo, rm, from, c)
  BY OwnNumber
<1>4. /\ lo[d] < from[d][u] /\ from[d][u] + Unit(rm, d) <= lo[d] + rm[d]
      /\ lo[d] \in Int /\ rm[d] \in Int /\ from[d][u] \in Int
      /\ Unit(rm, d) \in Int /\ Unit(rm, d) >= 1
  BY OwnNumber
<1>5. from[c][v] < from[d][u] /\ from[d][u] < from[c][v] + Unit(rm, c)
  BY <1>1, <1>2, <1>3, <1>4
<1>6. t # v => from[c][t] + Unit(rm, c) <= from[c][v] \/ from[c][v] + Unit(rm, c) <= from[c][t]
  BY <1>2, <1>3 DEF Placed
<1> QED BY <1>3, <1>4, <1>5, <1>6

LEMMA NumbersDiffer ==
  ASSUME IInv, NEW lv, NEW lo, NEW rm, NEW from, NInv(lv, lo, rm, from),
         NEW c \in Calls, NEW t \in Threads, t \in team[c],
         NEW d \in Calls, NEW u \in Threads, u \in team[d], t # u
  PROVE  from[c][t] # from[d][u]
<1>1. /\ Open(c) /\ Open(d)
      /\ t \in Crew(c) /\ u \in Crew(d) /\ Placed(lo, rm, from, c)
      /\ Unit(rm, c) \in Int /\ Unit(rm, c) >= 1 /\ Unit(rm, d) \in Int /\ Unit(rm, d) >= 1
      /\ lo[c] < from[c][t] /\ from[c][t] + Unit(rm, c) <= lo[c] + rm[c]
      /\ lo[d] < from[d][u] /\ from[d][u] + Unit(rm, d) <= lo[d] + rm[d]
      /\ lo[c] \in Int /\ rm[c] \in Int /\ from[c][t] \in Int
      /\ lo[d] \in Int /\ rm[d] \in Int /\ from[d][u] \in Int
  BY OwnNumber
<1>2. CASE c = d
  <2>1. from[c][t] + Unit(rm, c) <= from[c][u] \/ from[c][u] + Unit(rm, c) <= from[c][t]
    BY <1>1, <1>2 DEF Placed
  <2> QED BY <1>1, <1>2, <2>1
<1>3. CASE Apart(lo, rm, c, d) BY <1>1, <1>3 DEF Apart
<1>4. CASE Below(lv, lo, rm, d, c) BY <1>4, BelowDiffers
<1>5. CASE Below(lv, lo, rm, c, d) BY <1>5, BelowDiffers
<1> QED BY <1>1, <1>2, <1>3, <1>4, <1>5 DEF NInv, RoomInv, Nested

LEMMA EnoughNumbers == IInv /\ NestInv => ThreadBudget
<1> SUFFICES ASSUME IInv, NestInv PROVE ThreadBudget OBVIOUS
<1> PICK lv, lo, rm, from : NInv(lv, lo, rm, from) BY DEF NestInv
<1>1. available \in Nat /\ available >= 1 BY ConstantTypes DEF IInv, TypeOK
<1> DEFINE call(t)   == CHOOSE c \in Calls : t \in team[c]
           Number(t) == IF t = Main THEN 0 ELSE from[call(t)][t]
           f         == [t \in Alive |-> Number(t)]
<1>2. \A t \in Alive : t \in Threads /\ (t # Main => call(t) \in Calls /\ t \in team[call(t)])
  BY ConstantTypes DEF Alive
<1> HIDE DEF call
<1>3. ASSUME NEW t \in Alive, t # Main PROVE Number(t) \in 1 .. available - 1
  <2> DEFINE c == call(t)
  <2>1. c \in Calls /\ t \in Threads /\ t \in team[c] /\ Number(t) = from[c][t]
    BY <1>2, <1>3
  <2> HIDE DEF c
  <2>2. /\ lo[c] < from[c][t] /\ from[c][t] + Unit(rm, c) <= lo[c] + rm[c]
        /\ Unit(rm, c) \in Int /\ Unit(rm, c) >= 1 /\ from[c][t] \in Int
        /\ lo[c] \in Int /\ rm[c] \in Int /\ lo[c] >= 0 /\ lo[c] + rm[c] <= available
    BY <2>1, OwnNumber DEF Placed
  <2> QED BY <1>1, <2>1, <2>2
<1>4. f \in [Alive -> 0 .. available - 1]
  <2> SUFFICES ASSUME NEW t \in Alive PROVE Number(t) \in 0 .. available - 1 OBVIOUS
  <2> QED BY <1>1, <1>3
<1>5. ASSUME NEW t \in Alive, NEW u \in Alive, t # u PROVE f[t] # f[u]
  <2>0. f[t] = Number(t) /\ f[u] = Number(u) OBVIOUS
  <2>1. CASE t = Main
    <3>1. Number(t) = 0 /\ Number(u) \in 1 .. available - 1 BY <1>3, <1>5, <2>1
    <3> QED BY <1>1, <2>0, <3>1
  <2>2. CASE u = Main
    <3>1. Number(u) = 0 /\ Number(t) \in 1 .. available - 1 BY <1>3, <1>5, <2>2
    <3> QED BY <1>1, <2>0, <3>1
  <2>3. CASE t # Main /\ u # Main
    BY <1>2, <1>5, <2>0, <2>3, NumbersDiffer
  <2> QED BY <2>1, <2>2, <2>3
<1>6. IsFiniteSet(Alive)
  <2>1. Threads = 0 .. ThreadIds - 1 /\ 0 \in Int /\ ThreadIds - 1 \in Int
    BY ThreadsAssumption DEF Threads
  <2>2. IsFiniteSet(Threads) BY <2>1, FS_Interval
  <2>3. Alive \subseteq Threads BY <1>2
  <2> QED BY <2>2, <2>3, FS_Subset
<1>7. IsFiniteSet(0 .. available - 1) /\ Cardinality(0 .. available - 1) = available
  <2>1. 0 \in Int /\ available - 1 \in Int /\ ~(0 > available - 1) BY <1>1
  <2> QED BY <1>1, <2>1, FS_Interval
<1> HIDE DEF f
<1>8. ~(available < Cardinality(Alive))
  BY <1>4, <1>5, <1>6, <1>7, FS_PigeonHole
<1>9. Cardinality(Alive) \in Nat BY <1>6, FS_CardinalityType
<1> QED BY <1>1, <1>8, <1>9 DEF ThreadBudget

\* No program has more threads alive than FLOWARROW_THREADS or the processors
\* allow, however its calls nest and whichever pthread_create fails.
THEOREM Budget == Spec => []ThreadBudget
BY EnoughNumbers, Invariance, Nesting, PTL
=============================================================================
