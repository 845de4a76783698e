-------------------------- MODULE WorkerPoolProofs --------------------------
(***************************************************************************)
(* Proofs about WorkerPool for any mappers, calls, demands and teardowns,  *)
(* and any bound on pools and workers.  The invariant relates a worker's   *)
(* mail, its inbox and the job its promise belongs to (SlotInv), a call's  *)
(* ranges and its place in the queue (CallInv, QueueInv), and a retirement *)
(* and the threads it leaves (PoolInv, CloseInv).                          *)
(***************************************************************************)
EXTENDS WorkerPool, WellFoundedInduction, TLAPS

Events == {"ready", "done", "error"}

\* TypeOK, with the sequences typed as the prover needs them.
Types ==
  /\ registry \in [Mappers -> Pools \cup {None}]
  /\ made \in [Pools -> {"no", "pending", "ok", "rejected"}]
  /\ retired \in [Pools -> BOOLEAN]
  /\ size \in [Pools -> 0 .. MaxWorkers]
  /\ queue \in [Pools -> Seq(Calls)]
  /\ call \in [Calls -> {"new", "awaitsPool", "hasPool", "queued", "running", "retires",
                         "done", "failed"}]
  /\ poolOf \in [Calls -> Pools \cup {None}]
  /\ job \in [Calls -> [Slots -> {"none", "awaitsReady", "posted", "resolved", "rejected"}]]
  /\ wrote \in [Calls -> [Slots -> BOOLEAN]]
  /\ thread \in [Pools -> [Slots -> {"none", "starting", "up", "dead"}]]
  /\ inbox \in [Pools -> [Slots -> Seq(Calls)]]
  /\ mail \in [Pools -> [Slots -> Seq(Events)]]
  /\ alive \in [Pools -> [Slots -> BOOLEAN]]
  /\ ready \in [Pools -> [Slots -> {"pending", "resolved", "rejected"}]]
  /\ holder \in [Pools -> [Slots -> Calls \cup {NoCall}]]
  /\ closing \in [Retirers -> [Pools -> {"no", "awaitsPool", "drain", "closed"}]]
  /\ awaited \in [Retirers -> [Pools -> SUBSET Calls]]

\* A worker has at most one event on its way, and an answer on its way is the
\* answer of the job its promise belongs to: that is why it need name none.
SlotInv(p, k) ==
  /\ mail[p][k] \in {<<>>, <<"ready">>, <<"done">>, <<"error">>}
  /\ thread[p][k] \in {"none", "starting"} => mail[p][k] = <<>> /\ ready[p][k] = "pending"
  /\ ready[p][k] = "pending" => holder[p][k] = NoCall /\ mail[p][k] # <<"done">>
  /\ ready[p][k] = "resolved" => mail[p][k] # <<"ready">>
  /\ ready[p][k] = "rejected" => ~alive[p][k]
  /\ ready[p][k] # "pending" /\ holder[p][k] = NoCall => mail[p][k] = <<>>
  /\ ready[p][k] = "rejected" => holder[p][k] = NoCall
  /\ holder[p][k] = NoCall => inbox[p][k] = <<>>
  /\ holder[p][k] # NoCall =>
       /\ inbox[p][k] \in {<<>>, <<holder[p][k]>>}
       /\ inbox[p][k] # <<>> => mail[p][k] = <<>>
       /\ mail[p][k] = <<"done">> => wrote[holder[p][k]][k]

\* Only a pool that was made has workers, and only its workers have threads.
PoolInv(p) ==
  /\ size[p] # 0 => made[p] = "ok"
  /\ \A k \in Slots : thread[p][k] # "none" <=> k <= size[p]

\* A retirement is over when the pool has no live thread and can get none.
CloseInv(r, p) ==
  /\ closing[r][p] = "drain" => retired[p] /\ made[p] = "ok"
  /\ closing[r][p] = "closed" =>
       \/ made[p] = "rejected"
       \/ retired[p] /\ made[p] = "ok" /\ \A k \in Slots : thread[p][k] \in {"none", "dead"}

\* A map that has its pool finds a worker there for each of its ranges, and a
\* range whose promise resolved is written.
CallInv(m) ==
  /\ call[m] \in {"awaitsPool", "hasPool", "queued", "running"} => poolOf[m] \in Pools
  /\ call[m] \in {"hasPool", "queued", "running"} =>
       m \notin Prewarms /\ Demand[m] <= size[poolOf[m]]
  /\ call[m] = "running" => \A k \in Ranges(m) : job[m][k] # "none"
  /\ \A k \in Slots : job[m][k] = "resolved" => wrote[m][k]
  /\ m \notin Prewarms /\ call[m] = "done" => \A k \in Ranges(m) : wrote[m][k]

\* A call that is queued has its place in the queue of its pool, one that runs
\* has the first.
QueueInv(m) ==
  /\ call[m] = "queued" => \E i \in 1 .. Len(queue[poolOf[m]]) : queue[poolOf[m]][i] = m
  /\ call[m] = "running" => queue[poolOf[m]] # <<>> /\ Head(queue[poolOf[m]]) = m

IInv ==
  /\ Types
  /\ \A p \in Pools, k \in Slots : SlotInv(p, k)
  /\ \A p \in Pools : PoolInv(p)
  /\ \A r \in Retirers, p \in Pools : CloseInv(r, p)
  /\ \A m \in Calls : CallInv(m) /\ QueueInv(m)
-----------------------------------------------------------------------------
Descends == {ss \in Nat \X Nat : ss[1] < ss[2]}

\* A non-empty set of naturals has a smallest element.
LEMMA LeastNatural ==
  ASSUME NEW T \in SUBSET Nat, T # {}
  PROVE  \E x \in T : \A y \in T : x <= y
<1>1. IsWellFoundedOn(Descends, Nat)
  <2>1. OpToRel(<, Nat) = Descends BY DEF OpToRel, Descends
  <2> QED BY <2>1, NatLessThanWellFounded
<1>2. PICK x \in T : \A y \in T : ~(<<y, x>> \in Descends)
  BY <1>1, WFMin
<1>3. ASSUME NEW y \in T PROVE x <= y
  <2>1. x \in Nat /\ y \in Nat /\ <<y, x>> \in Nat \X Nat OBVIOUS
  <2>2. ~(y < x) BY <1>2, <2>1 DEF Descends
  <2> QED BY <2>1, <2>2
<1> QED BY <1>3

\* Updates of a table keep its type, wherever they fall.
LEMMA TableUpdate ==
  ASSUME NEW A, NEW B, NEW C, NEW f \in [A -> [B -> C]], NEW a, NEW b,
         NEW v, a \in A /\ b \in B => v \in C
  PROVE  [f EXCEPT ![a][b] = v] \in [A -> [B -> C]]
  OBVIOUS

LEMMA TableRead ==
  ASSUME NEW A, NEW B, NEW C, NEW f \in [A -> [B -> C]], NEW a \in A, NEW b \in B,
         NEW v, NEW c \in A, NEW d \in B
  PROVE  [f EXCEPT ![a][b] = v][c][d] = IF c = a /\ d = b THEN v ELSE f[c][d]
  OBVIOUS

LEMMA FlagUpdate ==
  ASSUME NEW A, NEW B, NEW f \in [A -> [B -> BOOLEAN]], NEW a, NEW b
  PROVE  [f EXCEPT ![a][b] = FALSE] \in [A -> [B -> BOOLEAN]]
  OBVIOUS

\* A sequence of at most one element: adding to it, taking from it.
LEMMA OneElement ==
  ASSUME NEW x
  PROVE  /\ Append(<<>>, x) = <<x>> /\ <<x>> # <<>>
         /\ Head(<<x>>) = x /\ Tail(<<x>>) = <<>>
  OBVIOUS

\* Tails and appends of a sequence of calls keep its type and its elements.
LEMMA QueueFacts ==
  ASSUME NEW S, NEW q \in Seq(S)
  PROVE  /\ q # <<>> => /\ Tail(q) \in Seq(S) /\ Head(q) \in S /\ Head(q) = q[1]
                        /\ Len(Tail(q)) = Len(q) - 1 /\ Len(q) \in Nat \ {0}
                        /\ \A i \in 1 .. Len(q) - 1 : Tail(q)[i] = q[i + 1]
         /\ \A x \in S : /\ Append(q, x) \in Seq(S) /\ Append(q, x) # <<>>
                         /\ Len(Append(q, x)) = Len(q) + 1
                         /\ Append(q, x)[Len(q) + 1] = x
                         /\ \A i \in 1 .. Len(q) : Append(q, x)[i] = q[i]
                         /\ q # <<>> => Head(Append(q, x)) = Head(q)
  OBVIOUS

\* Every invariant holds at first.
LEMMA InitInv == Init => IInv
<1> SUFFICES ASSUME Init PROVE IInv
  OBVIOUS
<1>1. Types
  BY WorkerPoolAssumption DEF Init, Types, Pools, Slots, None, Retirers
<1>2. \A p \in Pools, k \in Slots : SlotInv(p, k)
  BY DEF Init, SlotInv
<1>3. \A p \in Pools : PoolInv(p)
  BY WorkerPoolAssumption DEF Init, PoolInv, Slots
<1>4. \A r \in Retirers, p \in Pools : CloseInv(r, p)
  BY DEF Init, CloseInv
<1>5. \A m \in Calls : CallInv(m) /\ QueueInv(m)
  BY DEF Init, CallInv, QueueInv, Slots
<1> QED BY <1>1, <1>2, <1>3, <1>4, <1>5 DEF IInv
-----------------------------------------------------------------------------
\* What the event loop does with each event of a worker.
LEMMA EventFacts ==
  ASSUME Types, NEW p \in Pools, NEW k \in Slots, HandleEvent(p, k)
  PROVE  /\ Head(mail[p][k]) \in Events
         /\ Head(mail[p][k]) = "ready" =>
              /\ ready' = [ready EXCEPT ![p][k] = "resolved"]
              /\ UNCHANGED <<alive, holder, job>>
         /\ Head(mail[p][k]) = "done" =>
              /\ SettleHolder(p, k, "resolved")
              /\ UNCHANGED <<alive, ready>>
         /\ Head(mail[p][k]) = "error" =>
              /\ alive' = [alive EXCEPT ![p][k] = FALSE]
              /\ ready' = [ready EXCEPT ![p][k] =
                             IF ready[p][k] = "pending" THEN "rejected" ELSE ready[p][k]]
              /\ SettleHolder(p, k, "rejected")
<1> DEFINE e == Head(mail[p][k])
<1>1. e \in Events BY QueueFacts DEF Types, HandleEvent
<1>2. e = "ready" => ready' = [ready EXCEPT ![p][k] = "resolved"] /\ UNCHANGED <<alive, holder, job>>
  BY DEF HandleEvent
<1>3. e = "done" => SettleHolder(p, k, "resolved") /\ UNCHANGED <<alive, ready>>
  BY DEF HandleEvent
<1>4. e = "error" => /\ alive' = [alive EXCEPT ![p][k] = FALSE]
                     /\ ready' = [ready EXCEPT ![p][k] =
                                    IF ready[p][k] = "pending" THEN "rejected" ELSE ready[p][k]]
                     /\ SettleHolder(p, k, "rejected")
  BY DEF HandleEvent
<1> QED BY <1>1, <1>2, <1>3, <1>4

\* The state keeps its shape, action by action.
LEMMA TypesStep ==
  ASSUME IInv, [Next]_vars
  PROVE  Types'
<1> USE DEF IInv
<1>1. ASSUME NEW m \in Calls, LookUp(m) PROVE Types'
  <2> DEFINE fresh == {p \in Pools : made[p] = "no"}
             q == CHOOSE q \in fresh : \A r \in fresh : q <= r
             p == IF registry[MapperOf[m]] # None THEN registry[MapperOf[m]] ELSE q
  <2>1. fresh # {} => q \in Pools
    <3>1. fresh \in SUBSET Nat BY WorkerPoolAssumption DEF Pools
    <3>2. fresh # {} => \E x \in fresh : \A y \in fresh : x <= y
      <4> HIDE DEF fresh
      <4> QED BY <3>1, LeastNatural
    <3> QED BY <3>2
  <2>2. MapperOf[m] \in Mappers BY WorkerPoolAssumption
  <2>3. p \in Pools BY <1>1, <2>1, <2>2 DEF LookUp, Types
  <2>4. /\ registry' = [registry EXCEPT ![MapperOf[m]] = p]
        /\ made' = [made EXCEPT ![p] = IF @ = "no" THEN "pending" ELSE @]
        /\ call' = [call EXCEPT ![m] = "awaitsPool"]
        /\ poolOf' = [poolOf EXCEPT ![m] = p]
        /\ UNCHANGED <<retired, size, queue, job, wrote, threadVars, workerVars, closeVars>>
    BY <1>1 DEF LookUp
  <2> HIDE DEF p
  <2> QED BY <2>2, <2>3, <2>4 DEF Types, threadVars, workerVars, closeVars
<1>2. ASSUME NEW p \in Pools, Create(p) PROVE Types'
  BY <1>2 DEF Types, Create, callVars, threadVars, workerVars, closeVars
<1>3. ASSUME NEW m \in Calls, PoolRefused(m) PROVE Types'
  BY <1>3 DEF Types, PoolRefused, poolVars, threadVars, workerVars, closeVars
<1>4. ASSUME NEW m \in Calls, PoolObtained(m) PROVE Types'
  <2>1. poolOf[m] \in Pools /\ Demand[m] \in 0 .. MaxWorkers
    BY <1>4, WorkerPoolAssumption DEF PoolObtained, CallInv
  <2> QED BY <1>4, <2>1 DEF Types, PoolObtained, Grow, closeVars
<1>5. ASSUME NEW m \in Calls, GrowFails(m) PROVE Types'
  <2>1. poolOf[m] \in Pools /\ Demand[m] \in 0 .. MaxWorkers
    BY <1>5, WorkerPoolAssumption DEF GrowFails, CallInv
  <2>2. PICK grown \in size[poolOf[m]] .. Demand[m] - 1 : Grow(poolOf[m], grown)
    BY <1>5 DEF GrowFails
  <2>3. grown \in 0 .. MaxWorkers
    BY <2>1, <2>2, WorkerPoolAssumption DEF Types
  <2>4. Range(queue[poolOf[m]]) \subseteq Calls BY <2>1 DEF Types, Range
  <2>5. /\ size' \in [Pools -> 0 .. MaxWorkers]
        /\ thread' \in [Pools -> [Slots -> {"none", "starting", "up", "dead"}]]
        /\ alive' \in [Pools -> [Slots -> BOOLEAN]]
    BY <2>1, <2>2, <2>3 DEF Types, Grow
  <2>6. /\ registry' \in [Mappers -> Pools \cup {None}] /\ retired' \in [Pools -> BOOLEAN]
        /\ closing' \in [Retirers -> [Pools -> {"no", "awaitsPool", "drain", "closed"}]]
        /\ awaited' \in [Retirers -> [Pools -> SUBSET Calls]]
    BY <1>5, <2>1, <2>4 DEF Types, GrowFails, Retire, Retirers
  <2> QED BY <1>5, <2>5, <2>6 DEF Types, GrowFails
<1>6. ASSUME NEW m \in Calls, Enqueue(m) PROVE Types'
  BY <1>6, QueueFacts DEF Types, Enqueue, CallInv, threadVars, workerVars, closeVars
<1>7. ASSUME NEW m \in Calls, Dispatch(m) PROVE Types'
  <2> DEFINE p == poolOf[m]
  <2>1. p \in Pools /\ queue[p] # <<>>
    BY <1>7 DEF Types, Dispatch, CallInv, QueueInv
  <2>2. Tail(queue[p]) \in Seq(Calls) BY <2>1, QueueFacts DEF Types
  <2>3. UNCHANGED <<registry, made, retired, size, poolOf, wrote, threadVars, workerVars, closeVars>>
    BY <1>7 DEF Dispatch
  <2>4. CASE retired[p]
    <3>1. call' = [call EXCEPT ![m] = "failed"] /\ queue' = [queue EXCEPT ![p] = Tail(@)] /\ job' = job
      BY <1>7, <2>4 DEF Dispatch
    <3> HIDE DEF p
    <3> QED BY <2>1, <2>2, <2>3, <3>1 DEF Types, threadVars, workerVars, closeVars
  <2>5. CASE ~retired[p]
    <3>1. call' = [call EXCEPT ![m] = "running"] /\ queue' = queue
          /\ job' = [job EXCEPT ![m] = [k \in Slots |->
                       IF k \in Ranges(m) /\ k <= size[p] THEN "awaitsReady" ELSE "none"]]
      BY <1>7, <2>5 DEF Dispatch
    <3> HIDE DEF p
    <3> QED BY <2>1, <2>3, <3>1 DEF Types, threadVars, workerVars, closeVars
  <2> QED BY <2>4, <2>5
<1>8. ASSUME NEW m \in Calls, Settle(m) PROVE Types'
  <2>1. poolOf[m] \in Pools /\ queue[poolOf[m]] # <<>>
    BY <1>8 DEF Types, Settle, CallInv, QueueInv
  <2>2. Tail(queue[poolOf[m]]) \in Seq(Calls) BY <2>1, QueueFacts DEF Types
  <2> QED BY <1>8, <2>1, <2>2 DEF Types, Settle, threadVars, workerVars, closeVars
<1>9. ASSUME NEW m \in Calls, NEW k \in Slots, RunJob(m, k) PROVE Types'
  <2> DEFINE p == poolOf[m]
  <2>1. UNCHANGED <<poolVars, call, poolOf, wrote, thread, mail, alive, ready, closeVars>>
    BY <1>9 DEF RunJob
  <2>2. CASE job' = [job EXCEPT ![m][k] = "rejected"] /\ UNCHANGED <<holder, inbox>>
    BY <2>1, <2>2 DEF Types, poolVars, closeVars
  <2>3. CASE /\ job' = [job EXCEPT ![m][k] = "posted"]
             /\ holder' = [holder EXCEPT ![p][k] = m]
             /\ inbox' = [inbox EXCEPT ![p][k] = IF thread[p][k] = "dead" THEN @ ELSE Append(@, m)]
    <3> DEFINE box == IF thread[p][k] = "dead" THEN inbox[p][k] ELSE Append(inbox[p][k], m)
    <3>1. p \in Pools => box \in Seq(Calls) BY QueueFacts DEF Types
    <3>2. inbox' = [inbox EXCEPT ![p][k] = box] BY <2>3
    <3>3. inbox' \in [Pools -> [Slots -> Seq(Calls)]]
      <4> HIDE DEF box, p
      <4> QED BY <3>1, <3>2, TableUpdate DEF Types
    <3> HIDE DEF p, box
    <3> QED BY <2>1, <2>3, <3>3 DEF Types, poolVars, closeVars
  <2> QED BY <1>9, <2>2, <2>3 DEF RunJob
<1>10. ASSUME NEW p \in Pools, NEW k \in Slots, ThreadStarts(p, k) PROVE Types'
  BY <1>10 DEF Types, ThreadStarts, Events, poolVars, callVars, workerVars, closeVars
<1>11. ASSUME NEW p \in Pools, NEW k \in Slots, ThreadRuns(p, k) PROVE Types'
  <2> DEFINE m == Head(inbox[p][k])
  <2>1. m \in Calls /\ Tail(inbox[p][k]) \in Seq(Calls)
    BY <1>11, QueueFacts DEF Types, ThreadRuns
  <2>2. Append(mail[p][k], "done") \in Seq(Events) /\ Append(mail[p][k], "error") \in Seq(Events)
    BY QueueFacts DEF Types, Events
  <2>3. UNCHANGED <<poolVars, call, poolOf, job, workerVars, closeVars>>
    BY <1>11 DEF ThreadRuns
  <2>4. CASE /\ mail' = [mail EXCEPT ![p][k] = Append(@, "done")]
             /\ wrote' = [wrote EXCEPT ![m][k] = TRUE]
             /\ inbox' = [inbox EXCEPT ![p][k] = Tail(@)]
             /\ UNCHANGED thread
    <3> HIDE DEF m
    <3> QED BY <2>1, <2>2, <2>3, <2>4 DEF Types, poolVars, workerVars, closeVars
  <2>5. CASE /\ mail' = [mail EXCEPT ![p][k] = Append(@, "error")]
             /\ thread' = [thread EXCEPT ![p][k] = "dead"]
             /\ inbox' = [inbox EXCEPT ![p][k] = <<>>]
             /\ UNCHANGED wrote
    BY <2>2, <2>3, <2>5 DEF Types, poolVars, workerVars, closeVars
  <2> QED BY <1>11, <2>4, <2>5 DEF ThreadRuns
<1>12. ASSUME NEW p \in Pools, NEW k \in Slots, HandleEvent(p, k) PROVE Types'
  <2>1. Tail(mail[p][k]) \in Seq(Events)
    BY <1>12, QueueFacts DEF Types, HandleEvent
  <2>2. holder[p][k] # NoCall => holder[p][k] \in Calls BY DEF Types
  <2>3. mail' \in [Pools -> [Slots -> Seq(Events)]]
    BY <1>12, <2>1 DEF Types, HandleEvent
  <2>4. UNCHANGED <<poolVars, call, poolOf, wrote, thread, inbox, closeVars>>
    BY <1>12 DEF HandleEvent
  <2>5. \A outcome \in {"resolved", "rejected"} : SettleHolder(p, k, outcome) =>
          /\ holder' \in [Pools -> [Slots -> Calls \cup {NoCall}]]
          /\ job' \in [Calls -> [Slots -> {"none", "awaitsReady", "posted", "resolved", "rejected"}]]
    BY <2>2 DEF Types, SettleHolder
  <2>6. alive' \in [Pools -> [Slots -> BOOLEAN]]
        /\ ready' \in [Pools -> [Slots -> {"pending", "resolved", "rejected"}]]
        /\ (UNCHANGED <<holder, job>> \/ SettleHolder(p, k, "resolved") \/ SettleHolder(p, k, "rejected"))
    <3> DEFINE e == Head(mail[p][k])
    <3>0. Types OBVIOUS
    <3>1. /\ e \in Events
          /\ e = "ready" => ready' = [ready EXCEPT ![p][k] = "resolved"] /\ UNCHANGED <<alive, holder, job>>
          /\ e = "done" => SettleHolder(p, k, "resolved") /\ UNCHANGED <<alive, ready>>
          /\ e = "error" => /\ alive' = [alive EXCEPT ![p][k] = FALSE]
                            /\ ready' = [ready EXCEPT ![p][k] =
                                 IF ready[p][k] = "pending" THEN "rejected" ELSE ready[p][k]]
                            /\ SettleHolder(p, k, "rejected")
      BY <1>12, <3>0, EventFacts
    <3> HIDE DEF e
    <3>2. alive' = alive \/ alive' = [alive EXCEPT ![p][k] = FALSE]
      BY <3>1 DEF Events
    <3>3. \/ ready' = ready \/ ready' = [ready EXCEPT ![p][k] = "resolved"]
          \/ ready' = [ready EXCEPT ![p][k] = "rejected"]
      BY <3>1 DEF Types, Events
    <3>4. alive' \in [Pools -> [Slots -> BOOLEAN]]
      <4>1. alive \in [Pools -> [Slots -> BOOLEAN]] BY DEF Types
      <4>2. [alive EXCEPT ![p][k] = FALSE] \in [Pools -> [Slots -> BOOLEAN]]
        BY ONLY <4>1, FlagUpdate
      <4> QED BY ONLY <3>2, <4>1, <4>2
    <3>5. ready' \in [Pools -> [Slots -> {"pending", "resolved", "rejected"}]]
      <4>1. ready \in [Pools -> [Slots -> {"pending", "resolved", "rejected"}]] BY DEF Types
      <4> QED BY ONLY <3>3, <4>1, TableUpdate
    <3> QED BY <3>1, <3>4, <3>5 DEF Events
  <2> QED BY <2>3, <2>4, <2>5, <2>6 DEF Types, poolVars, closeVars
<1>13. ASSUME NEW t \in Teardowns, TearDown(t) PROVE Types'
  BY <1>13 DEF Types, TearDown, Retirers, callVars, threadVars, workerVars
<1>14. ASSUME NEW t \in Teardowns, NEW p \in Pools, TearDownPool(t, p) PROVE Types'
  <2>1. Range(queue[p]) \subseteq Calls BY DEF Types, Range
  <2>2. UNCHANGED <<made, size, queue, callVars, threadVars, workerVars>>
    BY <1>14 DEF TearDownPool
  <2>3. CASE Retire(t, p)
    BY <2>1, <2>2, <2>3 DEF Types, Retire, Retirers, callVars, threadVars, workerVars
  <2>4. CASE closing' = [closing EXCEPT ![t][p] = "closed"] /\ UNCHANGED <<registry, retired, awaited>>
    BY <2>2, <2>4 DEF Types, Retirers, callVars, threadVars, workerVars
  <2> QED BY <1>14, <2>3, <2>4 DEF TearDownPool
<1>15. ASSUME NEW r \in Retirers, NEW p \in Pools, Terminate(r, p) PROVE Types'
  BY <1>15 DEF Types, Terminate, poolVars
<1>16. CASE UNCHANGED vars
  BY <1>16 DEF Types, vars, poolVars, callVars, threadVars, workerVars, closeVars
<1> QED
  BY <1>1, <1>2, <1>3, <1>4, <1>5, <1>6, <1>7, <1>8, <1>9, <1>10, <1>11, <1>12, <1>13, <1>14,
     <1>15, <1>16 DEF Next, Continue
-----------------------------------------------------------------------------
\* The workers' mail and promises agree, action by action.
LEMMA SlotStep ==
  ASSUME IInv, [Next]_vars, NEW p \in Pools, NEW k \in Slots
  PROVE  SlotInv(p, k)'
<1>0. SlotInv(p, k) /\ PoolInv(p) /\ Types /\ (\A m \in Calls : CallInv(m))
  BY DEF IInv
<1>1. CASE UNCHANGED <<threadVars, workerVars, wrote>>
  BY <1>0, <1>1 DEF SlotInv, threadVars, workerVars
<1>2. ASSUME NEW m \in Calls, PoolObtained(m) \/ GrowFails(m) PROVE SlotInv(p, k)'
  <2>1. PICK grown \in 0 .. MaxWorkers : Grow(poolOf[m], grown)
    <3>1. poolOf[m] \in Pools /\ Demand[m] \in 0 .. MaxWorkers
      BY <1>0, <1>2, WorkerPoolAssumption DEF PoolObtained, GrowFails, CallInv
    <3>2. CASE PoolObtained(m) BY <1>0, <3>1, <3>2 DEF PoolObtained, Types
    <3>3. CASE GrowFails(m) BY <1>0, <3>1, <3>3, WorkerPoolAssumption DEF GrowFails, Types
    <3> QED BY <1>2, <3>2, <3>3
  <2>2. UNCHANGED <<mail, inbox, ready, holder, wrote>>
    BY <1>2 DEF PoolObtained, GrowFails
  <2>3. k \in size[p] + 1 .. grown => thread[p][k] = "none"
    BY <1>0, WorkerPoolAssumption DEF PoolInv, Types, Slots
  <2>4. alive'[p][k] => alive[p][k] \/ thread[p][k] = "none"
    <3>1. CASE p = poolOf[m]
      <4>1. alive'[p] = [x \in Slots |-> x \in size[p] + 1 .. grown \/ alive[p][x]]
        BY <1>0, <2>1, <3>1 DEF Grow, Types
      <4> QED BY <2>3, <4>1
    <3>2. CASE p # poolOf[m] BY <1>0, <2>1, <3>2 DEF Grow, Types
    <3> QED BY <3>1, <3>2
  <2>5. thread'[p][k] = thread[p][k] \/ (thread'[p][k] = "starting" /\ thread[p][k] = "none")
    BY <1>0, <2>1, <2>3 DEF Grow, Types
  <2>6. CASE thread[p][k] = "none"
    <3>1. mail[p][k] = <<>> /\ ready[p][k] = "pending" /\ holder[p][k] = NoCall /\ inbox[p][k] = <<>>
      BY <1>0, <2>6 DEF SlotInv
    <3> QED BY <2>2, <3>1 DEF SlotInv
  <2>7. CASE thread[p][k] # "none"
    BY <1>0, <2>2, <2>4, <2>5, <2>7 DEF SlotInv, Types
  <2> QED BY <2>6, <2>7
<1>3. ASSUME NEW m \in Calls, NEW j \in Slots, RunJob(m, j) PROVE SlotInv(p, k)'
  <2> DEFINE q == poolOf[m]
             box == IF thread[q][j] = "dead" THEN inbox[q][j] ELSE Append(inbox[q][j], m)
  <2>1. UNCHANGED <<wrote, thread, mail, alive, ready>> BY <1>3 DEF RunJob
  <2>2. CASE UNCHANGED <<holder, inbox>>
    BY <1>0, <2>1, <2>2 DEF SlotInv
  <2>3. CASE /\ ready[q][j] = "resolved" /\ alive[q][j] /\ holder[q][j] = NoCall
             /\ holder' = [holder EXCEPT ![q][j] = m]
             /\ inbox' = [inbox EXCEPT ![q][j] = box]
    <3>1. CASE q = p /\ j = k
      <4>1. mail[p][k] = <<>> /\ inbox[p][k] = <<>> /\ ready[p][k] = "resolved"
        BY <1>0, <2>3, <3>1 DEF SlotInv
      <4>2. box \in {<<>>, <<m>>} BY <3>1, <4>1, OneElement
      <4>3. holder'[p][k] = m /\ inbox'[p][k] = box /\ m # NoCall
        BY <1>0, <2>3, <3>1, WorkerPoolAssumption DEF Types
      <4>4. thread[p][k] \notin {"none", "starting"} BY <1>0, <4>1 DEF SlotInv
      <4> HIDE DEF box, q
      <4> QED BY <2>1, <4>1, <4>2, <4>3, <4>4, OneElement DEF SlotInv
    <3>2. CASE ~(q = p /\ j = k)
      <4>1. holder'[p][k] = holder[p][k] /\ inbox'[p][k] = inbox[p][k]
        <5> HIDE DEF box
        <5> QED BY <1>0, <2>3, <3>2 DEF Types
      <4> QED BY <1>0, <2>1, <4>1 DEF SlotInv
    <3> QED BY <3>1, <3>2
  <2> QED BY <1>3, <2>2, <2>3 DEF RunJob
<1>4. ASSUME NEW q \in Pools, NEW j \in Slots, ThreadStarts(q, j) PROVE SlotInv(p, k)'
  <2>1. UNCHANGED <<wrote, inbox, alive, ready, holder>> BY <1>4 DEF ThreadStarts, callVars, workerVars
  <2>2. CASE q = p /\ j = k
    <3>1. mail[p][k] = <<>> /\ ready[p][k] = "pending" /\ holder[p][k] = NoCall /\ inbox[p][k] = <<>>
      BY <1>0, <1>4, <2>2 DEF SlotInv, ThreadStarts
    <3>2. PICK event \in {"ready", "error"} :
            /\ mail' = [mail EXCEPT ![p][k] = Append(@, event)]
            /\ thread' = [thread EXCEPT ![p][k] = IF event = "ready" THEN "up" ELSE "dead"]
      BY <1>4, <2>2 DEF ThreadStarts
    <3>3. mail'[p][k] = <<event>> /\ thread'[p][k] \in {"up", "dead"}
      BY <1>0, <3>1, <3>2, OneElement DEF Types
    <3> QED BY <2>1, <3>1, <3>3, OneElement DEF SlotInv
  <2>3. CASE ~(q = p /\ j = k)
    <3>1. mail'[p][k] = mail[p][k] /\ thread'[p][k] = thread[p][k]
      BY <1>0, <1>4, <2>3 DEF Types, ThreadStarts
    <3> QED BY <1>0, <2>1, <3>1 DEF SlotInv
  <2> QED BY <2>2, <2>3
<1>5. ASSUME NEW q \in Pools, NEW j \in Slots, ThreadRuns(q, j) PROVE SlotInv(p, k)'
  <2> DEFINE m == Head(inbox[q][j])
  <2>0. UNCHANGED <<alive, ready, holder>> BY <1>5 DEF ThreadRuns, workerVars
  <2>1. m = holder[q][j] /\ holder[q][j] # NoCall /\ m \in Calls /\ mail[q][j] = <<>>
        /\ inbox[q][j] = <<m>> /\ Tail(inbox[q][j]) = <<>> /\ SlotInv(q, j)
    <3>1. SlotInv(q, j) /\ inbox[q][j] # <<>> BY <1>5 DEF IInv, ThreadRuns
    <3>2. holder[q][j] # NoCall /\ inbox[q][j] = <<holder[q][j]>> /\ mail[q][j] = <<>>
      BY <3>1 DEF SlotInv
    <3> QED BY <1>0, <3>1, <3>2, OneElement DEF Types
  <2>2. CASE q = p /\ j = k
    <3>1. CASE /\ mail' = [mail EXCEPT ![q][j] = Append(@, "done")]
               /\ wrote' = [wrote EXCEPT ![m][j] = TRUE]
               /\ inbox' = [inbox EXCEPT ![q][j] = Tail(@)]
               /\ UNCHANGED thread
      <4>1. mail'[p][k] = <<"done">> /\ wrote'[m][k] = TRUE /\ inbox'[p][k] = <<>> /\ thread' = thread
        <5> HIDE DEF m
        <5> QED BY <1>0, <2>1, <2>2, <3>1, OneElement DEF Types
      <4>2. thread[p][k] = "up" BY <1>5, <2>2 DEF ThreadRuns
      <4>3. ready[p][k] = "resolved" BY <1>0, <2>1, <2>2 DEF SlotInv, Types
      <4> HIDE DEF m
      <4> QED BY <2>0, <2>1, <2>2, <4>1, <4>2, <4>3, OneElement DEF SlotInv
    <3>2. CASE /\ mail' = [mail EXCEPT ![q][j] = Append(@, "error")]
               /\ thread' = [thread EXCEPT ![q][j] = "dead"]
               /\ inbox' = [inbox EXCEPT ![q][j] = <<>>]
               /\ UNCHANGED wrote
      <4>1. mail'[p][k] = <<"error">> /\ wrote' = wrote /\ inbox'[p][k] = <<>> /\ thread'[p][k] = "dead"
        BY <1>0, <2>1, <2>2, <3>2, OneElement DEF Types
      <4>3. ready[p][k] = "resolved" BY <1>0, <2>1, <2>2 DEF SlotInv, Types
      <4> HIDE DEF m
      <4> QED BY <2>0, <2>1, <2>2, <4>1, <4>3, OneElement DEF SlotInv
    <3> QED BY <1>5, <3>1, <3>2 DEF ThreadRuns
  <2>3. CASE ~(q = p /\ j = k)
    <3>1. mail'[p][k] = mail[p][k] /\ inbox'[p][k] = inbox[p][k] /\ thread'[p][k] = thread[p][k]
      <4>1. /\ \E x : mail' = [mail EXCEPT ![q][j] = x]
            /\ \E x : inbox' = [inbox EXCEPT ![q][j] = x]
            /\ thread' = thread \/ \E x : thread' = [thread EXCEPT ![q][j] = x]
        BY <1>5 DEF ThreadRuns
      <4>2. /\ mail \in [Pools -> [Slots -> Seq(Events)]]
            /\ inbox \in [Pools -> [Slots -> Seq(Calls)]]
            /\ thread \in [Pools -> [Slots -> {"none", "starting", "up", "dead"}]]
        BY <1>0 DEF Types
      <4> QED BY ONLY <2>3, <4>1, <4>2, TableRead
    <3>2. \A n \in Calls : wrote[n][k] => wrote'[n][k]
      <4>1. CASE wrote' = wrote BY <4>1
      <4>2. CASE wrote' = [wrote EXCEPT ![m][j] = TRUE]
        <5> HIDE DEF m
        <5>1. \A n \in Calls : wrote'[n][k] = wrote[n][k] \/ wrote'[n][k] = TRUE
          BY <1>0, <2>1, <4>2 DEF Types
        <5> QED BY <5>1
      <4> QED BY <1>5, <4>1, <4>2 DEF ThreadRuns
    <3>3. holder[p][k] # NoCall => holder[p][k] \in Calls BY <1>0 DEF Types
    <3> QED BY <1>0, <2>0, <3>1, <3>2, <3>3 DEF SlotInv
  <2> QED BY <2>2, <2>3
<1>6. ASSUME NEW q \in Pools, NEW j \in Slots, HandleEvent(q, j) PROVE SlotInv(p, k)'
  <2> DEFINE e == Head(mail[q][j])
  <2>0. UNCHANGED <<wrote, thread, inbox>> BY <1>6 DEF HandleEvent
  <2>10. /\ e \in Events
         /\ e = "ready" => ready' = [ready EXCEPT ![q][j] = "resolved"] /\ UNCHANGED <<alive, holder, job>>
         /\ e = "done" => SettleHolder(q, j, "resolved") /\ UNCHANGED <<alive, ready>>
         /\ e = "error" => /\ alive' = [alive EXCEPT ![q][j] = FALSE]
                           /\ ready' = [ready EXCEPT ![q][j] =
                                IF ready[q][j] = "pending" THEN "rejected" ELSE ready[q][j]]
                           /\ SettleHolder(q, j, "rejected")
    BY <1>0, <1>6, EventFacts
  <2>1. CASE q = p /\ j = k
    <3>1. mail[p][k] = <<e>> /\ e \in Events
      BY <1>0, <1>6, <2>1, OneElement DEF SlotInv, HandleEvent, Events
    <3>2. mail'[p][k] = <<>> BY <1>0, <1>6, <2>1, <3>1, OneElement DEF HandleEvent, Types
    <3>3. inbox[p][k] = <<>>
      <4> HIDE DEF e
      <4> QED BY <1>0, <3>1, OneElement DEF SlotInv
    <3>4. CASE e = "ready"
      <4>1. ready'[p][k] = "resolved" /\ alive' = alive /\ holder' = holder
        BY <1>0, <2>1, <2>10, <3>4 DEF Types
      <4>2. ready[p][k] = "pending" /\ holder[p][k] = NoCall
        BY <1>0, <3>1, <3>4, OneElement DEF SlotInv, Types
      <4>3. thread[p][k] \notin {"none", "starting"}
        BY <1>0, <3>1, <3>4, OneElement DEF SlotInv
      <4> QED BY <2>0, <3>2, <3>3, <4>1, <4>2, <4>3, OneElement DEF SlotInv
    <3>5. CASE e \in {"done", "error"}
      <4>1. holder'[p][k] = NoCall /\ (alive'[p][k] => alive[p][k])
        <5> HIDE DEF e
        <5> QED BY <1>0, <2>1, <2>10, <3>5 DEF Types, SettleHolder
      <4>2. ready'[p][k] = ready[p][k] \/ (ready'[p][k] = "rejected" /\ ~alive'[p][k])
        <5> HIDE DEF e
        <5>1. CASE e = "done"
          <6>1. ready' = ready BY <2>10, <5>1
          <6> QED BY <6>1
        <5>2. CASE e = "error" /\ ready[p][k] = "pending"
          <6>1. ready'[p][k] = "rejected" BY <1>0, <2>1, <2>10, <5>2 DEF Types
          <6>2. alive'[p][k] = FALSE BY <1>0, <2>1, <2>10, <5>2 DEF Types
          <6> QED BY <6>1, <6>2
        <5>3. CASE e = "error" /\ ready[p][k] # "pending"
          BY <1>0, <2>1, <2>10, <5>3 DEF Types
        <5> QED BY <3>5, <5>1, <5>2, <5>3
      <4>3. thread[p][k] \notin {"none", "starting"}
        BY <1>0, <3>1, <3>5, OneElement DEF SlotInv
      <4> QED BY <1>0, <2>0, <3>2, <3>3, <4>1, <4>2, <4>3, OneElement DEF SlotInv
    <3> QED BY <3>1, <3>4, <3>5 DEF Events
  <2>2. CASE ~(q = p /\ j = k)
    <3>1. mail'[p][k] = mail[p][k] BY <1>0, <1>6, <2>2 DEF Types, HandleEvent
    <3>2. holder'[p][k] = holder[p][k] /\ alive'[p][k] = alive[p][k] /\ ready'[p][k] = ready[p][k]
      <4> HIDE DEF e
      <4>1. ready'[p][k] = ready[p][k]
        <5>1. \/ ready' = ready \/ ready' = [ready EXCEPT ![q][j] = "resolved"]
              \/ ready' = [ready EXCEPT ![q][j] = "rejected"]
              \/ ready' = [ready EXCEPT ![q][j] = ready[q][j]]
          BY <2>10 DEF Events
        <5>2. ready \in [Pools -> [Slots -> {"pending", "resolved", "rejected"}]] BY <1>0 DEF Types
        <5> QED BY ONLY <2>2, <5>1, <5>2, TableRead
      <4>2. alive'[p][k] = alive[p][k]
        <5>1. alive' = alive \/ alive' = [alive EXCEPT ![q][j] = FALSE] BY <2>10 DEF Events
        <5>2. alive \in [Pools -> [Slots -> BOOLEAN]] BY <1>0 DEF Types
        <5> QED BY ONLY <2>2, <5>1, <5>2, TableRead
      <4>3. holder'[p][k] = holder[p][k]
        <5>1. holder' = holder \/ holder' = [holder EXCEPT ![q][j] = NoCall]
          BY <2>10 DEF Events, SettleHolder
        <5>2. holder \in [Pools -> [Slots -> Calls \cup {NoCall}]] BY <1>0 DEF Types
        <5> QED BY ONLY <2>2, <5>1, <5>2, TableRead
      <4> QED BY <4>1, <4>2, <4>3
    <3> QED BY <1>0, <2>0, <3>1, <3>2 DEF SlotInv
  <2> QED BY <2>1, <2>2
<1>7. ASSUME NEW r \in Retirers, NEW q \in Pools, Terminate(r, q) PROVE SlotInv(p, k)'
  <2>1. UNCHANGED <<wrote, mail, ready, holder>> BY <1>7 DEF Terminate
  <2>2. /\ inbox'[p][k] = inbox[p][k] \/ inbox'[p][k] = <<>>
        /\ alive'[p][k] => alive[p][k]
        /\ thread'[p][k] = thread[p][k] \/ thread'[p][k] = "dead"
    BY <1>0, <1>7 DEF Terminate, Types
  <2> QED BY <1>0, <2>1, <2>2 DEF SlotInv
<1> QED
  <2>2. ASSUME NEW m \in Calls,
               PoolRefused(m) \/ Enqueue(m) \/ Dispatch(m) \/ Settle(m) \/ LookUp(m)
        PROVE  UNCHANGED <<threadVars, workerVars, wrote>>
    BY <2>2 DEF PoolRefused, Enqueue, Dispatch, Settle, LookUp
  <2>3. \A q \in Pools : Create(q) => UNCHANGED <<threadVars, workerVars, wrote>>
    BY DEF Create, callVars
  <2>4. \A t \in Teardowns, q \in Pools :
          TearDown(t) \/ TearDownPool(t, q) => UNCHANGED <<threadVars, workerVars, wrote>>
    BY DEF TearDown, TearDownPool, callVars
  <2>5. UNCHANGED vars => UNCHANGED <<threadVars, workerVars, wrote>>
    BY DEF vars, callVars
  <2> QED BY <1>1, <1>2, <1>3, <1>4, <1>5, <1>6, <1>7, <2>2, <2>3, <2>4, <2>5
     DEF Next, Continue
-----------------------------------------------------------------------------
\* Threads belong to the workers of a pool that was made, action by action.
LEMMA PoolStep ==
  ASSUME IInv, [Next]_vars, NEW p \in Pools
  PROVE  PoolInv(p)'
<1>0. PoolInv(p) /\ Types /\ (\A m \in Calls : CallInv(m)) BY DEF IInv
<1>1. CASE UNCHANGED <<size, made, thread>>
  BY <1>0, <1>1 DEF PoolInv
<1>2. ASSUME NEW m \in Calls, LookUp(m) PROVE PoolInv(p)'
  <2>1. UNCHANGED <<size, thread>> BY <1>2 DEF LookUp, threadVars
  <2>2. made[p] # "no" => made'[p] = made[p] BY <1>0, <1>2 DEF LookUp, Types
  <2> QED BY <1>0, <2>1, <2>2 DEF PoolInv
<1>3. ASSUME NEW q \in Pools, Create(q) PROVE PoolInv(p)'
  <2>1. UNCHANGED <<size, thread>> BY <1>3 DEF Create, threadVars
  <2>2. made[p] # "pending" => made'[p] = made[p] BY <1>0, <1>3 DEF Create, Types
  <2> QED BY <1>0, <2>1, <2>2 DEF PoolInv
<1>4. ASSUME NEW m \in Calls, PoolObtained(m) \/ GrowFails(m) PROVE PoolInv(p)'
  <2> DEFINE q == poolOf[m]
  <2>0. q \in Pools /\ Demand[m] \in 0 .. MaxWorkers /\ made[q] = "ok" /\ made' = made
    BY <1>0, <1>4, WorkerPoolAssumption DEF PoolObtained, GrowFails, CallInv
  <2>1. PICK grown \in size[q] .. MaxWorkers : Grow(q, grown)
    <3>2. CASE PoolObtained(m) BY <1>0, <2>0, <3>2, WorkerPoolAssumption DEF PoolObtained, Types
    <3>3. CASE GrowFails(m) BY <1>0, <2>0, <3>3, WorkerPoolAssumption DEF GrowFails, Types
    <3> QED BY <1>4, <3>2, <3>3
  <2>2. CASE p = q
    <3>1. size'[p] = grown
          /\ thread'[p] = [k \in Slots |-> IF k \in size[p] + 1 .. grown THEN "starting" ELSE thread[p][k]]
      BY <1>0, <2>0, <2>1, <2>2 DEF Grow, Types
    <3>2. \A k \in Slots : thread'[p][k] # "none" <=> k <= grown
      BY <1>0, <2>1, <2>2, <3>1, WorkerPoolAssumption DEF PoolInv, Types, Slots
    <3> HIDE DEF q
    <3> QED BY <2>0, <2>2, <3>1, <3>2 DEF PoolInv
  <2>3. CASE p # q
    <3>1. size'[p] = size[p] /\ thread'[p] = thread[p]
      BY <1>0, <2>0, <2>1, <2>3 DEF Grow, Types
    <3> QED BY <1>0, <2>0, <3>1 DEF PoolInv
  <2> QED BY <2>2, <2>3
<1>5. ASSUME NEW q \in Pools, NEW k \in Slots, ThreadStarts(q, k) \/ ThreadRuns(q, k)
      PROVE  PoolInv(p)'
  <2>1. UNCHANGED <<size, made>> BY <1>5 DEF ThreadStarts, ThreadRuns, poolVars
  <2>2. \A j \in Slots : thread'[p][j] = "none" <=> thread[p][j] = "none"
    <3>1. thread[q][k] # "none"
          /\ (thread' = thread \/ thread' = [thread EXCEPT ![q][k] = "up"]
                \/ thread' = [thread EXCEPT ![q][k] = "dead"])
      BY <1>5 DEF ThreadStarts, ThreadRuns
    <3>2. thread \in [Pools -> [Slots -> {"none", "starting", "up", "dead"}]] BY <1>0 DEF Types
    <3> QED BY ONLY <3>1, <3>2, TableRead
  <2> QED BY <1>0, <2>1, <2>2 DEF PoolInv
<1>6. ASSUME NEW r \in Retirers, NEW q \in Pools, Terminate(r, q) PROVE PoolInv(p)'
  <2>1. UNCHANGED <<size, made>> BY <1>6 DEF Terminate, poolVars
  <2>2. \A j \in Slots : thread'[p][j] = thread[p][j] \/ (j <= size[p] /\ thread'[p][j] = "dead")
    BY <1>0, <1>6 DEF Terminate, Types
  <2> QED BY <1>0, <2>1, <2>2 DEF PoolInv
<1> QED
  <2>2. \A m \in Calls, k \in Slots : RunJob(m, k) => UNCHANGED <<size, made, thread>>
    BY DEF RunJob, poolVars
  <2>3. \A q \in Pools, k \in Slots : HandleEvent(q, k) => UNCHANGED <<size, made, thread>>
    BY DEF HandleEvent, poolVars
  <2>4. \A t \in Teardowns, q \in Pools :
          TearDown(t) \/ TearDownPool(t, q) => UNCHANGED <<size, made, thread>>
    BY DEF TearDown, TearDownPool, threadVars
  <2>5. UNCHANGED vars => UNCHANGED <<size, made, thread>>
    BY DEF vars, poolVars, threadVars
  <2>6. ASSUME NEW m \in Calls, PoolRefused(m) \/ Enqueue(m) \/ Dispatch(m) \/ Settle(m)
        PROVE  UNCHANGED <<size, made, thread>>
    BY <2>6 DEF PoolRefused, Enqueue, Dispatch, Settle, poolVars, threadVars
  <2> QED BY <1>1, <1>2, <1>3, <1>4, <1>5, <1>6, <2>2, <2>3, <2>4, <2>5, <2>6 DEF Next, Continue
-----------------------------------------------------------------------------
\* A closed pool stays closed, action by action.
LEMMA CloseStep ==
  ASSUME IInv, [Next]_vars, NEW r \in Retirers, NEW p \in Pools
  PROVE  CloseInv(r, p)'
<1>0. CloseInv(r, p) /\ PoolInv(p) /\ Types /\ (\A m \in Calls : CallInv(m)) BY DEF IInv
<1>1. CASE UNCHANGED <<closing, retired, made, thread>>
  BY <1>0, <1>1 DEF CloseInv
<1>2. ASSUME NEW m \in Calls, LookUp(m) PROVE CloseInv(r, p)'
  <2>1. UNCHANGED <<closing, retired, thread>> BY <1>2 DEF LookUp, closeVars, threadVars
  <2>2. made[p] # "no" => made'[p] = made[p] BY <1>0, <1>2 DEF LookUp, Types
  <2> QED BY <1>0, <2>1, <2>2 DEF CloseInv
<1>3. ASSUME NEW q \in Pools, Create(q) PROVE CloseInv(r, p)'
  <2>1. UNCHANGED <<closing, retired, thread>> BY <1>3 DEF Create, closeVars, threadVars
  <2>2. made[p] # "pending" => made'[p] = made[p] BY <1>0, <1>3 DEF Create, Types
  <2> QED BY <1>0, <2>1, <2>2 DEF CloseInv
<1>4. ASSUME NEW m \in Calls, PoolObtained(m) \/ GrowFails(m) PROVE CloseInv(r, p)'
  <2> DEFINE q == poolOf[m]
  <2>1. q \in Pools /\ made[q] = "ok" /\ ~retired[q] /\ made' = made
    BY <1>0, <1>4 DEF PoolObtained, GrowFails, CallInv
  <2>2. p # q => thread'[p] = thread[p]
    BY <1>0, <1>4, <2>1 DEF PoolObtained, GrowFails, Grow, Types
  <2>3. CASE PoolObtained(m)
    <3>1. UNCHANGED <<closing, retired>> BY <2>3 DEF PoolObtained, closeVars
    <3> HIDE DEF q
    <3> QED BY <1>0, <2>1, <2>2, <3>1 DEF CloseInv
  <2>4. CASE GrowFails(m)
    <3>1. /\ retired' = [retired EXCEPT ![q] = TRUE]
          /\ closing' = [closing EXCEPT ![m][q] = "drain"]
      BY <2>4 DEF GrowFails, Retire
    <3>2. retired'[q] /\ (p # q => retired'[p] = retired[p])
      BY <1>0, <2>1, <3>1 DEF Types
    <3>3. closing'[r][p] = closing[r][p] \/ (p = q /\ closing'[r][p] = "drain")
      BY <1>0, <2>1, <3>1 DEF Types, Retirers
    <3> HIDE DEF q
    <3> QED BY <1>0, <2>1, <2>2, <3>2, <3>3 DEF CloseInv
  <2> QED BY <1>4, <2>3, <2>4
<1>5. ASSUME NEW q \in Pools, NEW k \in Slots, ThreadStarts(q, k) \/ ThreadRuns(q, k)
      PROVE  CloseInv(r, p)'
  <2>1. UNCHANGED <<closing, retired, made>>
    BY <1>5 DEF ThreadStarts, ThreadRuns, poolVars, closeVars
  <2>2. \A j \in Slots : thread[p][j] \in {"none", "dead"} => thread'[p][j] = thread[p][j]
    <3>1. thread[q][k] \notin {"none", "dead"}
          /\ (thread' = thread \/ thread' = [thread EXCEPT ![q][k] = "up"]
                \/ thread' = [thread EXCEPT ![q][k] = "dead"])
      BY <1>5 DEF ThreadStarts, ThreadRuns
    <3>2. thread \in [Pools -> [Slots -> {"none", "starting", "up", "dead"}]] BY <1>0 DEF Types
    <3> QED BY ONLY <3>1, <3>2, TableRead
  <2> QED BY <1>0, <2>1, <2>2 DEF CloseInv
<1>6. ASSUME NEW t \in Teardowns, TearDown(t) PROVE CloseInv(r, p)'
  <2>1. UNCHANGED <<retired, made, thread>> BY <1>6 DEF TearDown, threadVars
  <2>2. closing'[r][p] = closing[r][p] \/ closing'[r][p] \in {"no", "awaitsPool"}
    BY <1>0, <1>6 DEF TearDown, Types, Retirers
  <2> QED BY <1>0, <2>1, <2>2 DEF CloseInv
<1>7. ASSUME NEW t \in Teardowns, NEW q \in Pools, TearDownPool(t, q) PROVE CloseInv(r, p)'
  <2>1. UNCHANGED <<made, thread>> BY <1>7 DEF TearDownPool, threadVars
  <2>2. CASE made[q] = "ok" /\ Retire(t, q)
    <3>2. retired'[q] /\ (p # q => retired'[p] = retired[p])
      BY <1>0, <2>2 DEF Types, Retire
    <3>3. closing'[r][p] = closing[r][p] \/ (p = q /\ closing'[r][p] = "drain")
      BY <1>0, <2>2 DEF Types, Retire, Retirers
    <3> QED BY <1>0, <2>1, <2>2, <3>2, <3>3 DEF CloseInv
  <2>3. CASE /\ made[q] = "rejected" /\ closing' = [closing EXCEPT ![t][q] = "closed"]
             /\ retired' = retired
    <3>1. closing'[r][p] = closing[r][p] \/ (p = q /\ closing'[r][p] = "closed")
      BY <1>0, <2>3 DEF Types, Retirers
    <3> QED BY <1>0, <2>1, <2>3, <3>1 DEF CloseInv
  <2> QED BY <1>7, <2>2, <2>3 DEF TearDownPool
<1>8. ASSUME NEW s \in Retirers, NEW q \in Pools, Terminate(s, q) PROVE CloseInv(r, p)'
  <2>1. UNCHANGED <<retired, made>> BY <1>8 DEF Terminate, poolVars
  <2>2. CloseInv(s, q) /\ closing[s][q] = "drain" /\ PoolInv(q) BY <1>8 DEF Terminate, IInv
  <2>3. closing'[r][p] = closing[r][p] \/ (p = q /\ closing'[r][p] = "closed")
    BY <1>0, <1>8 DEF Terminate, Types
  <2>4. /\ p = q => \A k \in Slots : thread'[p][k] \in {"none", "dead"}
        /\ p # q => thread'[p] = thread[p]
    <3>1. thread' = [thread EXCEPT ![q] = [k \in Slots |-> IF k <= size[q] THEN "dead" ELSE thread[q][k]]]
      BY <1>8 DEF Terminate
    <3> QED BY <1>0, <2>2, <3>1 DEF PoolInv, Types
  <2> QED BY <1>0, <2>1, <2>2, <2>3, <2>4 DEF CloseInv
<1> QED
  <2>1. ASSUME NEW m \in Calls, PoolRefused(m) \/ Enqueue(m) \/ Dispatch(m) \/ Settle(m)
        PROVE  UNCHANGED <<closing, retired, made, thread>>
    BY <2>1 DEF PoolRefused, Enqueue, Dispatch, Settle, poolVars, threadVars, closeVars
  <2>2. \A m \in Calls, k \in Slots : RunJob(m, k) => UNCHANGED <<closing, retired, made, thread>>
    BY DEF RunJob, poolVars, closeVars
  <2>3. \A q \in Pools, k \in Slots : HandleEvent(q, k) => UNCHANGED <<closing, retired, made, thread>>
    BY DEF HandleEvent, poolVars, closeVars
  <2>4. UNCHANGED vars => UNCHANGED <<closing, retired, made, thread>>
    BY DEF vars, poolVars, threadVars, closeVars
  <2> QED BY <1>1, <1>2, <1>3, <1>4, <1>5, <1>6, <1>7, <1>8, <2>1, <2>2, <2>3, <2>4
     DEF Next, Continue
-----------------------------------------------------------------------------
\* A call knows its pool, its ranges and their results, action by action.
LEMMA CallStep ==
  ASSUME IInv, [Next]_vars, NEW m \in Calls
  PROVE  CallInv(m)'
<1>0. CallInv(m) /\ Types /\ Demand[m] \in 1 .. MaxWorkers /\ MaxWorkers \in Nat /\ Ranges(m) \subseteq Slots
  BY WorkerPoolAssumption DEF IInv, Ranges, Slots
<1>1. CASE UNCHANGED <<callVars, size>>
  BY <1>0, <1>1 DEF CallInv, callVars, Ranges
<1>2. ASSUME NEW n \in Calls, LookUp(n) PROVE CallInv(m)'
  <2>1. UNCHANGED <<size, job, wrote>> BY <1>2 DEF LookUp
  <2>2. n # m => call'[m] = call[m] /\ poolOf'[m] = poolOf[m] BY <1>0, <1>2 DEF LookUp, Types
  <2>3. n = m => call'[m] = "awaitsPool" /\ poolOf'[m] \in Pools
    <3>1. call' = [call EXCEPT ![n] = "awaitsPool"] BY <1>2 DEF LookUp
    <3>2. poolOf'[n] \in Pools
      <4> DEFINE fresh == {p \in Pools : made[p] = "no"}
                 q == CHOOSE q \in fresh : \A r \in fresh : q <= r
                 p == IF registry[MapperOf[n]] # None THEN registry[MapperOf[n]] ELSE q
      <4>1. fresh # {} => q \in Pools
        <5>1. fresh \in SUBSET Nat BY WorkerPoolAssumption DEF Pools
        <5>2. fresh # {} => \E x \in fresh : \A y \in fresh : x <= y
          <6> HIDE DEF fresh
          <6> QED BY <5>1, LeastNatural
        <5> QED BY <5>2
      <4>2. MapperOf[n] \in Mappers BY WorkerPoolAssumption
      <4>3. p \in Pools BY <1>0, <1>2, <4>1, <4>2 DEF LookUp, Types
      <4>4. poolOf' = [poolOf EXCEPT ![n] = p] BY <1>2 DEF LookUp
      <4> HIDE DEF p
      <4> QED BY <1>0, <4>3, <4>4 DEF Types
    <3> QED BY <1>0, <3>1, <3>2 DEF Types
  <2> QED BY <1>0, <2>1, <2>2, <2>3 DEF CallInv
<1>3. ASSUME NEW n \in Calls, PoolObtained(n) \/ GrowFails(n) PROVE CallInv(m)'
  <2> DEFINE q == poolOf[n]
  <2>0. q \in Pools /\ Demand[n] \in 1 .. MaxWorkers /\ UNCHANGED <<poolOf, job, wrote>>
    BY <1>0, <1>3, WorkerPoolAssumption DEF PoolObtained, GrowFails, CallInv, IInv
  <2>1. PICK grown \in size[q] .. MaxWorkers :
          /\ Grow(q, grown)
          /\ PoolObtained(n) => Demand[n] <= grown
    <3>2. CASE PoolObtained(n) /\ ~GrowFails(n)
      <4> DEFINE g == IF size[q] < Demand[n] THEN Demand[n] ELSE size[q]
      <4>1. Grow(q, g) BY <3>2 DEF PoolObtained
      <4>2. g \in size[q] .. MaxWorkers /\ Demand[n] <= g BY <1>0, <2>0 DEF Types
      <4> HIDE DEF g, q
      <4> QED BY <4>1, <4>2
    <3>3. CASE GrowFails(n) /\ ~PoolObtained(n) BY <1>0, <2>0, <3>3 DEF GrowFails, Types
    <3>4. ~(GrowFails(n) /\ PoolObtained(n))
      BY <1>0 DEF GrowFails, PoolObtained, Types
    <3> QED BY <1>3, <3>2, <3>3, <3>4
  <2>2. size'[q] = grown /\ \A p \in Pools : size'[p] \in Int /\ size'[p] >= size[p]
    BY <1>0, <2>0, <2>1 DEF Grow, Types
  <2>3. n # m => call'[m] = call[m]
    BY <1>0, <1>3 DEF PoolObtained, GrowFails, Types
  <2>4. n = m => \/ call'[m] \in {"done", "retires"} /\ (call'[m] = "done" => m \in Prewarms)
                 \/ call'[m] = "hasPool" /\ m \notin Prewarms /\ PoolObtained(n)
    BY <1>0, <1>3 DEF PoolObtained, GrowFails, Types
  <2>5. CASE n # m BY <1>0, <2>0, <2>2, <2>3, <2>5 DEF CallInv, Types
  <2>6. CASE n = m
    <3> HIDE DEF q
    <3> QED BY <1>0, <2>0, <2>1, <2>2, <2>4, <2>6 DEF CallInv, q
  <2> QED BY <2>5, <2>6
<1>4. ASSUME NEW n \in Calls, Enqueue(n) \/ PoolRefused(n) PROVE CallInv(m)'
  <2>1. UNCHANGED <<size, job, wrote, poolOf>> BY <1>4 DEF Enqueue, PoolRefused, poolVars
  <2>2. \/ call'[m] = call[m] \/ call'[m] = "failed"
        \/ (call[m] = "hasPool" /\ call'[m] = "queued")
    BY <1>0, <1>4 DEF Enqueue, PoolRefused, Types
  <2> QED BY <1>0, <2>1, <2>2 DEF CallInv
<1>5. ASSUME NEW n \in Calls, Dispatch(n) PROVE CallInv(m)'
  <2> DEFINE q == poolOf[n]
  <2>1. UNCHANGED <<size, wrote, poolOf>> BY <1>5 DEF Dispatch
  <2>2. CASE retired[q]
    <3>1. job' = job /\ (call'[m] = call[m] \/ call'[m] = "failed")
      BY <1>0, <1>5, <2>2 DEF Dispatch, Types
    <3> QED BY <1>0, <2>1, <3>1 DEF CallInv
  <2>3. CASE ~retired[q]
    <3>1. /\ call[n] = "queued" /\ call' = [call EXCEPT ![n] = "running"]
          /\ job' = [job EXCEPT ![n] = [k \in Slots |->
                       IF k \in Ranges(n) /\ k <= size[q] THEN "awaitsReady" ELSE "none"]]
      BY <1>5, <2>3 DEF Dispatch
    <3>2. CASE n # m
      <4>1. job'[m] = job[m] /\ call'[m] = call[m] BY <1>0, <3>1, <3>2 DEF Types
      <4> QED BY <1>0, <2>1, <4>1 DEF CallInv
    <3>3. CASE n = m
      <4>1. q \in Pools /\ size[q] \in Nat /\ Demand[m] <= size[q] /\ m \notin Prewarms
        BY <1>0, <3>1, <3>3 DEF CallInv, Types
      <4>2. call'[m] = "running" /\ \A k \in Slots :
              job'[m][k] = IF k \in Ranges(m) /\ k <= size[q] THEN "awaitsReady" ELSE "none"
        BY <1>0, <3>1, <3>3 DEF Types
      <4>3. \A k \in Ranges(m) : k <= size[q] BY <1>0, <4>1 DEF Ranges
      <4> HIDE DEF q
      <4>4. \A k \in Slots : job'[m][k] # "resolved" BY <4>2
      <4>5. \A k \in Ranges(m) : job'[m][k] # "none" BY <1>0, <4>2, <4>3
      <4> QED BY <1>0, <2>1, <3>3, <4>1, <4>2, <4>4, <4>5 DEF CallInv, Ranges, q
    <3> QED BY <3>2, <3>3
  <2> QED BY <2>2, <2>3
<1>6. ASSUME NEW n \in Calls, NEW j \in Slots, RunJob(n, j) PROVE CallInv(m)'
  <2>1. UNCHANGED <<size, call, poolOf, wrote>> BY <1>6 DEF RunJob, poolVars
  <2>2. \A k \in Slots : job'[m][k] = job[m][k] \/ job'[m][k] \in {"posted", "rejected"}
    <3>1. job' = [job EXCEPT ![n][j] = "posted"] \/ job' = [job EXCEPT ![n][j] = "rejected"]
      BY <1>6 DEF RunJob
    <3>2. job \in [Calls -> [Slots -> {"none", "awaitsReady", "posted", "resolved", "rejected"}]]
      BY <1>0 DEF Types
    <3> QED BY ONLY <3>1, <3>2, TableRead
  <2> QED BY <1>0, <2>1, <2>2 DEF CallInv, Ranges
<1>7. ASSUME NEW n \in Calls, Settle(n) PROVE CallInv(m)'
  <2>1. UNCHANGED <<size, job, poolOf, wrote>> BY <1>7 DEF Settle
  <2>2. CASE n # m
    <3>1. call'[m] = call[m] BY <1>0, <1>7, <2>2 DEF Settle, Types
    <3> QED BY <1>0, <2>1, <3>1 DEF CallInv, Ranges
  <2>3. CASE n = m
    <3>1. \/ call'[m] = "failed"
          \/ /\ call'[m] = "done" /\ call[m] = "running"
             /\ \A k \in Slots : job[m][k] # "none" => job[m][k] = "resolved"
      BY <1>0, <1>7, <2>3 DEF Settle, Types
    <3> QED BY <1>0, <2>1, <3>1 DEF CallInv, Ranges
  <2> QED BY <2>2, <2>3
<1>8. ASSUME NEW p \in Pools, NEW j \in Slots, ThreadRuns(p, j) PROVE CallInv(m)'
  <2>1. UNCHANGED <<size, call, job, poolOf>> BY <1>8 DEF ThreadRuns, poolVars
  <2>2. \A k \in Slots : wrote[m][k] => wrote'[m][k]
    <3>1. CASE wrote' = wrote BY <3>1
    <3>2. CASE wrote' = [wrote EXCEPT ![Head(inbox[p][j])][j] = TRUE]
      <4>1. \A k \in Slots : wrote'[m][k] = wrote[m][k] \/ wrote'[m][k] = TRUE
        BY <1>0, <3>2, ZenonT(40) DEF Types
      <4> QED BY <4>1
    <3> QED BY <1>8, <3>1, <3>2 DEF ThreadRuns
  <2> QED BY <1>0, <2>1, <2>2 DEF CallInv, Ranges
<1>9. ASSUME NEW p \in Pools, NEW j \in Slots, HandleEvent(p, j) PROVE CallInv(m)'
  <2>1. UNCHANGED <<size, call, poolOf, wrote>> BY <1>9 DEF HandleEvent, poolVars
  <2> DEFINE h == holder[p][j]
             e == Head(mail[p][j])
  <2>2. /\ e \in Events
        /\ e = "ready" => UNCHANGED job
        /\ e = "done" => SettleHolder(p, j, "resolved")
        /\ e = "error" => SettleHolder(p, j, "rejected")
    BY <1>0, <1>9, EventFacts
  <2>3. e = "done" /\ h # NoCall => wrote[h][j]
    <3>1. SlotInv(p, j) /\ mail[p][j] # <<>> BY <1>9 DEF IInv, HandleEvent
    <3>2. e = "done" => mail[p][j] = <<"done">> BY <3>1, OneElement DEF SlotInv
    <3> QED BY <3>1, <3>2 DEF SlotInv
  <2>4. \A k \in Slots : \/ job'[m][k] = job[m][k] \/ job'[m][k] = "rejected"
                         \/ (m = h /\ k = j /\ e = "done" /\ job'[m][k] = "resolved")
    <3>1. \/ job' = job
          \/ (h # NoCall /\ job' = [job EXCEPT ![h][j] = "rejected"])
          \/ (h # NoCall /\ e = "done" /\ job' = [job EXCEPT ![h][j] = "resolved"])
      BY <2>2 DEF Events, SettleHolder
    <3>2. job \in [Calls -> [Slots -> {"none", "awaitsReady", "posted", "resolved", "rejected"}]]
          /\ (h = NoCall \/ h \in Calls)
      BY <1>0 DEF Types
    <3> HIDE DEF h, e
    <3> QED BY ONLY <3>1, <3>2, TableRead
  <2>5. m # NoCall BY WorkerPoolAssumption
  <2>6. \A k \in Slots : job'[m][k] = "resolved" => wrote[m][k]
    BY <1>0, <2>3, <2>4, <2>5 DEF CallInv
  <2>7. \A k \in Slots : job[m][k] # "none" => job'[m][k] # "none"
    BY <2>4
  <2> QED BY <1>0, <2>1, <2>6, <2>7 DEF CallInv, Ranges
<1>10. ASSUME NEW r \in Retirers, NEW p \in Pools, Terminate(r, p) PROVE CallInv(m)'
  <2>1. UNCHANGED <<size, job, poolOf, wrote>> BY <1>10 DEF Terminate, poolVars
  <2>2. call'[m] = call[m] \/ call'[m] = "failed" BY <1>0, <1>10 DEF Terminate, Types
  <2> QED BY <1>0, <2>1, <2>2 DEF CallInv, Ranges
<1> QED
  <2>1. \A p \in Pools, k \in Slots : ThreadStarts(p, k) => UNCHANGED <<callVars, size>>
    BY DEF ThreadStarts, poolVars
  <2>2. \A t \in Teardowns : /\ TearDown(t) => UNCHANGED <<callVars, size>>
                             /\ \A p \in Pools : TearDownPool(t, p) => UNCHANGED <<callVars, size>>
    BY DEF TearDown, TearDownPool
  <2>3. UNCHANGED vars => UNCHANGED <<callVars, size>> BY DEF vars, poolVars
  <2>4. \A p \in Pools : Create(p) => UNCHANGED <<callVars, size>> BY DEF Create
  <2>5. ASSUME NEW n \in Calls, PoolRefused(n) \/ PoolObtained(n) \/ GrowFails(n) \/ Enqueue(n)
                                 \/ Dispatch(n) \/ Settle(n) \/ LookUp(n)
        PROVE  CallInv(m)'
    BY <1>2, <1>3, <1>4, <1>5, <1>7, <2>5
  <2>6. \A p \in Pools, k \in Slots : ThreadStarts(p, k) \/ ThreadRuns(p, k) \/ HandleEvent(p, k)
          => CallInv(m)'
    BY <1>1, <1>8, <1>9, <2>1
  <2> QED BY <1>1, <1>6, <1>10, <2>2, <2>3, <2>4, <2>5, <2>6 DEF Next, Continue
-----------------------------------------------------------------------------
\* Dispatches take their turns, action by action.
LEMMA QueueStep ==
  ASSUME IInv, [Next]_vars, NEW m \in Calls
  PROVE  QueueInv(m)'
<1>0. QueueInv(m) /\ CallInv(m) /\ Types BY DEF IInv
<1>1. CASE UNCHANGED <<call, poolOf, queue>>
  BY <1>0, <1>1 DEF QueueInv
<1>2. ASSUME NEW n \in Calls, LookUp(n) \/ PoolRefused(n) \/ PoolObtained(n) \/ GrowFails(n)
      PROVE  QueueInv(m)'
  <2>1. queue' = queue /\ (call'[m] = call[m] \/ call'[m] \notin {"queued", "running"})
    BY <1>0, <1>2 DEF LookUp, PoolRefused, PoolObtained, GrowFails, poolVars, Types
  <2>2. poolOf'[m] = poolOf[m] \/ call'[m] \notin {"queued", "running"}
    BY <1>0, <1>2 DEF LookUp, PoolRefused, PoolObtained, GrowFails, Types
  <2> QED BY <1>0, <2>1, <2>2 DEF QueueInv
<1>3. ASSUME NEW n \in Calls, Enqueue(n) PROVE QueueInv(m)'
  <2> DEFINE q == poolOf[n]
             r == queue[q]
  <2>0. q \in Pools /\ r \in Seq(Calls) /\ poolOf' = poolOf
    BY <1>0, <1>3 DEF Enqueue, CallInv, IInv, Types
  <2>1. queue' = [queue EXCEPT ![q] = Append(r, n)] /\ call' = [call EXCEPT ![n] = "queued"]
    BY <1>3 DEF Enqueue
  <2>2. /\ Len(Append(r, n)) = Len(r) + 1 /\ Append(r, n)[Len(r) + 1] = n /\ Append(r, n) # <<>>
        /\ \A i \in 1 .. Len(r) : Append(r, n)[i] = r[i]
        /\ r # <<>> => Head(Append(r, n)) = Head(r)
        /\ Len(r) \in Nat
    BY <2>0, QueueFacts
  <2>3. CASE n = m
    <3>1. call'[m] = "queued" /\ queue'[poolOf'[m]] = Append(r, n)
      BY <1>0, <2>0, <2>1, <2>3 DEF Types
    <3> HIDE DEF q, r
    <3> QED BY <2>2, <2>3, <3>1 DEF QueueInv
  <2>4. CASE n # m
    <3>1. call'[m] = call[m] /\ poolOf'[m] = poolOf[m] BY <1>0, <2>0, <2>1, <2>4 DEF Types
    <3>2. CASE poolOf[m] = q
      <4>1. queue'[poolOf'[m]] = Append(r, n) /\ queue[poolOf[m]] = r
        BY <1>0, <2>0, <2>1, <3>2 DEF Types
      <4> HIDE DEF q, r
      <4> QED BY <1>0, <2>2, <3>1, <4>1 DEF QueueInv
    <3>3. CASE poolOf[m] # q
      <4>1. queue'[poolOf'[m]] = queue[poolOf[m]] \/ call[m] \notin {"queued", "running"}
        BY <1>0, <2>0, <2>1, <3>3 DEF Types, CallInv
      <4> QED BY <1>0, <3>1, <4>1 DEF QueueInv
    <3> QED BY <3>2, <3>3
  <2> QED BY <2>3, <2>4
<1>4. ASSUME NEW n \in Calls, NEW q \in Pools, q = poolOf[n],
             queue[q] # <<>>, Head(queue[q]) = n,
             call' = [call EXCEPT ![n] = "failed"] \/ call' = [call EXCEPT ![n] = "done"],
             queue' = [queue EXCEPT ![q] = Tail(@)], poolOf' = poolOf
      PROVE  QueueInv(m)'
  <2> DEFINE r == queue[q]
  <2>1. /\ r \in Seq(Calls) /\ r[1] = n /\ Len(Tail(r)) = Len(r) - 1 /\ Len(r) \in Nat \ {0}
        /\ \A i \in 1 .. Len(r) - 1 : Tail(r)[i] = r[i + 1]
    BY <1>0, <1>4, QueueFacts DEF Types
  <2>2. CASE n = m
    <3>1. call'[m] \in {"done", "failed"} BY <1>0, <1>4, <2>2 DEF Types
    <3> QED BY <3>1 DEF QueueInv
  <2>3. CASE n # m /\ poolOf[m] = q
    <3>1. call'[m] = call[m] /\ queue'[poolOf'[m]] = Tail(r) /\ queue[poolOf[m]] = r
      BY <1>0, <1>4, <2>3 DEF Types
    <3>2. call[m] # "running" BY <1>0, <1>4, <2>3 DEF QueueInv
    <3>3. ASSUME call[m] = "queued" PROVE \E i \in 1 .. Len(Tail(r)) : Tail(r)[i] = m
      <4>1. PICK i \in 1 .. Len(r) : r[i] = m BY <1>0, <2>3, <3>3 DEF QueueInv
      <4>2. i # 1 BY <2>1, <2>3, <4>1
      <4>3. i - 1 \in 1 .. Len(r) - 1 BY <2>1, <4>1, <4>2
      <4> HIDE DEF r
      <4>4. Tail(r)[i - 1] = m /\ i - 1 \in 1 .. Len(Tail(r)) BY <2>1, <4>1, <4>3
      <4> QED BY <4>4
    <3> HIDE DEF r
    <3> QED BY <3>1, <3>2, <3>3 DEF QueueInv
  <2>4. CASE n # m /\ poolOf[m] # q
    <3>1. call'[m] = call[m] /\ poolOf'[m] = poolOf[m] BY <1>0, <1>4, <2>4 DEF Types
    <3>2. queue'[poolOf[m]] = queue[poolOf[m]] \/ call[m] \notin {"queued", "running"}
      BY <1>0, <1>4, <2>4 DEF Types, CallInv
    <3> QED BY <1>0, <3>1, <3>2 DEF QueueInv
  <2> QED BY <2>2, <2>3, <2>4
<1>5. ASSUME NEW n \in Calls, Dispatch(n) PROVE QueueInv(m)'
  <2> DEFINE q == poolOf[n]
  <2>1. q \in Pools /\ queue[q] # <<>> /\ Head(queue[q]) = n /\ poolOf' = poolOf
    <3>1. q \in Pools /\ \E i \in 1 .. Len(queue[q]) : queue[q][i] = n
      BY <1>5 DEF Dispatch, IInv, CallInv, QueueInv
    <3>2. queue[q] \in Seq(Calls) BY <1>0, <3>1 DEF Types
    <3> QED BY <1>5, <3>1, <3>2 DEF Dispatch
  <2>2. CASE retired[q]
    BY <1>4, <1>5, <2>1, <2>2 DEF Dispatch
  <2>3. CASE ~retired[q]
    <3>1. queue' = queue /\ call' = [call EXCEPT ![n] = "running"] BY <1>5, <2>3 DEF Dispatch
    <3>2. CASE n = m
      <4>1. call'[m] = "running" BY <1>0, <3>1, <3>2 DEF Types
      <4> QED BY <2>1, <3>1, <3>2, <4>1 DEF QueueInv
    <3>3. CASE n # m
      <4>1. call'[m] = call[m] BY <1>0, <3>1, <3>3 DEF Types
      <4> QED BY <1>0, <2>1, <3>1, <4>1 DEF QueueInv
    <3> QED BY <3>2, <3>3
  <2> QED BY <2>2, <2>3
<1>6. ASSUME NEW n \in Calls, Settle(n) PROVE QueueInv(m)'
  <2> DEFINE q == poolOf[n]
  <2>1. q \in Pools /\ queue[q] # <<>> /\ Head(queue[q]) = n /\ poolOf' = poolOf
    BY <1>6 DEF Settle, IInv, CallInv, QueueInv
  <2> QED BY <1>4, <1>6, <2>1 DEF Settle
<1>7. ASSUME NEW r \in Retirers, NEW p \in Pools, Terminate(r, p) PROVE QueueInv(m)'
  <2>1. UNCHANGED <<queue, poolOf>> /\ (call'[m] = call[m] \/ call'[m] = "failed")
    BY <1>0, <1>7 DEF Terminate, poolVars, Types
  <2> QED BY <1>0, <2>1 DEF QueueInv
<1> QED
  <2>1. \A p \in Pools, k \in Slots : ThreadStarts(p, k) \/ ThreadRuns(p, k) \/ HandleEvent(p, k)
          => UNCHANGED <<call, poolOf, queue>>
    BY ZenonT(60) DEF ThreadStarts, ThreadRuns, HandleEvent, poolVars, callVars
  <2>2. \A t \in Teardowns : /\ TearDown(t) => UNCHANGED <<call, poolOf, queue>>
                             /\ \A p \in Pools : TearDownPool(t, p) => UNCHANGED <<call, poolOf, queue>>
    BY DEF TearDown, TearDownPool, callVars
  <2>3. UNCHANGED vars => UNCHANGED <<call, poolOf, queue>> BY DEF vars, poolVars, callVars
  <2>4. \A p \in Pools : Create(p) => UNCHANGED <<call, poolOf, queue>> BY DEF Create, callVars
  <2>5. \A n \in Calls, k \in Slots : RunJob(n, k) => UNCHANGED <<call, poolOf, queue>>
    BY DEF RunJob, poolVars
  <2>6. ASSUME NEW n \in Calls, PoolRefused(n) \/ PoolObtained(n) \/ GrowFails(n) \/ Enqueue(n)
                                 \/ Dispatch(n) \/ Settle(n) \/ LookUp(n)
        PROVE  QueueInv(m)'
    BY <1>2, <1>3, <1>5, <1>6, <2>6
  <2> QED BY <1>1, <1>7, <2>1, <2>2, <2>3, <2>4, <2>5, <2>6 DEF Next, Continue
-----------------------------------------------------------------------------
\* What a call, its pool, its workers and the queue of the pool owe each other
\* holds in every reachable state.
THEOREM Invariance == Spec => []IInv
<1>1. IInv /\ [Next]_vars => IInv'
  <2> SUFFICES ASSUME IInv, [Next]_vars PROVE IInv'
    OBVIOUS
  <2>1. \A p \in Pools, k \in Slots : SlotInv(p, k)' BY SlotStep
  <2>2. \A p \in Pools : PoolInv(p)' BY PoolStep
  <2>3. \A r \in Retirers, p \in Pools : CloseInv(r, p)' BY CloseStep
  <2>4. \A m \in Calls : CallInv(m)' /\ QueueInv(m)' BY CallStep, QueueStep
  <2> QED BY TypesStep, <2>1, <2>2, <2>3, <2>4 DEF IInv
<1> QED BY InitInv, <1>1, PTL DEF Spec

\* The state keeps its shape, for any calls, demands and bounds.
THEOREM TypeCorrect == Spec => []TypeOK
<1>1. IInv => TypeOK
  BY DEF IInv, Types, PoolInv, TypeOK, Range, Events
<1> QED BY Invariance, <1>1, PTL

\* A map that returns a result has had every range of it written, although a
\* worker's answer names no job and a failed dispatch leaves its other ranges
\* running in workers that the next dispatch is given.
THEOREM CompleteResults == Spec => []ResultsAreComplete
<1>1. IInv => ResultsAreComplete
  BY DEF IInv, CallInv, ResultsAreComplete
<1> QED BY Invariance, <1>1, PTL

\* Once a retirement of a pool is over no thread of it is left or started.
THEOREM ClosedPools == Spec => []ClosedPoolsStayEmpty
<1>1. IInv => ClosedPoolsStayEmpty
  <2> SUFFICES ASSUME IInv, NEW r \in Retirers, NEW p \in Pools, closing[r][p] = "closed",
                      NEW k \in Slots
               PROVE  thread[p][k] \in {"none", "dead"}
    BY DEF ClosedPoolsStayEmpty
  <2>1. CloseInv(r, p) /\ PoolInv(p) /\ size[p] \in Nat /\ k \in Nat \ {0}
    BY WorkerPoolAssumption DEF IInv, Types, Slots
  <2>2. CASE made[p] = "rejected" BY <2>1, <2>2 DEF PoolInv
  <2>3. CASE made[p] # "rejected" BY <2>1, <2>3 DEF CloseInv
  <2> QED BY <2>2, <2>3
<1> QED BY Invariance, <1>1, PTL

\* The promise queue of a pool runs one dispatch at a time, so that no two calls
\* hand jobs to its workers at once.
OneDispatchAtATime ==
  \A m, n \in Calls : call[m] = "running" /\ call[n] = "running" /\ poolOf[m] = poolOf[n] => m = n

THEOREM DispatchesTakeTurns == Spec => []OneDispatchAtATime
<1>1. IInv => OneDispatchAtATime
  BY DEF IInv, QueueInv, OneDispatchAtATime
<1> QED BY Invariance, <1>1, PTL
=============================================================================
