---------------------------- MODULE StagesProofs ----------------------------
(***************************************************************************)
(* The stages of every back end keep their meaning, for sequences, counts  *)
(* and matches of any length and any integer type: a map and an async      *)
(* filter whatever the order of their iterations, a fold, a repetition, a  *)
(* filter and a fault map as the recursive definitions of Stages say, and  *)
(* the first arm of a match that holds decides.                            *)
(***************************************************************************)
EXTENDS Stages, TLAPS, NaturalsInduction, WellFoundedInduction

-----------------------------------------------------------------------------
(* Maps and matches: their part of the inductive invariant.                 *)

(* What the type checker lets into a map ... *)
AcceptedMap(j) ==
  /\ j.wrapped \in BOOLEAN
  /\ \/ j.input = Fault("input") /\ j.wrapped
     \/ \E xs \in Sequences(j.faultable) : j.input = Ok(xs)

(* ... and into a match: arms that end with the fallback. *)
AcceptedMatch(j) ==
  /\ j.wrapped = FALSE
  /\ \E n \in Nat :
     \E guards \in [1 .. n -> Decisions], targets \in [1 .. n + 1 -> Answers] :
       j.node = [k \in 1 .. n + 1 |->
                   [guard |-> IF k <= n THEN guards[k] ELSE Yes,
                    target |-> targets[k]]]

JobInv ==
  /\ job.kind = "map" => AcceptedMap(job)
  /\ job.kind = "match" => AcceptedMatch(job)

(* A visited slot holds its answer, which is not the end of the process.    *)
MapLoop ==
  job.kind = "map" /\ ~Garbled /\ pc = "loop" =>
    /\ ~Faulted
    /\ src = job.input.value
    /\ todo \subseteq DOMAIN src
    /\ out = [k \in DOMAIN src |-> out[k]]
    /\ \A k \in DOMAIN src \ todo :
         out[k] = Call(job.node, src[k]) /\ out[k] # Dead

(* An arm that holds, after arms that do not.                               *)
Decides(k) ==
  /\ k \in DOMAIN job.node
  /\ job.node[k].guard # No
  /\ \A m \in 1 .. k - 1 : job.node[m].guard = No

(* Arms that were visited did not hold, up to the one that decided.         *)
MatchLoop ==
  job.kind = "match" /\ pc = "loop" =>
    /\ todo \subseteq DOMAIN job.node
    /\ todo # {} => \A m \in DOMAIN job.node \ todo : job.node[m].guard = No
    /\ todo = {} =>
         \E k \in DOMAIN job.node :
           /\ Decides(k) /\ job.node[k].guard = Yes
           /\ acc = job.node[k].target /\ acc # Dead

-----------------------------------------------------------------------------
(* Every accepted job has what the invariant needs of it. *)
LEMMA SequenceJobs ==
  ASSUME NEW j, NEW kind, NEW node, NEW start, NEW faultable, NEW concurrent,
         SequenceJob(kind, node, start, faultable, concurrent, j)
  PROVE  j.kind = kind /\ AcceptedMap(j)
<1>1. PICK wrapped \in BOOLEAN :
        \/ \E xs \in Sequences(faultable) :
             j = Job(kind, node, start, Ok(xs), wrapped, faultable, concurrent)
        \/ /\ wrapped
           /\ j = Job(kind, node, start, Fault("input"), wrapped, faultable,
                      concurrent)
  BY DEF SequenceJob
<1>2. CASE \E xs \in Sequences(faultable) :
             j = Job(kind, node, start, Ok(xs), wrapped, faultable, concurrent)
  BY <1>2 DEF Job, AcceptedMap
<1>3. CASE /\ wrapped
           /\ j = Job(kind, node, start, Fault("input"), wrapped, faultable,
                      concurrent)
  BY <1>3 DEF Job, AcceptedMap
<1>4. QED
  BY <1>1, <1>2, <1>3

LEMMA AcceptedJobs ==
  ASSUME NEW j, AcceptedJob(j)
  PROVE  /\ j.kind = "map" => AcceptedMap(j)
         /\ j.kind = "match" => AcceptedMatch(j)
<1>1. CASE \E node \in [Values -> Answers], faultable, concurrent \in BOOLEAN :
             SequenceJob("map", node, 0, faultable, concurrent, j)
  <2>1. PICK node \in [Values -> Answers], faultable, concurrent \in BOOLEAN :
          SequenceJob("map", node, 0, faultable, concurrent, j)
    BY <1>1
  <2>2. j.kind = "map" /\ AcceptedMap(j)
    BY <2>1, SequenceJobs
  <2>3. QED
    BY <2>2
<1>2. CASE \E node \in [Values -> Decisions], concurrent \in BOOLEAN :
             SequenceJob("filter", node, 0, FALSE, concurrent, j)
  <2>1. PICK node \in [Values -> Decisions], concurrent \in BOOLEAN :
          SequenceJob("filter", node, 0, FALSE, concurrent, j)
    BY <1>2
  <2>2. j.kind = "filter" /\ AcceptedMap(j)
    BY <2>1, SequenceJobs
  <2>3. QED
    BY <2>2
<1>3. CASE \E node \in [Values -> Answers], faultable \in BOOLEAN :
             SequenceJob("fault_map", node, 0, faultable, FALSE, j)
  <2>1. PICK node \in [Values -> Answers], faultable \in BOOLEAN :
          SequenceJob("fault_map", node, 0, faultable, FALSE, j)
    BY <1>3
  <2>2. j.kind = "fault_map" /\ AcceptedMap(j)
    BY <2>1, SequenceJobs
  <2>3. QED
    BY <2>2
<1>4. CASE \E op \in {AddInt, AddFloat, MinOf, MaxOf}, start \in Values,
              faultable \in BOOLEAN :
             SequenceJob("reduce", op, start, faultable, FALSE, j)
  <2>1. PICK op \in {AddInt, AddFloat, MinOf, MaxOf}, start \in Values,
              faultable \in BOOLEAN :
          SequenceJob("reduce", op, start, faultable, FALSE, j)
    BY <1>4
  <2>2. j.kind = "reduce" /\ AcceptedMap(j)
    BY <2>1, SequenceJobs
  <2>3. QED
    BY <2>2
<1>5. CASE \E op \in [Values -> [Values -> Answers]], start \in Values,
              faultable \in BOOLEAN :
             SequenceJob("scan", op, start, faultable, FALSE, j)
  <2>1. PICK op \in [Values -> [Values -> Answers]], start \in Values,
              faultable \in BOOLEAN :
          SequenceJob("scan", op, start, faultable, FALSE, j)
    BY <1>5
  <2>2. j.kind = "scan" /\ AcceptedMap(j)
    BY <2>1, SequenceJobs
  <2>3. QED
    BY <2>2
<1>6. CASE \E node \in [Values -> Answers], count \in -1 .. MaxCount, x \in Items :
             j = Job("repeat", node, count, x, FALSE, FALSE, FALSE)
  BY <1>6 DEF Job
<1>7. CASE \E n \in 0 .. MaxArms, x \in Plain :
           \E guards \in [1 .. n -> Decisions], targets \in [1 .. n + 1 -> Answers] :
             j = Job("match", [k \in 1 .. n + 1 |->
                                 [guard |-> IF k <= n THEN guards[k] ELSE Yes,
                                  target |-> targets[k]]],
                     0, x, FALSE, FALSE, FALSE)
  <2>1. PICK n \in 0 .. MaxArms, x \in Plain :
          \E guards \in [1 .. n -> Decisions], targets \in [1 .. n + 1 -> Answers] :
             j = Job("match", [k \in 1 .. n + 1 |->
                                 [guard |-> IF k <= n THEN guards[k] ELSE Yes,
                                  target |-> targets[k]]],
                     0, x, FALSE, FALSE, FALSE)
    BY <1>7
  <2>2. PICK guards \in [1 .. n -> Decisions], targets \in [1 .. n + 1 -> Answers] :
             j = Job("match", [k \in 1 .. n + 1 |->
                                 [guard |-> IF k <= n THEN guards[k] ELSE Yes,
                                  target |-> targets[k]]],
                     0, x, FALSE, FALSE, FALSE)
    BY <2>1
  <2>3. n \in Nat
    BY BoundsAssumption
  <2>4. j.kind = "match" /\ j.wrapped = FALSE
    BY <2>2 DEF Job
  <2>5. j.node = [k \in 1 .. n + 1 |->
                    [guard |-> IF k <= n THEN guards[k] ELSE Yes,
                     target |-> targets[k]]]
    BY <2>2 DEF Job
  <2>6. QED
    BY <2>3, <2>4, <2>5 DEF AcceptedMatch
<1>8. QED
  BY <1>1, <1>2, <1>3, <1>4, <1>5, <1>6, <1>7 DEF AcceptedJob

(* The sequence a map reads when it is not a fault. *)
LEMMA MapInput ==
  ASSUME AcceptedMap(job), ~Faulted
  PROVE  /\ job.input.ok
         /\ job.input.value \in Seq(Items \cup Plain)
         /\ DOMAIN job.input.value = 1 .. Len(job.input.value)
<1>1. PICK xs \in Sequences(job.faultable) : job.input = Ok(xs)
  BY DEF AcceptedMap, Faulted, Fault
<1>2. job.input.ok /\ job.input.value = xs
  BY <1>1 DEF Ok
<1>3. xs \in Seq(Items \cup Plain)
  BY <1>1 DEF Sequences, SeqsOf
<1>4. QED
  BY <1>2, <1>3

(* The arms of a match: there are some, every guard is a decision, and the  *)
(* last is true.                                                            *)
LEMMA MatchArms ==
  ASSUME AcceptedMatch(job)
  PROVE  /\ Len(job.node) \in Nat \ {0}
         /\ DOMAIN job.node = 1 .. Len(job.node)
         /\ \A k \in 1 .. Len(job.node) : job.node[k].guard \in Decisions
         /\ job.node[Len(job.node)].guard = Yes
<1>1. PICK n \in Nat : 
      \E guards \in [1 .. n -> Decisions], targets \in [1 .. n + 1 -> Answers] :
       job.node = [k \in 1 .. n + 1 |->
                     [guard |-> IF k <= n THEN guards[k] ELSE Yes,
                      target |-> targets[k]]]
  BY DEF AcceptedMatch
<1>2. PICK guards \in [1 .. n -> Decisions], targets \in [1 .. n + 1 -> Answers] :
       job.node = [k \in 1 .. n + 1 |->
                     [guard |-> IF k <= n THEN guards[k] ELSE Yes,
                      target |-> targets[k]]]
  BY <1>1
<1>3. Len(job.node) = n + 1 /\ DOMAIN job.node = 1 .. n + 1
  BY <1>2
<1>4. \A k \in 1 .. n + 1 : job.node[k].guard = IF k <= n THEN guards[k] ELSE Yes
  BY <1>2
<1>5. job.node[n + 1].guard = Yes
  BY <1>4
<1>6. \A k \in 1 .. n + 1 : job.node[k].guard \in Decisions
  BY <1>4 DEF Decisions
<1>7. QED
  BY <1>3, <1>5, <1>6

(* At most one arm decides, so it is the one the reference chooses. *)
LEMMA DecidingArm ==
  ASSUME AcceptedMatch(job), NEW k, Decides(k)
  PROVE  Matched(job.node) = IF job.node[k].guard = Dead THEN Dead
                             ELSE job.node[k].target
<1> DEFINE P(n) == /\ job.node[n].guard # No
                   /\ \A m \in 1 .. n - 1 : job.node[m].guard = No
           c == CHOOSE n \in DOMAIN job.node : P(n)
<1>1. k \in DOMAIN job.node /\ P(k)
  BY DEF Decides
<1>2. c \in DOMAIN job.node /\ P(c)
  BY <1>1
<1>3. c = k
  BY <1>1, <1>2, MatchArms
<1>4. Matched(job.node) = IF job.node[c].guard = Dead THEN Dead
                           ELSE job.node[c].target
  BY DEF Matched
<1>5. QED
  BY <1>3, <1>4

-----------------------------------------------------------------------------
(* No step changes the stage or the back end. *)
LEMMA JobFixed ==
  ASSUME [Next]_vars
  PROVE  job' = job /\ backEnd' = backEnd
<1>1. ASSUME NEW k \in todo, Iterate(k)
      PROVE  job' = job /\ backEnd' = backEnd
  <2>1. CASE CMap(k) \/ LlvmMap(k) \/ TsMap(k)
    BY <2>1 DEF CMap, LlvmMap, TsMap, FillSlot, Abort
  <2>2. CASE CFilter(k) \/ LlvmFilter(k) \/ TsFilter(k) \/ TsDecide(k)
    BY <2>2 DEF CFilter, LlvmFilter, TsFilter, TsDecide, KeepItem, Abort
  <2>3. CASE CFaultMap(k) \/ LlvmFaultMap(k) \/ TsFaultMap(k)
    BY <2>3 DEF CFaultMap, LlvmFaultMap, TsFaultMap, Partition, Abort
  <2>4. CASE CReduceAdd(k) \/ CReduceMinMax(k) \/ TsReduce(k)
    BY <2>4 DEF CReduceAdd, CReduceMinMax, TsReduce, FoldUntilFault
  <2>5. CASE LlvmReduceAdd(k) \/ LlvmReduceMinMax(k)
    BY <2>5 DEF LlvmReduceAdd, LlvmReduceMinMax
  <2>6. CASE CScan(k) \/ LlvmScan(k) \/ TsScan(k)
    BY <2>6 DEF CScan, LlvmScan, TsScan, ScanUntilFault, Abort
  <2>7. CASE CRepeat(k) \/ LlvmRepeat(k) \/ TsRepeat(k)
    BY <2>7 DEF CRepeat, LlvmRepeat, TsRepeat, Again, Abort
  <2>8. CASE CMatch(k) \/ LlvmMatch(k) \/ TsMatch(k)
    BY <2>8 DEF CMatch, LlvmMatch, TsMatch, Arm, Abort
  <2>9. QED
    BY <1>1, <2>1, <2>2, <2>3, <2>4, <2>5, <2>6, <2>7, <2>8 DEF Iterate
<1>2. QED
  BY <1>1
     DEF Next, vars, Refuse, PassFaultOn, ReduceUnset, Enter, TsCompact, Leave

(* The loops a map or a match runs through. *)
LEMMA LoopsOfKind ==
  ASSUME NEW k, Iterate(k)
  PROVE  /\ pc = "loop" /\ k \in todo
         /\ job.kind = "map" => CMap(k) \/ LlvmMap(k) \/ TsMap(k)
         /\ job.kind = "match" => CMatch(k) \/ LlvmMatch(k) \/ TsMatch(k)
<1>1. CASE \/ CFilter(k) \/ LlvmFilter(k) \/ TsFilter(k) \/ TsDecide(k)
           \/ CFaultMap(k) \/ LlvmFaultMap(k) \/ TsFaultMap(k)
  BY <1>1 DEF CFilter, LlvmFilter, TsFilter, TsDecide, CFaultMap, LlvmFaultMap,
              TsFaultMap, Visiting
<1>2. CASE \/ CReduceAdd(k) \/ CReduceMinMax(k) \/ TsReduce(k)
           \/ LlvmReduceAdd(k) \/ LlvmReduceMinMax(k)
           \/ CScan(k) \/ LlvmScan(k) \/ TsScan(k)
           \/ CRepeat(k) \/ LlvmRepeat(k) \/ TsRepeat(k)
  BY <1>2 DEF CReduceAdd, CReduceMinMax, TsReduce, LlvmReduceAdd,
              LlvmReduceMinMax, CScan, LlvmScan, TsScan, CRepeat, LlvmRepeat,
              TsRepeat, Visiting
<1>3. CASE CMap(k) \/ LlvmMap(k) \/ TsMap(k)
  BY <1>3 DEF CMap, LlvmMap, TsMap, Visiting
<1>4. CASE CMatch(k) \/ LlvmMatch(k) \/ TsMatch(k)
  BY <1>4 DEF CMatch, LlvmMatch, TsMatch, Visiting
<1>5. QED
  BY <1>1, <1>2, <1>3, <1>4 DEF Iterate

(* An iteration fills one slot and leaves the others. *)
LEMMA FillSlotKeeps ==
  ASSUME JobInv, MapLoop, job.kind = "map", ~Garbled, pc = "loop",
         NEW k \in todo, FillSlot(k)
  PROVE  MapLoop' /\ MapsKeepMeaning'
<1> DEFINE answer == Call(job.node, src[k])
<1>1. /\ ~Faulted /\ src = job.input.value /\ todo \subseteq DOMAIN src
      /\ out = [n \in DOMAIN src |-> out[n]]
      /\ \A n \in DOMAIN src \ todo :
           out[n] = Call(job.node, src[n]) /\ out[n] # Dead
  BY DEF MapLoop
<1>2. job' = job /\ backEnd' = backEnd /\ src' = src
  BY DEF FillSlot, Abort
<1>3. CASE answer = Dead
  <2>1. pc' = "aborted"
    BY <1>3 DEF FillSlot, Abort
  <2>2. AnyDead(Answered(job.input.value, job.node))
    BY <1>1, <1>3 DEF AnyDead, Answered
  <2>3. QED
    BY <1>1, <1>2, <2>1, <2>2 DEF MapLoop, MapsKeepMeaning, Faulted, Garbled
<1>4. CASE answer # Dead
  <2>1. /\ out' = [out EXCEPT ![k] = answer] /\ todo' = todo \ {k}
        /\ pc' = "loop"
    BY <1>4 DEF FillSlot
  <2>2. out' = [n \in DOMAIN src |-> out'[n]]
    BY <1>1, <2>1
  <2>3. ASSUME NEW n \in DOMAIN src \ todo'
        PROVE  out'[n] = Call(job.node, src[n]) /\ out'[n] # Dead
    BY <1>1, <1>4, <2>1
  <2>4. QED
    BY <1>1, <1>2, <2>1, <2>2, <2>3
       DEF MapLoop, MapsKeepMeaning, Faulted, Garbled, Call
<1>5. QED
  BY <1>3, <1>4

(* The map's part of the invariant is kept by every step. *)
LEMMA MapSteps ==
  ASSUME JobInv, MapLoop, MapsKeepMeaning, [Next]_vars
  PROVE  MapLoop' /\ MapsKeepMeaning'
<1> SUFFICES ASSUME job.kind = "map", ~Garbled
             PROVE  MapLoop' /\ MapsKeepMeaning'
  BY JobFixed DEF MapLoop, MapsKeepMeaning, Garbled
<1>1. AcceptedMap(job) /\ job' = job /\ backEnd' = backEnd
  BY JobFixed DEF JobInv
<1>2. CASE Refuse
  BY <1>1, <1>2 DEF Refuse, MapLoop, MapsKeepMeaning
<1>3. CASE PassFaultOn
  BY <1>1, <1>3 DEF PassFaultOn, MapLoop, MapsKeepMeaning, Faulted
<1>4. CASE ReduceUnset
  BY <1>4 DEF ReduceUnset
<1>5. CASE Enter
  <2>1. ~Faulted /\ pc' = "loop" /\ src' = job.input.value
    BY <1>5 DEF Enter, Faulted
  <2>2. todo' = 1 .. Len(job.input.value)
    BY <1>5 DEF Enter, Positions
  <2>3. todo' = DOMAIN src'
    BY <1>1, <2>1, <2>2, MapInput
  <2>4. out' = [n \in DOMAIN src' |-> Unset]
    BY <1>5, <2>3 DEF Enter
  <2>5. QED
    BY <1>1, <2>1, <2>3, <2>4 DEF MapLoop, MapsKeepMeaning, Faulted
<1>6. ASSUME NEW k \in todo, Iterate(k)
      PROVE  MapLoop' /\ MapsKeepMeaning'
  <2>1. pc = "loop" /\ (CMap(k) \/ LlvmMap(k) \/ TsMap(k))
    BY <1>6, LoopsOfKind
  <2>2. FillSlot(k)
    BY <2>1 DEF CMap, LlvmMap, TsMap, Garbled, Visiting
  <2>3. QED
    BY <2>1, <2>2, FillSlotKeeps
<1>7. CASE TsCompact
  BY <1>7 DEF TsCompact
<1>8. CASE Leave
  <2>1. pc = "loop" /\ todo = {} /\ pc' = "done" /\ out' = out
    BY <1>8 DEF Leave
  <2>2. /\ ~Faulted /\ src = job.input.value
        /\ out = [n \in DOMAIN src |-> out[n]]
        /\ \A n \in DOMAIN src :
             out[n] = Call(job.node, src[n]) /\ out[n] # Dead
    BY <2>1 DEF MapLoop
  <2>3. out = Answered(job.input.value, job.node) /\ ~AnyDead(out)
    BY <2>2 DEF Answered, AnyDead
  <2>4. QED
    BY <1>1, <2>1, <2>2, <2>3 DEF MapLoop, MapsKeepMeaning, Faulted
<1>9. CASE UNCHANGED vars
  BY <1>9 DEF vars, MapLoop, MapsKeepMeaning, Garbled, Faulted
<1>10. QED
  BY <1>2, <1>3, <1>4, <1>5, <1>6, <1>7, <1>8, <1>9 DEF Next

(* One arm: it decides, or it joins those that did not hold. *)
LEMMA ArmKeeps ==
  ASSUME JobInv, MatchLoop, job.kind = "match", pc = "loop",
         NEW k \in todo, InOrder(k), Arm(k)
  PROVE  MatchLoop' /\ MatchesKeepMeaning'
<1>1. /\ todo \subseteq DOMAIN job.node
      /\ \A m \in DOMAIN job.node \ todo : job.node[m].guard = No
  BY DEF MatchLoop
<1>2. job' = job
  BY DEF Arm, Abort
<1>3. AcceptedMatch(job)
  BY DEF JobInv
<1>4. /\ Len(job.node) \in Nat \ {0} /\ DOMAIN job.node = 1 .. Len(job.node)
      /\ job.node[k].guard \in Decisions
      /\ job.node[Len(job.node)].guard = Yes
  BY <1>1, <1>3, MatchArms
<1>5. \A m \in 1 .. k - 1 : job.node[m].guard = No
  BY <1>1, <1>4 DEF InOrder
<1>6. Yes # No /\ Yes # Dead /\ No # Dead
  BY DEF Yes, No, Dead, Ok
<1>7. CASE job.node[k].guard = Dead \/ (job.node[k].guard = Yes /\ job.node[k].target = Dead)
  <2>1. pc' = "aborted"
    BY <1>7 DEF Arm, Abort
  <2>2. Decides(k)
    BY <1>1, <1>5, <1>6, <1>7 DEF Decides
  <2>3. Matched(job.node) = Dead
    BY <1>3, <1>7, <2>2, DecidingArm
  <2>4. QED
    BY <1>2, <2>1, <2>3 DEF MatchLoop, MatchesKeepMeaning
<1>8. CASE job.node[k].guard = Yes /\ job.node[k].target # Dead
  <2>1. pc' = "loop" /\ todo' = {} /\ acc' = job.node[k].target
    BY <1>6, <1>8 DEF Arm
  <2>2. Decides(k)
    BY <1>1, <1>5, <1>6, <1>8 DEF Decides
  <2>3. Decides(k)'
    BY <1>2, <2>2 DEF Decides
  <2>4. QED
    BY <1>1, <1>2, <1>8, <2>1, <2>3 DEF MatchLoop, MatchesKeepMeaning
<1>9. CASE job.node[k].guard = No
  <2>1. pc' = "loop" /\ todo' = todo \ {k} /\ acc' = acc
    BY <1>6, <1>9 DEF Arm
  <2>2. k # Len(job.node)
    BY <1>4, <1>6, <1>9
  <2>3. Len(job.node) \in todo'
    BY <1>1, <1>4, <1>6, <2>1, <2>2
  <2>4. \A m \in DOMAIN job.node \ todo' : job.node[m].guard = No
    BY <1>1, <1>9, <2>1
  <2>5. QED
    BY <1>1, <1>2, <2>1, <2>3, <2>4 DEF MatchLoop, MatchesKeepMeaning
<1>10. QED
  BY <1>4, <1>7, <1>8, <1>9 DEF Decisions

(* The match's part of the invariant is kept by every step. *)
LEMMA MatchSteps ==
  ASSUME JobInv, MatchLoop, MatchesKeepMeaning, [Next]_vars
  PROVE  MatchLoop' /\ MatchesKeepMeaning'
<1> SUFFICES ASSUME job.kind = "match"
             PROVE  MatchLoop' /\ MatchesKeepMeaning'
  BY JobFixed DEF MatchLoop, MatchesKeepMeaning
<1>1. AcceptedMatch(job) /\ job.wrapped = FALSE /\ job' = job
  BY JobFixed DEF JobInv, AcceptedMatch
<1>2. CASE Refuse
  BY <1>1, <1>2 DEF Refuse, MatchLoop, MatchesKeepMeaning
<1>3. CASE PassFaultOn
  BY <1>1, <1>3 DEF PassFaultOn
<1>4. CASE ReduceUnset
  BY <1>4 DEF ReduceUnset
<1>5. CASE Enter
  <2>1. pc' = "loop" /\ todo' = 1 .. Len(job.node)
    BY <1>5 DEF Enter, Positions
  <2>2. todo' = DOMAIN job.node /\ todo' # {}
    BY <1>1, <2>1, MatchArms
  <2>3. QED
    BY <1>1, <2>1, <2>2 DEF MatchLoop, MatchesKeepMeaning
<1>6. ASSUME NEW k \in todo, Iterate(k)
      PROVE  MatchLoop' /\ MatchesKeepMeaning'
  <2>1. pc = "loop" /\ (CMatch(k) \/ LlvmMatch(k) \/ TsMatch(k))
    BY <1>6, LoopsOfKind
  <2>2. InOrder(k) /\ Arm(k)
    BY <2>1 DEF CMatch, LlvmMatch, TsMatch
  <2>3. QED
    BY <2>1, <2>2, ArmKeeps
<1>7. CASE TsCompact
  BY <1>7 DEF TsCompact
<1>8. CASE Leave
  <2>1. pc = "loop" /\ todo = {} /\ pc' = "done" /\ acc' = acc
    BY <1>1, <1>8 DEF Leave
  <2>2. PICK k \in DOMAIN job.node :
          /\ Decides(k) /\ job.node[k].guard = Yes
          /\ acc = job.node[k].target /\ acc # Dead
    BY <2>1 DEF MatchLoop
  <2>3. Matched(job.node) = acc
    BY <1>1, <2>2, DecidingArm DEF Yes, Dead, Ok
  <2>4. QED
    BY <1>1, <2>1, <2>2, <2>3 DEF MatchLoop, MatchesKeepMeaning
<1>9. CASE UNCHANGED vars
  BY <1>9 DEF vars, MatchLoop, MatchesKeepMeaning, Decides
<1>10. QED
  BY <1>2, <1>3, <1>4, <1>5, <1>6, <1>7, <1>8, <1>9 DEF Next

-----------------------------------------------------------------------------
(* Induction and recursion over a range of naturals.                       *)

(* The order of the naturals, as a relation.                               *)
Below == {ss \in Nat \X Nat : ss[1] < ss[2]}

(* A set of naturals that is not empty has a least element.                *)
LEMMA LeastNatural ==
  ASSUME NEW T \in SUBSET Nat, T # {}
  PROVE  \E x \in T : \A y \in T : x <= y
<1>1. IsWellFoundedOn(Below, Nat)
  <2>1. OpToRel(<, Nat) = Below
    BY DEF OpToRel, Below
  <2> QED
    BY <2>1, NatLessThanWellFounded
<1>2. PICK x \in T : \A y \in T : ~(<<y, x>> \in Below)
  BY <1>1, WFMin
<1>3. ASSUME NEW y \in T PROVE x <= y
  <2>1. x \in Nat /\ y \in Nat /\ <<y, x>> \in Nat \X Nat
    OBVIOUS
  <2>2. ~(y < x)
    BY <1>2, <2>1 DEF Below
  <2> QED
    BY <2>1, <2>2
<1> QED
  BY <1>3

(* A set that holds 0 and, with a number up to b, the next.                *)
Climbs(S, b) == 0 \in S /\ \A n \in 1 .. b : n - 1 \in S => n \in S

(* What climbs holds throughout: induction over a range, for a set.        *)
LEMMA Climb ==
  ASSUME NEW b \in Nat, NEW S, Climbs(S, b)
  PROVE  0 .. b \subseteq S
<1> DEFINE Bad == {n \in 0 .. b : n \notin S}
<1> SUFFICES ASSUME Bad # {} PROVE FALSE
  OBVIOUS
<1>1. Bad \in SUBSET Nat
  OBVIOUS
<1>2. PICK m \in Bad : \A y \in Bad : m <= y
  <2> HIDE DEF Bad
  <2> QED
    BY <1>1, LeastNatural
<1>3. m \in 0 .. b /\ m \notin S
  OBVIOUS
<1>4. m # 0 /\ m \in 1 .. b /\ m - 1 \in 0 .. b
  <2>1. m # 0
    BY <1>3 DEF Climbs
  <2> QED
    BY <1>3, <2>1
<1>5. m - 1 \notin Bad
  <2> HIDE DEF Bad
  <2> QED
    BY <1>2, <1>4
<1>6. 0 \in S /\ (m - 1 \in S => m \in S)
  BY <1>4 DEF Climbs
<1> QED
  BY <1>3, <1>4, <1>5, <1>6

(* f is what the recursion that starts with first and goes on with step    *)
(* defines.                                                                *)
Solution(N, D, first, step, f) ==
  f \in [0 .. N -> D] /\ f[0] = first /\ \A n \in 1 .. N : f[n] = step[n][f[n - 1]]

(* Recursion over the positions of a sequence has a result.                *)
LEMMA Recursion ==
  ASSUME NEW N \in Nat, NEW D, NEW first \in D, NEW step \in [1 .. N -> [D -> D]]
  PROVE  \E f : Solution(N, D, first, step, f)
<1> DEFINE Upto(m, f) == f[0] = first /\ \A n \in 1 .. m : f[n] = step[n][f[n - 1]]
           S == {m \in 0 .. N : \E f \in [0 .. m -> D] : Upto(m, f)}
<1>1. 0 \in S
  <2>1. PICK g : g = [n \in 0 .. 0 |-> first]
    OBVIOUS
  <2>2. g \in [0 .. 0 -> D] /\ Upto(0, g)
    BY <2>1
  <2>3. \E f \in [0 .. 0 -> D] : Upto(0, f)
    BY <2>2
  <2> HIDE DEF Upto
  <2> QED
    BY <2>3
<1>2. ASSUME NEW b \in 1 .. N, b - 1 \in S PROVE b \in S
  <2>6. PICK f \in [0 .. b - 1 -> D] : Upto(b - 1, f)
    BY <1>2
  <2>7. PICK last \in D : last = step[b][f[b - 1]]
    <3>1. b - 1 \in 0 .. b - 1
      OBVIOUS
    <3> QED
      BY <3>1
  <2>8. PICK g : g = [n \in 0 .. b |-> IF n = b THEN last ELSE f[n]]
    OBVIOUS
  <2>9. g \in [0 .. b -> D] /\ g[b] = last /\ \A n \in 0 .. b - 1 : g[n] = f[n]
    BY <2>8
  <2>10. Upto(b, g)
    <3>1. g[0] = first
      BY <2>6, <2>9
    <3>2. ASSUME NEW n \in 1 .. b PROVE g[n] = step[n][g[n - 1]]
      <4>1. n \in Nat /\ n - 1 \in 0 .. b - 1 /\ b \in Nat
        OBVIOUS
      <4>2. g[n - 1] = f[n - 1]
        BY <4>1, <2>9
      <4>3. CASE n = b
        BY <4>2, <4>3, <2>7, <2>9
      <4>4. CASE n # b
        <5>1. n \in 1 .. b - 1 /\ n \in 0 .. b - 1
          BY <4>1, <4>4
        <5>2. f[n] = step[n][f[n - 1]]
          BY <5>1, <2>6
        <5> QED
          BY <5>1, <5>2, <4>2, <2>9
      <4> QED
        BY <4>3, <4>4
    <3> QED
      BY <3>1, <3>2
  <2> QED
    BY <2>9, <2>10
<1>3. N \in S
  <2> HIDE DEF S
  <2>1. \A n \in 1 .. N : n - 1 \in S => n \in S
    BY <1>2
  <2>2. Climbs(S, N)
    BY <1>1, <2>1 DEF Climbs
  <2> QED
    BY <2>2, Climb
<1> QED
  BY <1>3 DEF Solution
-----------------------------------------------------------------------------
(* What an operation may answer in a fold, and what a fold is at each      *)
(* item.                                                                   *)
States ==
  Plain \cup {Fault(f) : f \in {"first", "second", "node", "overflow"}}
        \cup {Dead}
Ops == [Values -> [Values -> States]]

(* What tells the outcomes of nodes apart.                                 *)
LEMMA StateFacts ==
  /\ \A r \in States : r.ok \in BOOLEAN /\ (r.ok => r.value \in Values /\ r = Ok(r.value))
  /\ \A v \in Values : Ok(v) \in States /\ Ok(v).ok /\ Ok(v).value = v /\ Ok(v) # Dead
  /\ Items \subseteq States /\ Answers \subseteq States /\ Dead \in States /\ ~Dead.ok
  /\ Dead \notin Items /\ Plain \subseteq Items /\ \A r \in Plain : r.ok
<1>1. \A v \in Values : Ok(v) \in Plain /\ Ok(v).ok = TRUE /\ Ok(v).value = v
  BY DEF Plain, Ok
<1>2. \A f : Fault(f).ok = FALSE /\ Fault(f).fault = f
  BY DEF Fault
<1>3. Dead = Fault("aborted") /\ Dead.ok = FALSE
  BY DEF Dead, Fault
<1>4. \A r \in Plain : r.ok = TRUE /\ r.value \in Values /\ r = Ok(r.value)
  BY <1>1 DEF Plain
<1>5. \A r \in States : r \in Plain \/ r.ok = FALSE
  BY <1>2, <1>3 DEF States
<1>6. Plain \subseteq States /\ Dead \in States
  BY DEF States
<1>7. Fault("first") \in States /\ Fault("second") \in States /\ Fault("node") \in States
  BY DEF States
<1>8. Items \subseteq States /\ Answers \subseteq States /\ Plain \subseteq Items
  BY <1>6, <1>7 DEF Items, Answers
<1>9. Dead \notin Items
  <2>1. Dead # Fault("first") /\ Dead # Fault("second")
    <3>1. Dead.fault = "aborted"
      BY DEF Dead
    <3> QED
      BY <3>1, <1>2
  <2> QED
    BY <2>1, <1>3, <1>4 DEF Items
<1> QED
  BY <1>1, <1>3, <1>4, <1>5, <1>6, <1>8, <1>9

(* One step of a fold.                                                     *)
After(op, item, r) ==
  IF ~r.ok THEN r ELSE IF ~item.ok THEN item ELSE op[r.value][item.value]

(* A fold stays among the outcomes.                                        *)
LEMMA AfterIsState ==
  ASSUME NEW op \in Ops, NEW item \in Items, NEW r \in States
  PROVE  After(op, item, r) \in States
BY StateFacts DEF After, Ops

(* The reference fold is a function and satisfies its recursion.           *)
LEMMA FoldedUnfolds ==
  ASSUME NEW op \in Ops, NEW start \in Values, NEW xs \in Seq(Items)
  PROVE  /\ Folded(op, start, xs) \in [0 .. Len(xs) -> States]
         /\ Folded(op, start, xs)[0] = Ok(start)
         /\ \A n \in 1 .. Len(xs) :
              Folded(op, start, xs)[n] = After(op, xs[n], Folded(op, start, xs)[n - 1])
<1> DEFINE step == [n \in 1 .. Len(xs) |-> [r \in States |-> After(op, xs[n], r)]]
<1>1. PICK f \in [0 .. Len(xs) -> States] :
        f[0] = Ok(start) /\ \A n \in 1 .. Len(xs) : f[n] = step[n][f[n - 1]]
  <2>1. Ok(start) \in States /\ Len(xs) \in Nat
    BY StateFacts
  <2>2. \A n \in 1 .. Len(xs) : xs[n] \in Items
    OBVIOUS
  <2>3. step \in [1 .. Len(xs) -> [States -> States]]
    BY <2>2, AfterIsState
  <2> HIDE DEF step
  <2>4. \E f : Solution(Len(xs), States, Ok(start), step, f)
    BY <2>1, <2>3, Recursion
  <2> QED
    BY <2>4 DEF Solution
<1>2. \A n \in 0 .. Len(xs) :
        f[n] = IF n = 0 THEN Ok(start) ELSE After(op, xs[n], f[n - 1])
  <2> SUFFICES ASSUME NEW n \in 0 .. Len(xs)
               PROVE f[n] = IF n = 0 THEN Ok(start) ELSE After(op, xs[n], f[n - 1])
    OBVIOUS
  <2>1. f[n] = IF n = 0 THEN Ok(start) ELSE step[n][f[n - 1]]
    <3> HIDE DEF step
    <3> QED
      BY <1>1
  <2>2. n # 0 => n \in 1 .. Len(xs) /\ n - 1 \in 0 .. Len(xs)
    OBVIOUS
  <2>3. n # 0 => f[n - 1] \in States
    BY <2>2
  <2> QED
    BY <2>1, <2>2, <2>3
<1>3. f = [n \in 0 .. Len(xs) |-> IF n = 0 THEN Ok(start) ELSE After(op, xs[n], f[n - 1])]
  <2> HIDE DEF step
  <2> QED
    BY <1>2
<1>4. Folded(op, start, xs) = [n \in 0 .. Len(xs) |->
        IF n = 0 THEN Ok(start) ELSE After(op, xs[n], Folded(op, start, xs)[n - 1])]
  <2> HIDE DEF step
  <2> QED
    BY <1>3 DEF Folded, After
<1> DEFINE F == Folded(op, start, xs)
<1>5. \A n \in 0 .. Len(xs) :
        F[n] = IF n = 0 THEN Ok(start) ELSE After(op, xs[n], F[n - 1])
  BY <1>4
<1> HIDE DEF F, step
<1>6. \A n \in 0 .. Len(xs) : F[n] = f[n]
  <2> DEFINE S == {n \in 0 .. Len(xs) : F[n] = f[n]}
  <2>1. 0 \in S
    BY <1>2, <1>5
  <2>2. ASSUME NEW n \in 1 .. Len(xs), n - 1 \in S PROVE n \in S
    BY <1>2, <1>5, <2>2
  <2> HIDE DEF S
  <2>3. Climbs(S, Len(xs))
    BY <2>1, <2>2 DEF Climbs
  <2>4. 0 .. Len(xs) \subseteq S
    BY <2>3, Climb
  <2> QED
    BY <2>4 DEF S
<1>7. F = f
  <2>2. F = [n \in 0 .. Len(xs) |-> F[n]]
    BY <1>4 DEF F
  <2> QED
    BY <1>6, <2>2
<1>8. \A n \in 1 .. Len(xs) : F[n] = After(op, xs[n], F[n - 1])
  BY <1>5
<1>9. F[0] = Ok(start)
  BY <1>5
<1> QED
  BY <1>7, <1>8, <1>9 DEF F

(* The operations `reduce` supports: none aborts, and min and max do not   *)
(* fault.                                                                  *)
LEMMA ReduceOps ==
  ASSUME NEW op \in {AddInt, AddFloat, MinOf, MaxOf}
  PROVE  /\ op \in Ops
         /\ \A a, b \in Values : op[a][b] # Dead
         /\ op \in {MinOf, MaxOf} => \A a, b \in Values : op[a][b].ok
<1>1. ASSUME NEW a \in Values, NEW b \in Values
      PROVE  /\ a + b <= Top => a + b \in Values
             /\ Top \in Values
             /\ (IF a < b THEN a ELSE b) \in Values /\ (IF a > b THEN a ELSE b) \in Values
  BY BoundsAssumption DEF Values
<1>2. Fault("overflow") \in States /\ Fault("overflow") # Dead
  <2>1. Fault("overflow").fault # Dead.fault
    BY DEF Fault, Dead
  <2> QED
    BY <2>1 DEF States
<1>3. ASSUME NEW a \in Values, NEW b \in Values
      PROVE  /\ AddInt[a][b] \in States \ {Dead} /\ AddFloat[a][b] \in States \ {Dead}
             /\ MinOf[a][b] \in States \ {Dead} /\ MaxOf[a][b] \in States \ {Dead}
             /\ MinOf[a][b].ok /\ MaxOf[a][b].ok
  <2>1. AddInt[a][b] = IF a + b <= Top THEN Ok(a + b) ELSE Fault("overflow")
    BY DEF AddInt
  <2>2. AddFloat[a][b] = Ok(IF a + b <= Top THEN a + b ELSE Top)
    BY DEF AddFloat
  <2>3. MinOf[a][b] = Ok(IF a < b THEN a ELSE b)
    BY DEF MinOf
  <2>4. MaxOf[a][b] = Ok(IF a > b THEN a ELSE b)
    BY DEF MaxOf
  <2> QED
    BY <2>1, <2>2, <2>3, <2>4, <1>1, <1>2, StateFacts
<1>4. /\ AddInt = [a \in Values |-> [b \in Values |-> AddInt[a][b]]]
      /\ AddFloat = [a \in Values |-> [b \in Values |-> AddFloat[a][b]]]
      /\ MinOf = [a \in Values |-> [b \in Values |-> MinOf[a][b]]]
      /\ MaxOf = [a \in Values |-> [b \in Values |-> MaxOf[a][b]]]
  BY DEF AddInt, AddFloat, MinOf, MaxOf
<1>5. AddInt \in Ops /\ AddFloat \in Ops /\ MinOf \in Ops /\ MaxOf \in Ops
  BY <1>3, <1>4 DEF Ops
<1> QED
  BY <1>3, <1>5

(* Once a fold has faulted it stays as it is.                              *)
LEMMA FaultsStay ==
  ASSUME NEW op \in Ops, NEW start \in Values, NEW xs \in Seq(Items),
         NEW n \in 0 .. Len(xs), ~Folded(op, start, xs)[n].ok
  PROVE  Folded(op, start, xs)[Len(xs)] = Folded(op, start, xs)[n]
<1>1. PICK p : p = Folded(op, start, xs)
  OBVIOUS
<1>2. \A m \in 1 .. Len(xs) : p[m] = After(op, xs[m], p[m - 1])
  BY <1>1, FoldedUnfolds
<1> DEFINE S == {m \in 0 .. Len(xs) : m >= n => p[m] = p[n]}
<1>3. Climbs(S, Len(xs))
  <2>1. 0 \in S
    OBVIOUS
  <2>2. ASSUME NEW m \in 1 .. Len(xs), m - 1 \in S PROVE m \in S
    <3>1. CASE m - 1 >= n
      <4>1. p[m - 1] = p[n]
        BY <2>2, <3>1
      <4> QED
        BY <4>1, <1>1, <1>2 DEF After
    <3>2. CASE ~(m - 1 >= n)
      <4>1. m = n \/ ~(m >= n)
        BY <3>2
      <4> QED
        BY <4>1
    <3> QED
      BY <3>1, <3>2
  <2> HIDE DEF S
  <2> QED
    BY <2>1, <2>2 DEF Climbs
<1>4. Len(xs) \in 0 .. Len(xs) /\ Len(xs) >= n /\ Len(xs) \in Nat
  OBVIOUS
<1>5. Len(xs) \in S
  <2> HIDE DEF S
  <2> QED
    BY <1>3, <1>4, Climb
<1> QED
  BY <1>1, <1>4, <1>5
-----------------------------------------------------------------------------
(* The jobs of folds, repeats, filters and fault maps.                     *)
AcceptedFold(j) ==
  /\ AcceptedMap(j) /\ j.faultable \in BOOLEAN /\ j.start \in Values /\ j.node \in Ops
  /\ j.kind = "reduce" => j.node \in {AddInt, AddFloat, MinOf, MaxOf}
AcceptedRepeat(j) ==
  /\ j.wrapped = FALSE /\ j.node \in [Values -> Answers]
  /\ j.start \in -1 .. MaxCount /\ j.input \in Items
AcceptedFilter(j) ==
  AcceptedMap(j) /\ j.faultable = FALSE /\ j.node \in [Values -> Decisions]
AcceptedFaultMap(j) == AcceptedMap(j) /\ j.node \in [Values -> Answers]

Accepted(j) ==
  /\ j.kind \in {"reduce", "scan"} => AcceptedFold(j)
  /\ j.kind = "repeat" => AcceptedRepeat(j)
  /\ j.kind = "filter" => AcceptedFilter(j)
  /\ j.kind = "fault_map" => AcceptedFaultMap(j)

(* The fields of a job over a sequence.                                    *)
LEMMA SequenceFields ==
  ASSUME NEW j, NEW kind, NEW node, NEW start, NEW faultable, NEW concurrent,
         SequenceJob(kind, node, start, faultable, concurrent, j)
  PROVE  j.node = node /\ j.start = start /\ j.faultable = faultable /\ j.kind = kind
BY DEF SequenceJob, Job

(* What the type checker lets into the other stages.                       *)
LEMMA AcceptedKinds ==
  ASSUME NEW j, AcceptedJob(j)
  PROVE  Accepted(j)
<1>1. CASE \E node \in [Values -> Answers], faultable, concurrent \in BOOLEAN :
             SequenceJob("map", node, 0, faultable, concurrent, j)
  BY <1>1, SequenceFields DEF Accepted
<1>2. CASE \E node \in [Values -> Decisions], concurrent \in BOOLEAN :
             SequenceJob("filter", node, 0, FALSE, concurrent, j)
  <2>1. PICK node \in [Values -> Decisions], concurrent \in BOOLEAN :
          SequenceJob("filter", node, 0, FALSE, concurrent, j)
    BY <1>2
  <2> QED
    BY <2>1, SequenceFields, SequenceJobs DEF Accepted, AcceptedFilter
<1>3. CASE \E node \in [Values -> Answers], faultable \in BOOLEAN :
             SequenceJob("fault_map", node, 0, faultable, FALSE, j)
  <2>1. PICK node \in [Values -> Answers], faultable \in BOOLEAN :
          SequenceJob("fault_map", node, 0, faultable, FALSE, j)
    BY <1>3
  <2> QED
    BY <2>1, SequenceFields, SequenceJobs DEF Accepted, AcceptedFaultMap
<1>4. CASE \E op \in {AddInt, AddFloat, MinOf, MaxOf}, start \in Values,
              faultable \in BOOLEAN :
             SequenceJob("reduce", op, start, faultable, FALSE, j)
  <2>1. PICK op \in {AddInt, AddFloat, MinOf, MaxOf}, start \in Values,
              faultable \in BOOLEAN :
             SequenceJob("reduce", op, start, faultable, FALSE, j)
    BY <1>4
  <2>2. op \in Ops
    BY ReduceOps
  <2> QED
    BY <2>1, <2>2, SequenceFields, SequenceJobs DEF Accepted, AcceptedFold
<1>5. CASE \E op \in [Values -> [Values -> Answers]], start \in Values,
              faultable \in BOOLEAN :
             SequenceJob("scan", op, start, faultable, FALSE, j)
  <2>1. PICK op \in [Values -> [Values -> Answers]], start \in Values,
              faultable \in BOOLEAN :
             SequenceJob("scan", op, start, faultable, FALSE, j)
    BY <1>5
  <2>2. op \in Ops
    BY StateFacts DEF Ops
  <2> QED
    BY <2>1, <2>2, SequenceFields, SequenceJobs DEF Accepted, AcceptedFold
<1>6. CASE \E node \in [Values -> Answers], count \in -1 .. MaxCount, x \in Items :
             j = Job("repeat", node, count, x, FALSE, FALSE, FALSE)
  BY <1>6 DEF Job, Accepted, AcceptedRepeat
<1>7. CASE \E n \in 0 .. MaxArms, x \in Plain :
           \E guards \in [1 .. n -> Decisions], targets \in [1 .. n + 1 -> Answers] :
             j = Job("match", [k \in 1 .. n + 1 |->
                                 [guard |-> IF k <= n THEN guards[k] ELSE Yes,
                                  target |-> targets[k]]],
                     0, x, FALSE, FALSE, FALSE)
  <2>1. j.kind = "match"
    BY <1>7 DEF Job
  <2> QED
    BY <2>1 DEF Accepted
<1> QED
  BY <1>1, <1>2, <1>3, <1>4, <1>5, <1>6, <1>7 DEF AcceptedJob

-----------------------------------------------------------------------------
(* Reductions and scans.                                                   *)

(* The fold of the job's input.                                            *)
Prefix == Folded(job.node, job.start, job.input.value)

(* FoldsKeepMeaning's relation between a state of the loop and one of the  *)
(* fold.                                                                   *)
Agrees(r, m) ==
  /\ r.ok = m.ok
  /\ r.ok \/ backEnd # "llvm" => r = m
  /\ ~r.ok => r = m \/ r \in {job.input.value[k] : k \in DOMAIN job.input.value}

(* The loop has folded the first n items; a scan has also stored its       *)
(* states.                                                                 *)
FoldedTo(n) ==
  /\ acc \in States /\ Agrees(acc, Prefix[n]) /\ Prefix[n] # Dead
  /\ backEnd = "llvm" /\ job.kind = "reduce" /\ job.node \in {MinOf, MaxOf} => acc.ok
  /\ job.kind = "scan" =>
       /\ out \in Seq(States) /\ Len(out) = n
       /\ \A k \in 1 .. n : Agrees(out[k], Prefix[k])

(* The loop of a reduction or a scan has folded a prefix of the items.     *)
FoldLoop ==
  job.kind \in {"reduce", "scan"} /\ ~Faulted /\ pc = "loop" =>
    /\ src = job.input.value /\ Supports(backEnd, job)
    /\ \E n \in 0 .. Len(src) : todo = n + 1 .. Len(src) /\ FoldedTo(n)

(* The sequence a stage reads when it is not a fault.                      *)
LEMMA SequenceInput ==
  ASSUME AcceptedMap(job), ~Faulted
  PROVE  /\ job.input.ok /\ job.input.value \in Seq(Items)
         /\ DOMAIN job.input.value = 1 .. Len(job.input.value)
         /\ Len(job.input.value) \in Nat
         /\ job.faultable = FALSE => job.input.value \in Seq(Plain)
<1>1. PICK xs \in Sequences(job.faultable) : job.input = Ok(xs)
  BY DEF AcceptedMap, Faulted, Fault
<1>2. job.input.ok /\ job.input.value = xs
  BY <1>1 DEF Ok
<1>3. xs \in Seq(Items) /\ (job.faultable = FALSE => xs \in Seq(Plain))
  <2>1. Plain \subseteq Items
    BY StateFacts
  <2> QED
    BY <1>1, <2>1 DEF Sequences, SeqsOf
<1> QED
  BY <1>2, <1>3

(* The fold of an accepted reduction or scan.                              *)
LEMMA FoldFacts ==
  ASSUME Accepted(job), job.kind \in {"reduce", "scan"}, ~Faulted
  PROVE  /\ job.input.value \in Seq(Items) /\ Len(job.input.value) \in Nat
         /\ DOMAIN job.input.value = 1 .. Len(job.input.value)
         /\ job.node \in Ops /\ job.start \in Values
         /\ Prefix \in [0 .. Len(job.input.value) -> States] /\ Prefix[0] = Ok(job.start)
         /\ \A n \in 1 .. Len(job.input.value) :
              Prefix[n] = After(job.node, job.input.value[n], Prefix[n - 1])
         /\ \A n \in 0 .. Len(job.input.value) :
              ~Prefix[n].ok => Prefix[Len(job.input.value)] = Prefix[n]
<1>1. AcceptedMap(job) /\ job.node \in Ops /\ job.start \in Values
  BY DEF Accepted, AcceptedFold
<1>2. job.input.value \in Seq(Items) /\ DOMAIN job.input.value = 1 .. Len(job.input.value)
  BY <1>1, SequenceInput
<1> QED
  BY <1>1, <1>2, FoldedUnfolds, FaultsStay DEF Prefix

(* The next state of the fold, by what the loop's state and the item are.  *)
LEMMA NextPrefix ==
  ASSUME Accepted(job), job.kind \in {"reduce", "scan"}, ~Faulted, src = job.input.value,
         NEW n \in 0 .. Len(src), NEW k, k \in n + 1 .. Len(src),
         \A m \in n + 1 .. Len(src) : k <= m,
         FoldedTo(n)
  PROVE  /\ k = n + 1 /\ k \in 1 .. Len(src) /\ src[k] \in Items
         /\ acc.ok = Prefix[n].ok
         /\ ~acc.ok => Prefix[k] = Prefix[n]
         /\ acc.ok => acc = Prefix[n] /\ acc.value \in Values
         /\ acc.ok /\ ~src[k].ok => Prefix[k] = src[k]
         /\ acc.ok /\ src[k].ok =>
              Prefix[k] = job.node[acc.value][src[k].value] /\ src[k].value \in Values
<1>1. /\ src \in Seq(Items) /\ Len(src) \in Nat /\ Prefix \in [0 .. Len(src) -> States]
      /\ \A m \in 1 .. Len(src) : Prefix[m] = After(job.node, src[m], Prefix[m - 1])
  BY FoldFacts
<1>2. k = n + 1 /\ k \in 1 .. Len(src) /\ n \in Nat
  BY <1>1
<1>3. src[k] \in Items /\ src[k] \in States
  BY <1>1, <1>2, StateFacts
<1>4. acc \in States /\ acc.ok = Prefix[n].ok /\ (acc.ok => acc = Prefix[n])
  BY DEF FoldedTo, Agrees
<1>5. Prefix[k] = After(job.node, src[k], Prefix[n])
  BY <1>1, <1>2
<1> QED
  BY <1>2, <1>3, <1>4, <1>5, StateFacts DEF After

(* A reduction of the C or TypeScript back end visits one item or stops.   *)
LEMMA FoldUntilFaultKeeps ==
  ASSUME Accepted(job), job.kind = "reduce", ~Faulted, FoldLoop, pc = "loop",
         NEW k \in todo, InOrder(k), FoldUntilFault(k), backEnd # "llvm"
  PROVE  FoldLoop' /\ pc' = "loop"
<1>1. src = job.input.value /\ Supports(backEnd, job)
  BY DEF FoldLoop
<1>2. PICK n \in 0 .. Len(src) : todo = n + 1 .. Len(src) /\ FoldedTo(n)
  BY DEF FoldLoop
<1>3. UNCHANGED <<backEnd, job, pc, src, out, faults>>
  BY DEF FoldUntilFault
<1>4. Prefix' = Prefix
  BY <1>3 DEF Prefix
<1>5. /\ k = n + 1 /\ k \in 1 .. Len(src) /\ src[k] \in Items
      /\ acc.ok = Prefix[n].ok
      /\ ~acc.ok => Prefix[k] = Prefix[n]
      /\ acc.ok => acc = Prefix[n] /\ acc.value \in Values
      /\ acc.ok /\ ~src[k].ok => Prefix[k] = src[k]
      /\ acc.ok /\ src[k].ok =>
           Prefix[k] = job.node[acc.value][src[k].value] /\ src[k].value \in Values
  BY <1>1, <1>2, NextPrefix DEF InOrder
<1>6. /\ Len(src) \in Nat /\ job.node \in Ops
      /\ Prefix \in [0 .. Len(src) -> States]
      /\ \A m \in 0 .. Len(src) : ~Prefix[m].ok => Prefix[Len(src)] = Prefix[m]
  BY <1>1, FoldFacts
<1>7. job.node \in {AddInt, AddFloat, MinOf, MaxOf}
  BY DEF Accepted, AcceptedFold
<1> DEFINE N == Len(src)
<1>8. \E m \in 0 .. N : /\ todo' = m + 1 .. N /\ acc' \in States
                         /\ acc' = Prefix[m] /\ Prefix[m] # Dead
  <2>1. CASE ~acc.ok
    <3>1. todo' = {} /\ acc' = acc
      BY <2>1 DEF FoldUntilFault
    <3>2. acc = Prefix[n] /\ acc # Dead /\ acc \in States
      BY <1>2 DEF FoldedTo, Agrees
    <3>3. Prefix[N] = acc
      BY <1>5, <1>6, <2>1, <3>2
    <3>4. N \in 0 .. N /\ N + 1 .. N = {}
      BY <1>6
    <3> QED
      BY <3>1, <3>2, <3>3, <3>4
  <2>2. CASE acc.ok /\ ~src[k].ok
    <3>1. todo' = {} /\ acc' = src[k]
      BY <2>2 DEF FoldUntilFault
    <3>2. src[k] \in States /\ src[k] # Dead
      BY <1>5, StateFacts
    <3>3. k \in 0 .. N /\ Prefix[k] = src[k]
      BY <1>5, <2>2
    <3>4. Prefix[N] = src[k]
      BY <1>6, <2>2, <3>3
    <3>5. N \in 0 .. N /\ N + 1 .. N = {}
      BY <1>6
    <3> QED
      BY <3>1, <3>2, <3>4, <3>5
  <2>3. CASE acc.ok /\ src[k].ok
    <3>1. todo' = todo \ {k} /\ acc' = job.node[acc.value][src[k].value]
      BY <2>3 DEF FoldUntilFault
    <3>2. k \in 0 .. N /\ todo' = k + 1 .. N
      BY <1>2, <1>5, <1>6, <3>1
    <3>3. acc' = Prefix[k] /\ acc' \in States /\ acc' # Dead
      <4>1. acc.value \in Values /\ src[k].value \in Values
        BY <1>5, <2>3
      <4>2. job.node[acc.value][src[k].value] # Dead
        BY <1>7, <4>1, ReduceOps
      <4>3. job.node[acc.value][src[k].value] \in States
        BY <1>6, <4>1 DEF Ops
      <4> QED
        BY <1>5, <2>3, <3>1, <4>2, <4>3
    <3> QED
      BY <3>2, <3>3
  <2> QED
    BY <2>1, <2>2, <2>3
<1>9. PICK m \in 0 .. N : /\ todo' = m + 1 .. N /\ acc' \in States
                           /\ acc' = Prefix[m] /\ Prefix[m] # Dead
  BY <1>8
<1>10. Agrees(acc', Prefix[m])
  BY <1>9 DEF Agrees
<1>11. FoldedTo(m)'
  <2>1. Agrees(acc, Prefix[m])'
    BY <1>10, <1>3, <1>4 DEF Agrees
  <2> QED
    BY <1>3, <1>4, <1>9, <2>1 DEF FoldedTo
<1>12. Supports(backEnd, job)'
  BY <1>1, <1>3
<1> QED
  BY <1>1, <1>3, <1>9, <1>11, <1>12 DEF FoldLoop

(* The fold that straight-line code selects.                               *)
LEMMA SelectAgrees ==
  ASSUME Accepted(job), job.kind \in {"reduce", "scan"}, ~Faulted, src = job.input.value,
         NEW n \in 0 .. Len(src), NEW k, k \in n + 1 .. Len(src),
         \A m \in n + 1 .. Len(src) : k <= m,
         FoldedTo(n), backEnd = "llvm",
         NEW a \in ValueFields(acc), NEW b \in ValueFields(src[k]), job.node[a][b] # Dead,
         NEW state, state = Select(acc, src[k], job.node[a][b])
  PROVE  state \in States /\ Agrees(state, Prefix[k]) /\ Prefix[k] # Dead
<1>1. /\ k = n + 1 /\ k \in 1 .. Len(src) /\ src[k] \in Items
      /\ acc.ok = Prefix[n].ok
      /\ ~acc.ok => Prefix[k] = Prefix[n]
      /\ acc.ok => acc = Prefix[n] /\ acc.value \in Values
      /\ acc.ok /\ ~src[k].ok => Prefix[k] = src[k]
      /\ acc.ok /\ src[k].ok =>
           Prefix[k] = job.node[acc.value][src[k].value] /\ src[k].value \in Values
  BY NextPrefix
<1>2. job.node \in Ops /\ DOMAIN src = 1 .. Len(src) /\ Len(src) \in Nat
      /\ Prefix \in [0 .. Len(src) -> States]
  BY FoldFacts
<1>3. acc \in States /\ Prefix[n] # Dead /\ Agrees(acc, Prefix[n])
  BY DEF FoldedTo
<1>4. src[k] \in States /\ src[k] # Dead /\ (src[k].ok => src[k].value \in Values)
  BY <1>1, StateFacts
<1>5. a \in Values /\ b \in Values
  BY <1>1, <1>4 DEF ValueFields
<1>6. job.node[a][b] \in States
  BY <1>2, <1>5 DEF Ops
<1>7. Prefix[k] \in States /\ Prefix[n] \in States
  <2>1. k \in 0 .. Len(src)
    BY <1>1, <1>2
  <2> QED
    BY <1>2, <2>1
<1>8. \A r \in States : r.ok \in BOOLEAN
  BY StateFacts
<1>9. CASE ~src[k].ok
  <2>1. state = src[k]
    BY <1>9 DEF Select
  <2>2. Prefix[k] = src[k] \/ (Prefix[k] = Prefix[n] /\ ~Prefix[n].ok)
    BY <1>1, <1>9
  <2>3. ~Prefix[k].ok /\ Prefix[k] # Dead
    BY <2>2, <1>3, <1>4, <1>9
  <2>4. src[k] \in {job.input.value[i] : i \in DOMAIN job.input.value}
    BY <1>1, <1>2
  <2>5. src[k].ok = Prefix[k].ok
    BY <1>4, <1>7, <1>8, <1>9, <2>3
  <2>6. Agrees(src[k], Prefix[k])
    BY <1>9, <2>4, <2>5 DEF Agrees
  <2> QED
    BY <1>4, <2>1, <2>3, <2>6
<1>10. CASE src[k].ok /\ ~acc.ok
  <2>1. state = acc /\ Prefix[k] = Prefix[n]
    BY <1>1, <1>10 DEF Select
  <2> QED
    BY <2>1, <1>3
<1>11. CASE src[k].ok /\ acc.ok
  <2>1. a = acc.value /\ b = src[k].value
    BY <1>11 DEF ValueFields
  <2>2. state = job.node[a][b] /\ Prefix[k] = job.node[a][b]
    BY <1>1, <1>11, <2>1 DEF Select
  <2>3. Agrees(state, Prefix[k])
    BY <2>2 DEF Agrees
  <2> QED
    BY <2>2, <2>3, <1>6
<1> QED
  BY <1>9, <1>10, <1>11

(* Where the next states of the loop are.                                  *)
LEMMA FoldedOn ==
  ASSUME FoldLoop, job.kind \in {"reduce", "scan"}, ~Faulted, pc = "loop",
         UNCHANGED <<backEnd, job, pc, src>>,
         NEW n \in 0 .. Len(src), n \in Nat, NEW k, k = n + 1,
         k \in 1 .. Len(src), Len(src) \in Nat,
         todo = n + 1 .. Len(src), todo' = todo \ {k},
         acc' \in States, Agrees(acc', Prefix[k]), Prefix[k] # Dead,
         backEnd = "llvm" /\ job.kind = "reduce" /\ job.node \in {MinOf, MaxOf}
           => acc'.ok,
         job.kind = "scan" => out' = Append(out, acc') /\ FoldedTo(n)
  PROVE  FoldLoop'
<1>1. src = job.input.value /\ Supports(backEnd, job)
  BY DEF FoldLoop
<1>2. todo' = k + 1 .. Len(src) /\ k \in 0 .. Len(src)
  OBVIOUS
<1>3. Prefix' = Prefix
  BY DEF Prefix
<1>4. Agrees(acc, Prefix[k])'
  BY <1>3 DEF Agrees
<1>5. ASSUME job.kind = "scan"
      PROVE  /\ out' \in Seq(States) /\ Len(out') = k
             /\ \A i \in 1 .. k : Agrees(out[i], Prefix[i])'
  <2>1. out \in Seq(States) /\ Len(out) = n /\ \A i \in 1 .. n : Agrees(out[i], Prefix[i])
    BY <1>5 DEF FoldedTo
  <2>2. out' = Append(out, acc')
    BY <1>5
  <2>3. /\ out' \in Seq(States) /\ Len(out') = k /\ out'[k] = acc'
        /\ \A i \in 1 .. n : out'[i] = out[i]
    BY <2>1, <2>2
  <2>4. ASSUME NEW i \in 1 .. k PROVE Agrees(out[i], Prefix[i])'
    <3>1. CASE i = k
      BY <3>1, <2>3, <1>3 DEF Agrees
    <3>2. CASE i # k
      <4>1. i \in 1 .. n
        BY <3>2
      <4> QED
        BY <4>1, <2>1, <2>3, <1>3 DEF Agrees
    <3> QED
      BY <3>1, <3>2
  <2> QED
    BY <2>3, <2>4
<1>6. FoldedTo(k)'
  BY <1>3, <1>4, <1>5 DEF FoldedTo
<1>7. Supports(backEnd, job)'
  BY <1>1
<1> QED
  BY <1>1, <1>2, <1>6, <1>7 DEF FoldLoop

(* A reduction of the LLVM back end.                                       *)
LEMMA LlvmReducesKeep ==
  ASSUME Accepted(job), job.kind = "reduce", ~Faulted, FoldLoop, pc = "loop",
         NEW k \in todo, LlvmReduceAdd(k) \/ LlvmReduceMinMax(k)
  PROVE  FoldLoop' /\ pc' = "loop"
<1>1. /\ src = job.input.value /\ Supports(backEnd, job) /\ backEnd = "llvm"
      /\ InOrder(k) /\ todo' = todo \ {k}
      /\ UNCHANGED <<backEnd, job, pc, src, out, faults>>
  BY DEF FoldLoop, LlvmReduceAdd, LlvmReduceMinMax, Visiting
<1>2. PICK n \in 0 .. Len(src) : todo = n + 1 .. Len(src) /\ FoldedTo(n)
  BY DEF FoldLoop
<1>3. \A m \in n + 1 .. Len(src) : k <= m
  BY <1>1, <1>2 DEF InOrder
<1>4. /\ k = n + 1 /\ k \in 1 .. Len(src) /\ src[k] \in Items
      /\ acc.ok => acc = Prefix[n] /\ acc.value \in Values
      /\ acc.ok /\ src[k].ok =>
           Prefix[k] = job.node[acc.value][src[k].value] /\ src[k].value \in Values
  BY <1>1, <1>2, <1>3, NextPrefix
<1>5. /\ job.node \in {AddInt, AddFloat, MinOf, MaxOf} /\ job.node \in Ops
      /\ job.faultable \in BOOLEAN /\ AcceptedMap(job)
  BY DEF Accepted, AcceptedFold
<1>6. /\ \A a, b \in Values : job.node[a][b] # Dead /\ job.node[a][b] \in States
      /\ job.node \in {MinOf, MaxOf} => \A a, b \in Values : job.node[a][b].ok
  BY <1>5, ReduceOps DEF Ops
<1>7. job.node \in {MinOf, MaxOf} => acc.ok /\ src[k].ok
  <2> SUFFICES ASSUME job.node \in {MinOf, MaxOf} PROVE acc.ok /\ src[k].ok
    OBVIOUS
  <2>1. acc.ok
    BY <1>1, <1>2 DEF FoldedTo
  <2>2. ~job.faultable
    BY <1>1 DEF Supports
  <2>3. src \in Seq(Plain)
    BY <1>1, <1>5, <2>2, SequenceInput
  <2> QED
    BY <1>4, <2>1, <2>3, StateFacts
<1>8. acc' \in States /\ Agrees(acc', Prefix[k]) /\ Prefix[k] # Dead
      /\ (job.node \in {MinOf, MaxOf} => acc'.ok)
  <2>1. CASE LlvmReduceAdd(k)
    <3>1. PICK a \in ValueFields(acc), b \in ValueFields(src[k]) :
            acc' = Select(acc, src[k], job.node[a][b])
      BY <2>1 DEF LlvmReduceAdd
    <3>2. acc \in States
      BY <1>2 DEF FoldedTo
    <3>3. a \in Values /\ b \in Values
      BY <1>4, <3>2, StateFacts DEF ValueFields
    <3>4. job.node[a][b] # Dead
      BY <1>6, <3>3
    <3>5. acc' \in States /\ Agrees(acc', Prefix[k]) /\ Prefix[k] # Dead
      BY <1>1, <1>2, <1>3, <3>1, <3>4, SelectAgrees
    <3>6. job.node \in {MinOf, MaxOf} => acc'.ok
      BY <1>6, <1>7, <3>1, <3>3 DEF Select
    <3> QED
      BY <3>5, <3>6
  <2>2. CASE LlvmReduceMinMax(k)
    <3>1. job.node \in {MinOf, MaxOf} /\ acc' = job.node[acc.value][src[k].value]
      BY <2>2 DEF LlvmReduceMinMax
    <3>2. acc' = Prefix[k] /\ acc' # Dead /\ acc' \in States /\ acc'.ok
      BY <1>4, <1>6, <1>7, <3>1
    <3> QED
      BY <3>2 DEF Agrees
  <2> QED
    BY <2>1, <2>2
<1>9. FoldLoop'
  <2>1. n \in Nat /\ Len(src) \in Nat
    BY <1>1, FoldFacts
  <2> QED
    BY <1>1, <1>2, <1>4, <1>8, <2>1, FoldedOn
<1> QED
  BY <1>1, <1>9

(* One item of a scan, on every back end.                                  *)
LEMMA ScansKeep ==
  ASSUME Accepted(job), job.kind = "scan", ~Faulted, FoldLoop, pc = "loop",
         NEW k \in todo, CScan(k) \/ LlvmScan(k) \/ TsScan(k)
  PROVE  /\ FoldLoop' /\ UNCHANGED <<job, backEnd>>
         /\ \/ pc' = "loop"
            \/ /\ pc' = "aborted"
               /\ backEnd = "llvm" \/ Prefix[Len(src)] = Dead
<1>1. src = job.input.value /\ Supports(backEnd, job)
  BY DEF FoldLoop
<1>2. PICK n \in 0 .. Len(src) : todo = n + 1 .. Len(src) /\ FoldedTo(n)
  BY DEF FoldLoop
<1>3. InOrder(k)
  BY DEF CScan, LlvmScan, TsScan
<1>4. \A m \in n + 1 .. Len(src) : k <= m
  BY <1>2, <1>3 DEF InOrder
<1>5. /\ k = n + 1 /\ k \in 1 .. Len(src) /\ src[k] \in Items
      /\ acc.ok = Prefix[n].ok
      /\ ~acc.ok => Prefix[k] = Prefix[n]
      /\ acc.ok => acc = Prefix[n] /\ acc.value \in Values
      /\ acc.ok /\ ~src[k].ok => Prefix[k] = src[k]
      /\ acc.ok /\ src[k].ok =>
           Prefix[k] = job.node[acc.value][src[k].value] /\ src[k].value \in Values
  BY <1>1, <1>2, <1>4, NextPrefix
<1>6. /\ Len(src) \in Nat /\ job.node \in Ops /\ n \in Nat
      /\ Prefix \in [0 .. Len(src) -> States] /\ Prefix[k] \in States
      /\ \A m \in 0 .. Len(src) : ~Prefix[m].ok => Prefix[Len(src)] = Prefix[m]
  <2>1. Len(src) \in Nat /\ Prefix \in [0 .. Len(src) -> States]
    BY <1>1, FoldFacts
  <2>2. k \in 0 .. Len(src)
    BY <1>5, <2>1
  <2> QED
    BY <1>1, <2>1, <2>2, FoldFacts
<1>7. CASE LlvmScan(k)
  <2>1. PICK a \in ValueFields(acc), b \in ValueFields(src[k]) :
          \/ job.node[a][b] = Dead /\ Abort
          \/ /\ job.node[a][b] # Dead /\ acc' = Select(acc, src[k], job.node[a][b])
             /\ out' = Append(out, acc') /\ todo' = todo \ {k}
             /\ UNCHANGED <<backEnd, job, pc, src, faults>>
    BY <1>7 DEF LlvmScan
  <2>2. backEnd = "llvm"
    BY <1>7 DEF LlvmScan, Visiting
  <2>3. CASE Abort
    BY <2>2, <2>3 DEF Abort, FoldLoop
  <2>4. CASE /\ job.node[a][b] # Dead /\ acc' = Select(acc, src[k], job.node[a][b])
             /\ out' = Append(out, acc') /\ todo' = todo \ {k}
             /\ UNCHANGED <<backEnd, job, pc, src, faults>>
    <3>1. acc' \in States /\ Agrees(acc', Prefix[k]) /\ Prefix[k] # Dead
      BY <1>1, <1>2, <1>4, <2>2, <2>4, SelectAgrees
    <3>2. FoldLoop'
      BY <1>2, <1>5, <1>6, <2>4, <3>1, FoldedOn
    <3> QED
      BY <2>4, <3>2
  <2> QED
    BY <2>1, <2>3, <2>4
<1>8. CASE ScanUntilFault(k) /\ backEnd # "llvm"
  <2>1. acc = Prefix[n]
    BY <1>2, <1>8 DEF FoldedTo, Agrees
  <2>2. (IF ~acc.ok THEN acc ELSE IF ~src[k].ok THEN src[k]
         ELSE job.node[acc.value][src[k].value]) = Prefix[k]
    BY <1>5, <2>1
  <2>3. \/ Prefix[k] = Dead /\ Abort
        \/ /\ Prefix[k] # Dead /\ acc' = Prefix[k] /\ out' = Append(out, acc')
           /\ todo' = todo \ {k} /\ UNCHANGED <<backEnd, job, pc, src, faults>>
    BY <1>8, <2>2 DEF ScanUntilFault
  <2>4. CASE Prefix[k] = Dead /\ Abort
    <3>1. ~Prefix[k].ok /\ k \in 0 .. Len(src)
      BY <1>5, <1>6, <2>4, StateFacts
    <3>2. Prefix[Len(src)] = Dead
      BY <1>6, <2>4, <3>1
    <3> QED
      BY <2>4, <3>2 DEF Abort, FoldLoop
  <2>5. CASE /\ Prefix[k] # Dead /\ acc' = Prefix[k] /\ out' = Append(out, acc')
             /\ todo' = todo \ {k} /\ UNCHANGED <<backEnd, job, pc, src, faults>>
    <3>1. acc' \in States /\ Agrees(acc', Prefix[k])
      BY <1>6, <2>5 DEF Agrees
    <3>2. FoldLoop'
      BY <1>2, <1>5, <1>6, <2>5, <3>1, FoldedOn
    <3> QED
      BY <2>5, <3>2
  <2> QED
    BY <2>3, <2>4, <2>5
<1> QED
  BY <1>7, <1>8 DEF CScan, TsScan, Visiting

(* The loops a fold runs through.                                          *)
LEMMA LoopsOfFolds ==
  ASSUME NEW k, Iterate(k)
  PROVE  /\ pc = "loop" /\ k \in todo
         /\ job.kind = "reduce" =>
              \/ InOrder(k) /\ FoldUntilFault(k) /\ backEnd # "llvm"
              \/ LlvmReduceAdd(k) \/ LlvmReduceMinMax(k)
         /\ job.kind = "scan" => CScan(k) \/ LlvmScan(k) \/ TsScan(k)
<1>1. CASE \/ CFilter(k) \/ LlvmFilter(k) \/ TsFilter(k) \/ TsDecide(k)
           \/ CFaultMap(k) \/ LlvmFaultMap(k) \/ TsFaultMap(k)
           \/ CMap(k) \/ LlvmMap(k) \/ TsMap(k)
  BY <1>1 DEF CFilter, LlvmFilter, TsFilter, TsDecide, CFaultMap, LlvmFaultMap,
              TsFaultMap, CMap, LlvmMap, TsMap, Visiting
<1>2. CASE \/ CRepeat(k) \/ LlvmRepeat(k) \/ TsRepeat(k)
           \/ CMatch(k) \/ LlvmMatch(k) \/ TsMatch(k)
  BY <1>2
     DEF CRepeat, LlvmRepeat, TsRepeat, CMatch, LlvmMatch, TsMatch, Visiting
<1>3. CASE CReduceAdd(k) \/ CReduceMinMax(k) \/ TsReduce(k)
  BY <1>3 DEF CReduceAdd, CReduceMinMax, TsReduce, Visiting
<1>4. CASE LlvmReduceAdd(k) \/ LlvmReduceMinMax(k)
  BY <1>4 DEF LlvmReduceAdd, LlvmReduceMinMax, Visiting
<1>5. CASE CScan(k) \/ LlvmScan(k) \/ TsScan(k)
  BY <1>5 DEF CScan, LlvmScan, TsScan, Visiting
<1> QED
  BY <1>1, <1>2, <1>3, <1>4, <1>5 DEF Iterate

(* What FoldsKeepMeaning says of the end of a fold.                        *)
FoldEnd ==
  LET N == Len(job.input.value) IN
  /\ pc = "aborted" => backEnd = "llvm" \/ Prefix[N] = Dead
  /\ pc = "done" =>
       /\ Prefix[N] # Dead
       /\ job.kind = "reduce" => Agrees(acc, Prefix[N])
       /\ job.kind = "scan" => /\ Len(out) = N
                               /\ \A k \in 1 .. N : Agrees(out[k], Prefix[k])

(* It is what FoldsKeepMeaning says.                                       *)
LEMMA FoldEnds ==
  (job.kind \in {"reduce", "scan"} /\ ~Faulted => FoldEnd) => FoldsKeepMeaning
BY DEF FoldsKeepMeaning, FoldEnd, Agrees, Prefix

(* The same of the next state.                                             *)
LEMMA FoldEndsNext ==
  (job'.kind \in {"reduce", "scan"} /\ ~Faulted' => FoldEnd') => FoldsKeepMeaning'
BY DEF FoldsKeepMeaning, FoldEnd, Agrees, Prefix, Faulted

(* The folds' part of the invariant is kept by every step.                 *)
LEMMA FoldSteps ==
  ASSUME Accepted(job), FoldLoop, FoldsKeepMeaning, [Next]_vars
  PROVE  FoldLoop' /\ FoldsKeepMeaning'
<1>0. job' = job /\ backEnd' = backEnd /\ Faulted' = Faulted
  BY JobFixed DEF Faulted
<1> SUFFICES ASSUME job.kind \in {"reduce", "scan"}, ~Faulted
             PROVE  FoldLoop' /\ FoldEnd'
  BY <1>0, FoldEndsNext DEF FoldLoop
<1>1. Prefix' = Prefix
  BY <1>0 DEF Prefix
<1>2. CASE Refuse
  BY <1>2 DEF Refuse, FoldLoop, FoldEnd
<1>3. CASE PassFaultOn \/ ReduceUnset
  BY <1>3 DEF PassFaultOn, ReduceUnset, Faulted
<1>5. CASE Enter
  <2>1. /\ pc' = "loop" /\ src' = job.input.value /\ acc' = Ok(job.start) /\ out' = <<>>
        /\ Supports(backEnd, job) /\ todo' = 1 .. Len(job.input.value)
    BY <1>5 DEF Enter, Positions
  <2>2. /\ Prefix[0] = Ok(job.start) /\ Len(job.input.value) \in Nat
        /\ job.start \in Values
    BY FoldFacts
  <2>3. acc' \in States /\ acc' # Dead /\ acc'.ok /\ acc' = Prefix[0]
    BY <2>1, <2>2, StateFacts
  <2>4. Agrees(acc, Prefix[0])'
    BY <2>3, <1>1 DEF Agrees
  <2>5. FoldedTo(0)'
    BY <1>0, <1>1, <2>1, <2>3, <2>4 DEF FoldedTo
  <2>6. todo' = 0 + 1 .. Len(src') /\ 0 \in 0 .. Len(src')
    BY <2>1, <2>2
  <2>7. Supports(backEnd, job)'
    BY <1>0, <2>1
  <2>8. FoldLoop'
    BY <1>0, <2>1, <2>5, <2>6, <2>7 DEF FoldLoop
  <2> QED
    BY <2>1, <2>8 DEF FoldEnd
<1>6. ASSUME NEW k \in todo, Iterate(k)
      PROVE  FoldLoop' /\ FoldEnd'
  <2>1. pc = "loop"
    BY <1>6, LoopsOfFolds
  <2>2. CASE job.kind = "reduce"
    <3>1. FoldLoop' /\ pc' = "loop"
      BY <1>6, <2>1, <2>2, LoopsOfFolds, FoldUntilFaultKeeps, LlvmReducesKeep
    <3> QED
      BY <3>1 DEF FoldEnd
  <2>3. CASE job.kind = "scan"
    <3>1. CScan(k) \/ LlvmScan(k) \/ TsScan(k)
      BY <1>6, <2>3, LoopsOfFolds
    <3>2. /\ FoldLoop'
          /\ \/ pc' = "loop"
             \/ /\ pc' = "aborted"
                /\ backEnd = "llvm" \/ Prefix[Len(src)] = Dead
      BY <2>1, <2>3, <3>1, ScansKeep
    <3>3. src = job.input.value
      BY <2>1 DEF FoldLoop
    <3> QED
      BY <1>0, <1>1, <3>2, <3>3 DEF FoldEnd
  <2> QED
    BY <2>2, <2>3
<1>7. CASE TsCompact
  BY <1>7 DEF TsCompact
<1>8. CASE Leave
  <2>1. pc = "loop" /\ todo = {} /\ pc' = "done" /\ out' = out /\ acc' = acc
    BY <1>8 DEF Leave, Faulted
  <2>2. src = job.input.value
    BY <2>1 DEF FoldLoop
  <2>3. PICK n \in 0 .. Len(src) : todo = n + 1 .. Len(src) /\ FoldedTo(n)
    BY <2>1 DEF FoldLoop
  <2>4. Len(src) \in Nat
    BY <2>2, FoldFacts
  <2>5. n = Len(src)
    <3>1. n # Len(src) => n + 1 \in n + 1 .. Len(src)
      BY <2>4
    <3> QED
      BY <3>1, <2>1, <2>3
  <2>6. FoldEnd'
    <3>1. Prefix[n] # Dead /\ Agrees(acc, Prefix[n])
      BY <2>3 DEF FoldedTo
    <3>2. Agrees(acc, Prefix[n])'
      BY <1>0, <1>1, <2>1, <3>1, <2>5 DEF Agrees
    <3>3. job.kind = "scan" => Len(out) = n /\ \A k \in 1 .. n : Agrees(out[k], Prefix[k])
      BY <2>3 DEF FoldedTo
    <3>4. job.kind = "scan" => \A k \in 1 .. n : Agrees(out[k], Prefix[k])'
      BY <1>0, <1>1, <2>1, <3>3 DEF Agrees
    <3> QED
      BY <1>0, <1>1, <2>1, <2>2, <2>5, <3>1, <3>2, <3>3, <3>4 DEF FoldEnd
  <2> QED
    BY <2>1, <2>6 DEF FoldLoop
<1>9. CASE UNCHANGED vars
  <2>1. FoldLoop'
    BY <1>9 DEF vars, FoldLoop, Faulted, FoldedTo, Agrees, Prefix
  <2>2. FoldEnd
    BY DEF FoldsKeepMeaning, FoldEnd, Agrees, Prefix
  <2>3. FoldEnd'
    BY <2>2, <1>9 DEF vars, FoldEnd, Agrees, Prefix
  <2> QED
    BY <2>1, <2>3
<1>10. QED
  BY <1>2, <1>3, <1>5, <1>6, <1>7, <1>8, <1>9 DEF Next

-----------------------------------------------------------------------------
(* Repetitions.                                                            *)

(* The rounds of a repetition.                                             *)
Rounds(node, x) ==
  LET state[n \in 0 .. MaxCount] ==
        IF n = 0 THEN x ELSE Call(node, state[n - 1])
  IN state

(* The rounds are a function and satisfy their recursion.                  *)
LEMMA RoundsUnfold ==
  ASSUME NEW node \in [Values -> Answers], NEW x \in Items
  PROVE  /\ Rounds(node, x) \in [0 .. MaxCount -> States]
         /\ Rounds(node, x)[0] = x
         /\ \A n \in 1 .. MaxCount :
              Rounds(node, x)[n] = Call(node, Rounds(node, x)[n - 1])
<1>0. MaxCount \in Nat
  BY BoundsAssumption
<1>s. \A r \in States : Call(node, r) \in States
  BY StateFacts DEF Call
<1> DEFINE step == [n \in 1 .. MaxCount |-> [r \in States |-> Call(node, r)]]
<1>1. PICK f \in [0 .. MaxCount -> States] :
        f[0] = x /\ \A n \in 1 .. MaxCount : f[n] = step[n][f[n - 1]]
  <2>1. x \in States
    BY StateFacts
  <2>3. step \in [1 .. MaxCount -> [States -> States]]
    BY <1>s
  <2> HIDE DEF step
  <2>4. \E f : Solution(MaxCount, States, x, step, f)
    BY <1>0, <2>1, <2>3, Recursion
  <2> QED
    BY <2>4 DEF Solution
<1>2. \A n \in 0 .. MaxCount : f[n] = IF n = 0 THEN x ELSE Call(node, f[n - 1])
  <2> SUFFICES ASSUME NEW n \in 0 .. MaxCount
               PROVE f[n] = IF n = 0 THEN x ELSE Call(node, f[n - 1])
    OBVIOUS
  <2>1. f[n] = IF n = 0 THEN x ELSE step[n][f[n - 1]]
    <3> HIDE DEF step
    <3> QED
      BY <1>0, <1>1
  <2>2. n # 0 => n \in 1 .. MaxCount /\ n - 1 \in 0 .. MaxCount
    BY <1>0
  <2>3. n # 0 => f[n - 1] \in States
    BY <2>2
  <2> QED
    BY <2>1, <2>2, <2>3
<1>3. f = [n \in 0 .. MaxCount |-> IF n = 0 THEN x ELSE Call(node, f[n - 1])]
  <2> HIDE DEF step
  <2> QED
    BY <1>2
<1>4. Rounds(node, x) = [n \in 0 .. MaxCount |->
        IF n = 0 THEN x ELSE Call(node, Rounds(node, x)[n - 1])]
  <2> HIDE DEF step
  <2> QED
    BY <1>3 DEF Rounds
<1> DEFINE F == Rounds(node, x)
<1>5. \A n \in 0 .. MaxCount : F[n] = IF n = 0 THEN x ELSE Call(node, F[n - 1])
  BY <1>4
<1> HIDE DEF F, step
<1>6. \A n \in 0 .. MaxCount : F[n] = f[n]
  <2> DEFINE S == {n \in 0 .. MaxCount : F[n] = f[n]}
  <2>1. 0 \in S
    BY <1>0, <1>2, <1>5
  <2>2. ASSUME NEW n \in 1 .. MaxCount, n - 1 \in S PROVE n \in S
    BY <1>0, <1>2, <1>5, <2>2
  <2> HIDE DEF S
  <2>3. Climbs(S, MaxCount)
    BY <2>1, <2>2 DEF Climbs
  <2>4. 0 .. MaxCount \subseteq S
    BY <1>0, <2>3, Climb
  <2> QED
    BY <2>4 DEF S
<1>7. F = f
  <2>2. F = [n \in 0 .. MaxCount |-> F[n]]
    BY <1>4 DEF F
  <2> QED
    BY <1>6, <2>2
<1>8. \A n \in 1 .. MaxCount : F[n] = Call(node, F[n - 1])
  BY <1>0, <1>5
<1>9. F[0] = x
  BY <1>0, <1>5
<1> QED
  BY <1>7, <1>8, <1>9 DEF F

(* A node that aborts leaves nothing to later rounds.                      *)
LEMMA DeadStays ==
  ASSUME NEW node \in [Values -> Answers], NEW x \in Items,
         NEW n \in 0 .. MaxCount, Rounds(node, x)[n] = Dead
  PROVE  \A m \in n .. MaxCount : Rounds(node, x)[m] = Dead
<1>1. PICK p : p = Rounds(node, x)
  OBVIOUS
<1>2. \A m \in 1 .. MaxCount : p[m] = Call(node, p[m - 1])
  BY <1>1, RoundsUnfold
<1>3. MaxCount \in Nat /\ ~Dead.ok
  BY BoundsAssumption, StateFacts
<1> DEFINE S == {m \in 0 .. MaxCount : m >= n => p[m] = Dead}
<1>4. 0 \in S
  BY <1>1, <1>3
<1>5. ASSUME NEW m \in 1 .. MaxCount, m - 1 \in S PROVE m \in S
  <2>1. CASE m - 1 >= n
    <3>1. p[m - 1] = Dead
      BY <1>5, <2>1
    <3>2. p[m] = Dead
      BY <1>2, <1>3, <3>1 DEF Call
    <3> QED
      BY <1>3, <3>2
  <2>2. CASE ~(m - 1 >= n)
    <3>1. m = n \/ ~(m >= n)
      BY <1>3, <2>2
    <3> QED
      BY <1>1, <1>3, <3>1
  <2> QED
    BY <2>1, <2>2
<1> HIDE DEF S
<1>6. Climbs(S, MaxCount)
  BY <1>4, <1>5 DEF Climbs
<1>7. 0 .. MaxCount \subseteq S
  BY <1>3, <1>6, Climb
<1> QED
  BY <1>1, <1>3, <1>7 DEF S

(* n rounds have run.                                                      *)
RepeatedTo(n) ==
  /\ acc = Rounds(job.node, job.input)[n] /\ acc # Dead
  /\ n = 0 \/ n <= job.start

(* The loop of a repetition has run some of the rounds.                    *)
RepeatLoop ==
  job.kind = "repeat" /\ pc = "loop" =>
    \E n \in 0 .. MaxCount : todo = n + 1 .. job.start /\ RepeatedTo(n)

(* What it ends with.                                                      *)
RepeatEnd ==
  job.kind = "repeat" =>
    LET meaning == Repeated(job.node, job.input, job.start) IN
    /\ pc = "aborted" => meaning = Dead
    /\ pc = "done" => acc = meaning /\ acc # Dead

(* One round more, or the end of the process.                              *)
LEMMA RepeatIteration ==
  ASSUME Accepted(job), job.kind = "repeat", pc = "loop", RepeatLoop,
         NEW k \in todo, InOrder(k), Again(k)
  PROVE  RepeatLoop' /\ RepeatEnd'
<1>1. /\ job.node \in [Values -> Answers] /\ job.input \in Items
      /\ job.start \in Int /\ job.start <= MaxCount /\ MaxCount \in Nat
  BY BoundsAssumption DEF Accepted, AcceptedRepeat
<1>2. PICK n \in 0 .. MaxCount : todo = n + 1 .. job.start /\ RepeatedTo(n)
  BY DEF RepeatLoop
<1>3. k = n + 1 /\ k \in 1 .. MaxCount /\ k \in 0 .. MaxCount /\ k <= job.start
      /\ todo \ {k} = k + 1 .. job.start
  BY <1>1, <1>2 DEF InOrder
<1>4. PICK p : p = Rounds(job.node, job.input)
  OBVIOUS
<1>5. p[k] = Call(job.node, acc)
  <2>1. p[k] = Call(job.node, p[k - 1])
    BY <1>1, <1>3, <1>4, RoundsUnfold
  <2>2. k - 1 = n
    BY <1>1, <1>3
  <2> QED
    BY <1>2, <1>4, <2>1, <2>2 DEF RepeatedTo
<1>6. CASE Call(job.node, acc) = Dead
  <2>1. pc' = "aborted" /\ job' = job
    BY <1>6 DEF Again, Abort
  <2>2. p[job.start] = Dead
    BY <1>1, <1>3, <1>4, <1>5, <1>6, DeadStays
  <2>3. Repeated(job.node, job.input, job.start) = Dead
    BY <1>1, <1>3, <1>4, <2>2 DEF Repeated, Rounds
  <2> QED
    BY <2>1, <2>3 DEF RepeatLoop, RepeatEnd
<1>7. CASE Call(job.node, acc) # Dead
  <2>1. pc' = "loop" /\ job' = job /\ acc' = Call(job.node, acc) /\ todo' = todo \ {k}
    BY <1>7 DEF Again
  <2>2. RepeatedTo(k)'
    BY <1>3, <1>4, <1>5, <1>7, <2>1 DEF RepeatedTo
  <2> QED
    BY <1>3, <2>1, <2>2 DEF RepeatLoop, RepeatEnd
<1> QED
  BY <1>6, <1>7

(* The repetitions' part of the invariant is kept by every step.           *)
LEMMA RepeatSteps ==
  ASSUME Accepted(job), RepeatLoop, RepeatEnd, [Next]_vars
  PROVE  RepeatLoop' /\ RepeatEnd'
<1>0. job' = job /\ backEnd' = backEnd
  BY JobFixed
<1> SUFFICES ASSUME job.kind = "repeat"
             PROVE  RepeatLoop' /\ RepeatEnd'
  BY <1>0 DEF RepeatLoop, RepeatEnd
<1>1. /\ job.node \in [Values -> Answers] /\ job.input \in Items /\ job.wrapped = FALSE
      /\ job.start \in Int /\ job.start <= MaxCount /\ MaxCount \in Nat
  BY BoundsAssumption DEF Accepted, AcceptedRepeat
<1>2. CASE Refuse
  BY <1>2 DEF Refuse, RepeatLoop, RepeatEnd
<1>3. CASE PassFaultOn \/ ReduceUnset
  BY <1>1, <1>3 DEF PassFaultOn, ReduceUnset
<1>5. CASE Enter
  <2>1. /\ pc' = "loop" /\ acc' = job.input
        /\ todo' = 0 + 1 .. job.start /\ 0 \in 0 .. MaxCount
    BY <1>1, <1>5 DEF Enter, Positions
  <2>2. Rounds(job.node, job.input)[0] = job.input
    BY <1>1, RoundsUnfold
  <2>3. job.input # Dead
    BY <1>1, StateFacts
  <2>4. RepeatedTo(0)'
    BY <1>0, <2>1, <2>2, <2>3 DEF RepeatedTo
  <2> QED
    BY <1>0, <2>1, <2>4 DEF RepeatLoop, RepeatEnd
<1>6. ASSUME NEW k \in todo, Iterate(k)
      PROVE  RepeatLoop' /\ RepeatEnd'
  <2>1. pc = "loop" /\ (CRepeat(k) \/ LlvmRepeat(k) \/ TsRepeat(k))
    <3>1. CASE \/ CFilter(k) \/ LlvmFilter(k) \/ TsFilter(k) \/ TsDecide(k)
               \/ CFaultMap(k) \/ LlvmFaultMap(k) \/ TsFaultMap(k)
               \/ CMap(k) \/ LlvmMap(k) \/ TsMap(k)
      BY <3>1
         DEF CFilter, LlvmFilter, TsFilter, TsDecide, CFaultMap, LlvmFaultMap,
              TsFaultMap, CMap, LlvmMap, TsMap, Visiting
    <3>2. CASE \/ CReduceAdd(k) \/ CReduceMinMax(k) \/ TsReduce(k)
               \/ LlvmReduceAdd(k) \/ LlvmReduceMinMax(k)
               \/ CScan(k) \/ LlvmScan(k) \/ TsScan(k)
               \/ CMatch(k) \/ LlvmMatch(k) \/ TsMatch(k)
      BY <3>2
         DEF CReduceAdd, CReduceMinMax, TsReduce, LlvmReduceAdd,
             LlvmReduceMinMax,
              CScan, LlvmScan, TsScan, CMatch, LlvmMatch, TsMatch, Visiting
    <3>3. CASE CRepeat(k) \/ LlvmRepeat(k) \/ TsRepeat(k)
      BY <3>3 DEF CRepeat, LlvmRepeat, TsRepeat, Visiting
    <3> QED
      BY <1>6, <3>1, <3>2, <3>3 DEF Iterate
  <2>2. InOrder(k) /\ Again(k)
    BY <2>1 DEF CRepeat, LlvmRepeat, TsRepeat
  <2> QED
    BY <2>1, <2>2, RepeatIteration
<1>7. CASE TsCompact
  BY <1>7 DEF TsCompact
<1>8. CASE Leave
  <2>1. pc = "loop" /\ todo = {} /\ pc' = "done" /\ acc' = acc
    BY <1>1, <1>8 DEF Leave
  <2>2. PICK n \in 0 .. MaxCount : todo = n + 1 .. job.start /\ RepeatedTo(n)
    BY <2>1 DEF RepeatLoop
  <2>3. n >= job.start
    <3>1. ~(n >= job.start) => n + 1 \in n + 1 .. job.start
      BY <1>1
    <3> QED
      BY <3>1, <2>1, <2>2
  <2>4. acc = Repeated(job.node, job.input, job.start)
    <3>1. CASE n = 0
      <4>1. acc = job.input
        BY <1>1, <2>2, <3>1, RoundsUnfold DEF RepeatedTo
      <4> QED
        BY <1>1, <2>3, <3>1, <4>1 DEF Repeated
    <3>2. CASE n # 0
      <4>1. n = job.start /\ ~(job.start <= 0)
        BY <1>1, <2>2, <2>3, <3>2 DEF RepeatedTo
      <4> QED
        BY <2>2, <4>1 DEF Repeated, Rounds, RepeatedTo
    <3> QED
      BY <3>1, <3>2
  <2>5. acc # Dead
    BY <2>2 DEF RepeatedTo
  <2> QED
    BY <1>0, <2>1, <2>4, <2>5 DEF RepeatLoop, RepeatEnd
<1>9. CASE UNCHANGED vars
  BY <1>9 DEF vars, RepeatLoop, RepeatEnd, RepeatedTo
<1>10. QED
  BY <1>2, <1>3, <1>5, <1>6, <1>7, <1>8, <1>9 DEF Next

-----------------------------------------------------------------------------
(* Filters.                                                                *)

(* One more item is selected, from a position after the others.            *)
LEMMA SelectedGrows ==
  ASSUME NEW T, NEW ys \in Seq(T), NEW xs, NEW kept \in SUBSET Nat, NEW k \in Nat,
         Selected(ys, xs, kept), \A m \in kept : m < k, NEW v \in T, v = xs[k]
  PROVE  Selected(Append(ys, v), xs, kept \cup {k}) /\ Append(ys, v) \in Seq(T)
<1>1. PICK at \in [DOMAIN ys -> kept] :
        /\ \A i, j \in DOMAIN ys : i < j => at[i] < at[j]
        /\ \A m \in kept : \E i \in DOMAIN ys : at[i] = m
        /\ \A i \in DOMAIN ys : ys[i] = xs[at[i]]
  BY DEF Selected
<1>2. PICK n \in Nat : n = Len(ys)
  OBVIOUS
<1>3. DOMAIN ys = 1 .. n
  BY <1>2
<1>4. PICK zs : zs = Append(ys, v)
  OBVIOUS
<1>5. /\ zs \in Seq(T) /\ Len(zs) = n + 1 /\ DOMAIN zs = 1 .. n + 1 /\ zs[n + 1] = v
      /\ \A i \in 1 .. n : zs[i] = ys[i]
  BY <1>2, <1>4
<1>6. PICK to : to = [i \in 1 .. n + 1 |-> IF i = n + 1 THEN k ELSE at[i]]
  OBVIOUS
<1>7. to[n + 1] = k /\ \A i \in 1 .. n : to[i] = at[i] /\ at[i] \in kept
  <2>1. \A i \in 1 .. n : i \in 1 .. n + 1 /\ i # n + 1 /\ n + 1 \in 1 .. n + 1
    OBVIOUS
  <2>2. n + 1 \in 1 .. n + 1
    OBVIOUS
  <2> QED
    BY <1>1, <1>3, <1>6, <2>1, <2>2
<1>8. to \in [DOMAIN zs -> kept \cup {k}]
  <2>1. \A i \in 1 .. n + 1 : i = n + 1 \/ i \in 1 .. n
    OBVIOUS
  <2>2. \A i \in 1 .. n + 1 : to[i] \in kept \cup {k}
    BY <1>7, <2>1
  <2> QED
    BY <1>5, <1>6, <2>2
<1>9. ASSUME NEW i \in 1 .. n + 1, NEW j \in 1 .. n + 1, i < j PROVE to[i] < to[j]
  <2>1. i \in 1 .. n
    BY <1>9
  <2>2. CASE j = n + 1
    BY <1>7, <2>1, <2>2
  <2>3. CASE j # n + 1
    <3>1. j \in 1 .. n
      BY <2>3
    <3>2. at[i] < at[j]
      BY <1>1, <1>3, <1>9, <2>1, <3>1
    <3> QED
      BY <1>7, <2>1, <3>1, <3>2
  <2> QED
    BY <2>2, <2>3
<1>10. ASSUME NEW m \in kept \cup {k} PROVE \E i \in 1 .. n + 1 : to[i] = m
  <2>1. CASE m = k
    <3>1. n + 1 \in 1 .. n + 1
      OBVIOUS
    <3> QED
      BY <1>7, <2>1, <3>1
  <2>2. CASE m # k
    <3>1. PICK i \in 1 .. n : at[i] = m
      BY <1>1, <1>3, <1>10, <2>2
    <3>2. i \in 1 .. n + 1
      OBVIOUS
    <3> QED
      BY <1>7, <3>1, <3>2
  <2> QED
    BY <2>1, <2>2
<1>11. ASSUME NEW i \in 1 .. n + 1 PROVE zs[i] = xs[to[i]]
  <2>1. CASE i = n + 1
    BY <1>5, <1>7, <2>1
  <2>2. CASE i # n + 1
    <3>1. i \in 1 .. n
      BY <2>2
    <3> QED
      BY <1>1, <1>3, <1>5, <1>7, <3>1
  <2> QED
    BY <2>1, <2>2
<1>12. Selected(zs, xs, kept \cup {k})
  <2>1. \A i, j \in DOMAIN zs : i < j => to[i] < to[j]
    BY <1>5, <1>9
  <2>2. \A m \in kept \cup {k} : \E i \in DOMAIN zs : to[i] = m
    BY <1>5, <1>10
  <2>3. \A i \in DOMAIN zs : zs[i] = xs[to[i]]
    BY <1>5, <1>11
  <2>4. DOMAIN zs = 1 .. Len(zs)
    BY <1>5
  <2> QED
    BY <1>8, <2>1, <2>2, <2>3, <2>4 DEF Selected
<1> QED
  BY <1>4, <1>5, <1>12

(* Nothing is selected at first.                                           *)
LEMMA SelectedNone ==
  ASSUME NEW T, NEW xs PROVE Selected(<<>>, xs, {}) /\ <<>> \in Seq(T)
<1>1. DOMAIN <<>> = {} /\ 1 .. Len(<<>>) = {}
  OBVIOUS
<1>2. PICK at : at = [i \in {} |-> i]
  OBVIOUS
<1>3. at \in [DOMAIN <<>> -> {}]
  BY <1>1, <1>2
<1>4. PICK es : es = <<>>
  OBVIOUS
<1>5. /\ DOMAIN es = {} /\ DOMAIN es = 1 .. Len(es)
      /\ at \in [DOMAIN es -> {}] /\ es \in Seq(T)
  BY <1>1, <1>3, <1>4
<1>6. Selected(es, xs, {})
  BY <1>5 DEF Selected
<1> QED
  BY <1>4, <1>5, <1>6

-----------------------------------------------------------------------------
(* The items TsCompact keeps.                                              *)
Compacted(xs, decisions) ==
  LET kept[n \in 0 .. Len(xs)] ==
        IF n = 0 THEN <<>>
        ELSE IF decisions[n] = Yes THEN Append(kept[n - 1], xs[n]) ELSE kept[n - 1]
  IN kept

(* One step of that selection.                                             *)
Kept(decision, x, ys) == IF decision = Yes THEN Append(ys, x) ELSE ys

(* They are a function and satisfy their recursion.                        *)
LEMMA CompactedUnfolds ==
  ASSUME NEW T, NEW xs \in Seq(T), NEW decisions
  PROVE  /\ Compacted(xs, decisions) \in [0 .. Len(xs) -> Seq(T)]
         /\ Compacted(xs, decisions)[0] = <<>>
         /\ \A n \in 1 .. Len(xs) :
              Compacted(xs, decisions)[n] =
                Kept(decisions[n], xs[n], Compacted(xs, decisions)[n - 1])
<1>0. PICK N \in Nat : N = Len(xs)
  OBVIOUS
<1>s. \A n \in 1 .. N : \A ys \in Seq(T) : Kept(decisions[n], xs[n], ys) \in Seq(T)
  <2>1. \A n \in 1 .. N : xs[n] \in T
    BY <1>0
  <2> QED
    BY <2>1 DEF Kept
<1> DEFINE step == [n \in 1 .. N |-> [ys \in Seq(T) |-> Kept(decisions[n], xs[n], ys)]]
<1>1. PICK f \in [0 .. N -> Seq(T)] :
        f[0] = <<>> /\ \A n \in 1 .. N : f[n] = step[n][f[n - 1]]
  <2>1. <<>> \in Seq(T)
    OBVIOUS
  <2>3. step \in [1 .. N -> [Seq(T) -> Seq(T)]]
    BY <1>s
  <2> HIDE DEF step
  <2>4. \E f : Solution(N, Seq(T), <<>>, step, f)
    BY <1>0, <2>1, <2>3, Recursion
  <2> QED
    BY <2>4 DEF Solution
<1>2. \A n \in 0 .. N : f[n] = IF n = 0 THEN <<>> ELSE Kept(decisions[n], xs[n], f[n - 1])
  <2> SUFFICES ASSUME NEW n \in 0 .. N
               PROVE f[n] = IF n = 0 THEN <<>> ELSE Kept(decisions[n], xs[n], f[n - 1])
    OBVIOUS
  <2>1. f[n] = IF n = 0 THEN <<>> ELSE step[n][f[n - 1]]
    <3> HIDE DEF step
    <3> QED
      BY <1>0, <1>1
  <2>2. n # 0 => n \in 1 .. N /\ n - 1 \in 0 .. N
    BY <1>0
  <2>3. n # 0 => f[n - 1] \in Seq(T)
    BY <2>2
  <2> QED
    BY <2>1, <2>2, <2>3
<1>3. f = [n \in 0 .. N |-> IF n = 0 THEN <<>> ELSE Kept(decisions[n], xs[n], f[n - 1])]
  <2> HIDE DEF step
  <2> QED
    BY <1>2
<1>4. Compacted(xs, decisions) = [n \in 0 .. N |->
        IF n = 0 THEN <<>>
        ELSE Kept(decisions[n], xs[n], Compacted(xs, decisions)[n - 1])]
  <2> HIDE DEF step
  <2> QED
    BY <1>0, <1>3 DEF Compacted, Kept
<1> DEFINE F == Compacted(xs, decisions)
<1>5. \A n \in 0 .. N : F[n] = IF n = 0 THEN <<>> ELSE Kept(decisions[n], xs[n], F[n - 1])
  BY <1>4
<1> HIDE DEF F, step
<1>6. \A n \in 0 .. N : F[n] = f[n]
  <2> DEFINE S == {n \in 0 .. N : F[n] = f[n]}
  <2>1. 0 \in S
    BY <1>0, <1>2, <1>5
  <2>2. ASSUME NEW n \in 1 .. N, n - 1 \in S PROVE n \in S
    BY <1>0, <1>2, <1>5, <2>2
  <2> HIDE DEF S
  <2>3. Climbs(S, N)
    BY <2>1, <2>2 DEF Climbs
  <2>4. 0 .. N \subseteq S
    BY <1>0, <2>3, Climb
  <2> QED
    BY <2>4 DEF S
<1>7. F = f
  <2>2. F = [n \in 0 .. N |-> F[n]]
    BY <1>4 DEF F
  <2> QED
    BY <1>6, <2>2
<1>8. \A n \in 1 .. N : F[n] = Kept(decisions[n], xs[n], F[n - 1])
  BY <1>0, <1>5
<1>9. F[0] = <<>>
  BY <1>0, <1>5
<1> QED
  BY <1>0, <1>7, <1>8, <1>9 DEF F

(* They are the items decided for, in input order.                         *)
LEMMA CompactedSelects ==
  ASSUME NEW T, NEW xs \in Seq(T), NEW decisions
  PROVE  Selected(Compacted(xs, decisions)[Len(xs)], xs,
                  {k \in 1 .. Len(xs) : decisions[k] = Yes})
<1>1. PICK N \in Nat : N = Len(xs)
  OBVIOUS
<1>2. PICK F : F = Compacted(xs, decisions)
  OBVIOUS
<1>3. /\ F \in [0 .. N -> Seq(T)] /\ F[0] = <<>>
      /\ \A n \in 1 .. N : F[n] = Kept(decisions[n], xs[n], F[n - 1])
  BY <1>1, <1>2, CompactedUnfolds
<1> DEFINE K(n) == {k \in 1 .. n : decisions[k] = Yes}
           S == {n \in 0 .. N : Selected(F[n], xs, K(n))}
<1>4. 0 \in S
  <2>1. K(0) = {}
    OBVIOUS
  <2> QED
    BY <1>3, <2>1, SelectedNone
<1>5. ASSUME NEW n \in 1 .. N, n - 1 \in S PROVE n \in S
  <2>1. Selected(F[n - 1], xs, K(n - 1)) /\ F[n - 1] \in Seq(T)
    <3>1. n - 1 \in 0 .. N
      OBVIOUS
    <3> QED
      BY <1>3, <1>5, <3>1
  <2>2. n \in Nat /\ xs[n] \in T /\ n \in 0 .. N
    BY <1>1
  <2>3. CASE decisions[n] = Yes
    <3>1. K(n) = K(n - 1) \cup {n}
      BY <2>3
    <3>2. F[n] = Append(F[n - 1], xs[n])
      BY <1>3, <2>3 DEF Kept
    <3>3. K(n - 1) \in SUBSET Nat /\ \A m \in K(n - 1) : m < n
      BY <2>2
    <3> HIDE DEF K
    <3>4. PICK ys \in Seq(T) : ys = F[n - 1]
      BY <2>1
    <3>5. PICK ks \in SUBSET Nat : ks = K(n - 1)
      BY <3>3
    <3>6. Selected(ys, xs, ks) /\ \A m \in ks : m < n
      BY <2>1, <3>3, <3>4, <3>5
    <3>7. Selected(Append(ys, xs[n]), xs, ks \cup {n})
      BY <2>2, <3>6, SelectedGrows
    <3>8. Selected(F[n], xs, K(n))
      BY <3>1, <3>2, <3>4, <3>5, <3>7
    <3> QED
      BY <2>2, <3>8
  <2>4. CASE decisions[n] # Yes
    <3>1. K(n) = K(n - 1)
      BY <2>4
    <3>2. F[n] = F[n - 1]
      BY <1>3, <2>4 DEF Kept
    <3> QED
      BY <2>1, <2>2, <3>1, <3>2
  <2> QED
    BY <2>3, <2>4
<1>6. Selected(F[N], xs, K(N))
  <2> HIDE DEF S
  <2>1. Climbs(S, N)
    BY <1>4, <1>5 DEF Climbs
  <2>2. N \in S
    BY <1>1, <2>1, Climb
  <2> QED
    BY <2>2 DEF S
<1> QED
  BY <1>1, <1>2, <1>6

(* The loops a filter or a fault map runs through.                         *)
LEMMA LoopsOfSelections ==
  ASSUME NEW k, Iterate(k)
  PROVE  /\ pc = "loop" /\ k \in todo
         /\ job.kind = "filter" =>
              CFilter(k) \/ LlvmFilter(k) \/ TsFilter(k) \/ TsDecide(k)
         /\ job.kind = "fault_map" =>
              CFaultMap(k) \/ LlvmFaultMap(k) \/ TsFaultMap(k)
<1>1. CASE \/ CReduceAdd(k) \/ CReduceMinMax(k) \/ TsReduce(k)
           \/ LlvmReduceAdd(k) \/ LlvmReduceMinMax(k)
           \/ CScan(k) \/ LlvmScan(k) \/ TsScan(k)
  BY <1>1
     DEF CReduceAdd, CReduceMinMax, TsReduce, LlvmReduceAdd, LlvmReduceMinMax,
              CScan, LlvmScan, TsScan, Visiting
<1>2. CASE \/ CRepeat(k) \/ LlvmRepeat(k) \/ TsRepeat(k)
           \/ CMatch(k) \/ LlvmMatch(k) \/ TsMatch(k)
           \/ CMap(k) \/ LlvmMap(k) \/ TsMap(k)
  BY <1>2 DEF CRepeat, LlvmRepeat, TsRepeat, CMatch, LlvmMatch, TsMatch, CMap,
              LlvmMap, TsMap, Visiting
<1>3. CASE CFilter(k) \/ LlvmFilter(k) \/ TsFilter(k) \/ TsDecide(k)
  BY <1>3 DEF CFilter, LlvmFilter, TsFilter, TsDecide, Visiting
<1>4. CASE CFaultMap(k) \/ LlvmFaultMap(k) \/ TsFaultMap(k)
  BY <1>4 DEF CFaultMap, LlvmFaultMap, TsFaultMap, Visiting
<1> QED
  BY <1>1, <1>2, <1>3, <1>4 DEF Iterate

(* Of the first n positions, those whose item the predicate holds of.      *)
Holds(n) == {k \in 1 .. n : Call(job.node, job.input.value[k]) = Yes}

(* The TypeScript back end with an async predicate.                        *)
Deciding == backEnd = "ts" /\ job.concurrent

(* A sequential filter has kept what holds of the first n items.           *)
FilteredTo(n) == out \in Seq(Items) /\ Selected(out, job.input.value, Holds(n))

(* The loop of a filter: with an async predicate the visited positions     *)
(* hold their decisions, otherwise the output holds the kept items.        *)
FilterLoop ==
  job.kind = "filter" /\ pc = "loop" =>
    /\ ~Faulted /\ src = job.input.value
    /\ todo \subseteq 1 .. Len(src)
    /\ \A k \in (1 .. Len(src)) \ todo : Call(job.node, src[k]) # Dead
    /\ Deciding => \A k \in (1 .. Len(src)) \ todo : out[k] = Call(job.node, src[k])
    /\ Deciding => DOMAIN out = (1 .. Len(src)) \ todo
    /\ ~Deciding =>
         \E n \in 0 .. Len(src) : todo = n + 1 .. Len(src) /\ FilteredTo(n)

(* What it ends with.                                                      *)
FilterEnd ==
  job.kind = "filter" =>
    /\ pc = "done" /\ Faulted => acc = job.input
    /\ pc = "aborted" /\ ~Faulted =>
         \E k \in 1 .. Len(job.input.value) : Call(job.node, job.input.value[k]) = Dead
    /\ pc = "done" /\ ~Faulted =>
         /\ \A k \in 1 .. Len(job.input.value) : Call(job.node, job.input.value[k]) # Dead
         /\ Selected(out, job.input.value, Holds(Len(job.input.value)))

(* The input of an accepted filter.                                        *)
LEMMA FilterFacts ==
  ASSUME Accepted(job), job.kind = "filter", ~Faulted
  PROVE  /\ job.input.value \in Seq(Items) /\ Len(job.input.value) \in Nat
         /\ DOMAIN job.input.value = 1 .. Len(job.input.value)
         /\ job.node \in [Values -> Decisions]
BY SequenceInput DEF Accepted, AcceptedFilter

(* A sequential filter keeps one item or passes it over.                   *)
LEMMA KeepItemKeeps ==
  ASSUME Accepted(job), job.kind = "filter", FilterLoop, pc = "loop",
         NEW k \in todo, InOrder(k), KeepItem(k), ~Deciding
  PROVE  FilterLoop' /\ FilterEnd'
<1>1. /\ ~Faulted /\ src = job.input.value /\ todo \subseteq 1 .. Len(src)
      /\ \A m \in (1 .. Len(src)) \ todo : Call(job.node, src[m]) # Dead
  BY DEF FilterLoop
<1>2. PICK n \in 0 .. Len(src) : todo = n + 1 .. Len(src) /\ FilteredTo(n)
  BY DEF FilterLoop
<1>3. src \in Seq(Items) /\ Len(src) \in Nat
  BY <1>1, FilterFacts
<1>4. k = n + 1 /\ k \in 1 .. Len(src) /\ k \in Nat /\ n \in Nat /\ src[k] \in Items
  BY <1>2, <1>3 DEF InOrder
<1>5. UNCHANGED <<backEnd, job, src, acc>> /\ Faulted' = Faulted /\ Deciding' = Deciding
  BY DEF KeepItem, Abort, Faulted, Deciding
<1>6. \A m : Holds(m)' = Holds(m)
  BY <1>5 DEF Holds
<1>7. CASE Call(job.node, src[k]) = Dead
  <2>1. pc' = "aborted"
    BY <1>7 DEF KeepItem, Abort
  <2> QED
    BY <1>1, <1>4, <1>5, <1>7, <2>1 DEF FilterLoop, FilterEnd
<1>8. CASE Call(job.node, src[k]) # Dead
  <2>1. /\ pc' = "loop" /\ todo' = todo \ {k}
        /\ out' = IF Call(job.node, src[k]) = Yes THEN Append(out, src[k]) ELSE out
    BY <1>8 DEF KeepItem
  <2>2. todo' = k + 1 .. Len(src) /\ k \in 0 .. Len(src)
    BY <1>2, <1>3, <1>4, <2>1
  <2>3. out' \in Seq(Items) /\ Selected(out', src, Holds(k))
    <3>1. out \in Seq(Items) /\ Selected(out, src, Holds(n))
      BY <1>1, <1>2 DEF FilteredTo
    <3>2. CASE Call(job.node, src[k]) = Yes
      <4>1. Holds(k) = Holds(n) \cup {k}
        BY <1>1, <1>4, <3>2 DEF Holds
      <4>2. Holds(n) \in SUBSET Nat /\ \A m \in Holds(n) : m < k
        BY <1>4 DEF Holds
      <4>3. PICK ys \in Seq(Items) : ys = out
        BY <3>1
      <4>4. PICK ks \in SUBSET Nat : ks = Holds(n)
        BY <4>2
      <4>5. Selected(ys, src, ks) /\ \A m \in ks : m < k
        BY <3>1, <4>2, <4>3, <4>4
      <4>6. Selected(Append(ys, src[k]), src, ks \cup {k})
        BY <1>4, <4>5, SelectedGrows
      <4>7. Append(ys, src[k]) \in Seq(Items)
        BY <1>4
      <4>8. out' = Append(ys, src[k])
        BY <2>1, <3>2, <4>3
      <4>9. Holds(k) = ks \cup {k}
        BY <4>1, <4>4
      <4> QED
        BY <4>6, <4>7, <4>8, <4>9
    <3>3. CASE Call(job.node, src[k]) # Yes
      <4>1. Holds(k) = Holds(n)
        BY <1>1, <1>4, <3>3 DEF Holds
      <4> QED
        BY <2>1, <3>1, <3>3, <4>1
    <3> QED
      BY <3>2, <3>3
  <2>4. FilteredTo(k)'
    BY <1>1, <1>5, <1>6, <2>3 DEF FilteredTo
  <2>5. \A m \in (1 .. Len(src)) \ todo' : Call(job.node, src[m]) # Dead
    BY <1>1, <1>8, <2>1
  <2>6. todo' \subseteq 1 .. Len(src)
    BY <1>1, <2>1
  <2>7. FilterLoop'
    BY <1>1, <1>5, <2>1, <2>2, <2>4, <2>5, <2>6 DEF FilterLoop
  <2> QED
    BY <2>1, <2>7 DEF FilterEnd
<1> QED
  BY <1>7, <1>8

(* An async predicate decides one item, in any order.                      *)
LEMMA DecideKeeps ==
  ASSUME Accepted(job), job.kind = "filter", FilterLoop, pc = "loop",
         NEW k \in todo, TsDecide(k)
  PROVE  FilterLoop' /\ FilterEnd'
<1>0. Deciding
  BY DEF TsDecide, Visiting, Deciding
<1>1. /\ ~Faulted /\ src = job.input.value /\ todo \subseteq 1 .. Len(src)
      /\ \A m \in (1 .. Len(src)) \ todo : Call(job.node, src[m]) # Dead
      /\ \A m \in (1 .. Len(src)) \ todo : out[m] = Call(job.node, src[m])
      /\ DOMAIN out = (1 .. Len(src)) \ todo
  BY <1>0 DEF FilterLoop
<1>5. UNCHANGED <<backEnd, job, src, acc>> /\ Faulted' = Faulted /\ Deciding' = Deciding
  BY DEF TsDecide, Abort, Faulted, Deciding
<1>7. CASE Call(job.node, src[k]) = Dead
  <2>1. pc' = "aborted"
    BY <1>7 DEF TsDecide, Abort
  <2>2. k \in 1 .. Len(src)
    BY <1>1
  <2> QED
    BY <1>1, <1>5, <1>7, <2>1, <2>2 DEF FilterLoop, FilterEnd
<1>8. CASE Call(job.node, src[k]) # Dead
  <2>1. /\ pc' = "loop" /\ todo' = todo \ {k}
        /\ out' = [m \in DOMAIN out \cup {k} |->
                     IF m = k THEN Call(job.node, src[k]) ELSE out[m]]
    BY <1>8 DEF TsDecide, Visiting
  <2>2. DOMAIN out' = (1 .. Len(src)) \ todo'
    BY <1>1, <2>1
  <2>3. \A m \in (1 .. Len(src)) \ todo' :
          out'[m] = Call(job.node, src[m]) /\ Call(job.node, src[m]) # Dead
    BY <1>1, <1>8, <2>1
  <2>4. FilterLoop'
    BY <1>0, <1>1, <1>5, <2>1, <2>2, <2>3 DEF FilterLoop
  <2> QED
    BY <2>1, <2>4 DEF FilterEnd
<1> QED
  BY <1>7, <1>8

(* The filters' part of the invariant is kept by every step.               *)
LEMMA FilterSteps ==
  ASSUME Accepted(job), FilterLoop, FilterEnd, [Next]_vars
  PROVE  FilterLoop' /\ FilterEnd'
<1>0. job' = job /\ backEnd' = backEnd /\ Faulted' = Faulted /\ Deciding' = Deciding
  BY JobFixed DEF Faulted, Deciding
<1> SUFFICES ASSUME job.kind = "filter"
             PROVE  FilterLoop' /\ FilterEnd'
  BY <1>0 DEF FilterLoop, FilterEnd
<1>1. \A m : Holds(m)' = Holds(m)
  BY <1>0 DEF Holds
<1>2. CASE Refuse
  BY <1>2 DEF Refuse, FilterLoop, FilterEnd
<1>3. CASE PassFaultOn
  BY <1>0, <1>3 DEF PassFaultOn, FilterLoop, FilterEnd, Faulted
<1>4. CASE ReduceUnset
  BY <1>4 DEF ReduceUnset
<1>5. CASE Enter
  <2>1. /\ pc' = "loop" /\ src' = job.input.value /\ out' = <<>>
        /\ todo' = 1 .. Len(src') /\ ~Faulted
    BY <1>5 DEF Enter, Positions, Faulted
  <2>2. Len(src') \in Nat
    BY <2>1, FilterFacts
  <2>3. todo' = 0 + 1 .. Len(src') /\ 0 \in 0 .. Len(src')
    BY <2>1, <2>2
  <2>4. Holds(0) = {}
    BY DEF Holds
  <2>5. FilteredTo(0)'
    BY <1>0, <1>1, <2>1, <2>4, SelectedNone DEF FilteredTo
  <2>6. DOMAIN out' = (1 .. Len(src')) \ todo'
    BY <2>1
  <2>7. FilterLoop'
    BY <1>0, <2>1, <2>3, <2>5, <2>6 DEF FilterLoop
  <2> QED
    BY <2>1, <2>7 DEF FilterEnd
<1>6. ASSUME NEW k \in todo, Iterate(k)
      PROVE  FilterLoop' /\ FilterEnd'
  <2>1. pc = "loop" /\ (CFilter(k) \/ LlvmFilter(k) \/ TsFilter(k) \/ TsDecide(k))
    BY <1>6, LoopsOfSelections
  <2>2. CASE TsDecide(k)
    BY <2>1, <2>2, DecideKeeps
  <2>3. CASE CFilter(k) \/ LlvmFilter(k) \/ TsFilter(k)
    <3>1. InOrder(k) /\ KeepItem(k) /\ ~Deciding
      BY <2>3 DEF CFilter, LlvmFilter, TsFilter, Visiting, Deciding
    <3> QED
      BY <2>1, <3>1, KeepItemKeeps
  <2> QED
    BY <2>1, <2>2, <2>3
<1>7. CASE TsCompact
  <2>1. /\ pc = "loop" /\ todo = {} /\ Deciding /\ pc' = "done"
        /\ out' = Compacted(src, out)[Len(src)]
    BY <1>7 DEF TsCompact, Deciding, Compacted
  <2>2. /\ ~Faulted /\ src = job.input.value
        /\ \A m \in 1 .. Len(src) : Call(job.node, src[m]) # Dead
        /\ \A m \in 1 .. Len(src) : out[m] = Call(job.node, src[m])
    BY <2>1 DEF FilterLoop
  <2>3. src \in Seq(Items)
    BY <2>2, FilterFacts
  <2>4. Selected(out', src, {k \in 1 .. Len(src) : out[k] = Yes})
    BY <2>1, <2>3, CompactedSelects
  <2>5. {k \in 1 .. Len(src) : out[k] = Yes} = Holds(Len(src))
    BY <2>2 DEF Holds
  <2>6. FilterEnd'
    BY <1>0, <1>1, <2>1, <2>2, <2>4, <2>5 DEF FilterEnd
  <2> QED
    BY <2>1, <2>6 DEF FilterLoop
<1>8. CASE Leave
  <2>1. pc = "loop" /\ todo = {} /\ pc' = "done" /\ out' = out /\ ~Deciding
    BY <1>8 DEF Leave, Deciding
  <2>2. /\ ~Faulted /\ src = job.input.value
        /\ \A m \in 1 .. Len(src) : Call(job.node, src[m]) # Dead
    BY <2>1 DEF FilterLoop
  <2>3. PICK n \in 0 .. Len(src) : todo = n + 1 .. Len(src) /\ FilteredTo(n)
    BY <2>1 DEF FilterLoop
  <2>4. Len(src) \in Nat
    BY <2>2, FilterFacts
  <2>5. n = Len(src)
    <3>1. n # Len(src) => n + 1 \in n + 1 .. Len(src)
      BY <2>4
    <3> QED
      BY <3>1, <2>1, <2>3
  <2>6. FilterEnd'
    BY <1>0, <1>1, <2>1, <2>2, <2>3, <2>5 DEF FilterEnd, FilteredTo
  <2> QED
    BY <2>1, <2>6 DEF FilterLoop
<1>9. CASE UNCHANGED vars
  <2>1. FilterLoop'
    BY <1>0, <1>1, <1>9 DEF vars, FilterLoop, FilteredTo
  <2>2. FilterEnd'
    BY <1>0, <1>1, <1>9 DEF vars, FilterEnd
  <2> QED
    BY <2>1, <2>2
<1>10. QED
  BY <1>2, <1>3, <1>4, <1>5, <1>6, <1>7, <1>8, <1>9 DEF Next

(* What the invariant says of the end of a filter and of a repetition.     *)
LEMMA SelectionsAgreeAtEnd ==
  ASSUME Accepted(job), FilterEnd, RepeatEnd
  PROVE  FiltersAndRepeatsKeepMeaning
<1> DEFINE xs == job.input.value
<1>1. CASE job.kind = "filter"
  <2>1. CASE Faulted
    BY <1>1, <2>1 DEF FiltersAndRepeatsKeepMeaning, FilterEnd
  <2>2. CASE ~Faulted
    <3>1. DOMAIN xs = 1 .. Len(xs)
      BY <1>1, <2>2, FilterFacts
    <3>2. Holds(Len(xs)) = {k \in DOMAIN xs : Call(job.node, xs[k]) = Yes}
      BY <3>1 DEF Holds
    <3>3. AnyDead(Answered(xs, job.node))
            <=> \E k \in 1 .. Len(xs) : Call(job.node, xs[k]) = Dead
      BY <3>1 DEF AnyDead, Answered
    <3>4. pc = "aborted" => AnyDead(Answered(xs, job.node))
      BY <1>1, <2>2, <3>3 DEF FilterEnd
    <3>5. pc = "done" => /\ ~AnyDead(Answered(xs, job.node))
                         /\ Selected(out, xs, {k \in DOMAIN xs :
                                                  Call(job.node, xs[k]) = Yes})
      BY <1>1, <2>2, <3>2, <3>3 DEF FilterEnd
    <3>6. (pc = "aborted") \in BOOLEAN /\ AnyDead(Answered(xs, job.node)) \in BOOLEAN
      BY DEF AnyDead
    <3> QED
      BY <1>1, <2>2, <3>4, <3>5, <3>6 DEF FiltersAndRepeatsKeepMeaning
  <2> QED
    BY <2>1, <2>2
<1>2. CASE job.kind = "repeat"
  BY <1>2 DEF FiltersAndRepeatsKeepMeaning, RepeatEnd
<1>3. CASE job.kind \notin {"filter", "repeat"}
  BY <1>3 DEF FiltersAndRepeatsKeepMeaning
<1> QED
  BY <1>1, <1>2, <1>3

-----------------------------------------------------------------------------
(* Fault maps.                                                             *)

(* The answers of a fault map and their faults.                            *)
Replies == Answered(job.input.value, job.node)
Size == Len(job.input.value)

(* When the TypeScript back end's test of the items says as much as one of *)
(* the answers.                                                            *)
Splits == backEnd = "ts" => Fault("node") \notin {job.node[v] : v \in Values}

(* The faults an answer may be.                                            *)
FaultNames == {"first", "second", "node", "aborted"}
ValuedTo(n) == {k \in 1 .. n : Replies[k].ok}
FaultedTo(n) == {k \in 1 .. n : ~Replies[k].ok}
FaultOf == [k \in FaultedTo(Size) |-> Replies[k].fault]

(* The first n answers are in the sequence they belong to.                 *)
PartitionedTo(n) ==
  /\ out \in Seq(States) /\ Selected(out, Replies, ValuedTo(n))
  /\ faults \in Seq(FaultNames) /\ Selected(faults, FaultOf, FaultedTo(n))

(* The loop of a fault map has partitioned a prefix of the answers.        *)
FaultMapLoop ==
  job.kind = "fault_map" =>
    /\ pc = "start" => faults = <<>>
    /\ pc = "loop" =>
         /\ ~Faulted /\ src = job.input.value
         /\ todo \subseteq 1 .. Len(src)
         /\ Splits =>
              \E n \in 0 .. Len(src) : todo = n + 1 .. Len(src) /\ PartitionedTo(n)

(* What it ends with.                                                      *)
FaultMapEnd ==
  job.kind = "fault_map" =>
    /\ pc = "done" => ~Faulted
    /\ pc = "aborted" => ~Faulted /\ \E k \in 1 .. Size : Replies[k] = Dead
    /\ pc = "done" /\ Splits => PartitionedTo(Size)

(* The input and the answers of an accepted fault map.                     *)
LEMMA FaultMapFacts ==
  ASSUME Accepted(job), job.kind = "fault_map", ~Faulted
  PROVE  /\ job.input.value \in Seq(Items) /\ Size \in Nat
         /\ job.node \in [Values -> Answers]
         /\ DOMAIN job.input.value = 1 .. Size /\ DOMAIN Replies = 1 .. Size
         /\ \A k \in 1 .. Size :
              /\ Replies[k] = Call(job.node, job.input.value[k]) /\ Replies[k] \in States
              /\ job.input.value[k] \in Items
              /\ ~Replies[k].ok => Replies[k].fault \in FaultNames
<1>1. /\ job.input.value \in Seq(Items) /\ Size \in Nat
      /\ DOMAIN job.input.value = 1 .. Size
      /\ job.node \in [Values -> Answers]
  BY SequenceInput DEF Accepted, AcceptedFaultMap, Size
<1>2. /\ DOMAIN Replies = 1 .. Size
      /\ \A k \in 1 .. Size : Replies[k] = Call(job.node, job.input.value[k])
  BY <1>1 DEF Replies, Answered
<1>3. \A r \in Items : r \in States /\ (~r.ok => r.fault \in FaultNames)
  BY StateFacts DEF Items, Fault, FaultNames
<1>4. \A r \in Answers : r \in States /\ (~r.ok => r.fault \in FaultNames)
  BY StateFacts DEF Answers, Fault, Dead, FaultNames
<1>5. \A k \in 1 .. Size : job.input.value[k] \in Items
  BY <1>1 DEF Size
<1>6. \A r \in Items : Call(job.node, r) \in Items \cup Answers
  BY <1>1, StateFacts DEF Call
<1> QED
  BY <1>1, <1>2, <1>3, <1>4, <1>5, <1>6

(* One answer goes to the values or to the faults.                         *)
LEMMA PartitionKeeps ==
  ASSUME Accepted(job), job.kind = "fault_map", FaultMapLoop, pc = "loop", Splits,
         NEW k \in todo, InOrder(k), Partition(k)
  PROVE  FaultMapLoop' /\ FaultMapEnd'
<1>1. ~Faulted /\ src = job.input.value /\ todo \subseteq 1 .. Size /\ Size = Len(src)
  BY DEF FaultMapLoop, Size
<1>2. PICK n \in 0 .. Size : todo = n + 1 .. Size /\ PartitionedTo(n)
  BY <1>1 DEF FaultMapLoop
<1>3. Size \in Nat /\ \A m \in 1 .. Size :
        /\ Replies[m] = Call(job.node, src[m]) /\ Replies[m] \in States
        /\ ~Replies[m].ok => Replies[m].fault \in FaultNames
  BY <1>1, FaultMapFacts
<1>4. /\ k = n + 1 /\ k \in 1 .. Size /\ k \in Nat /\ n \in Nat
      /\ Replies[k] = Call(job.node, src[k])
  BY <1>2, <1>3 DEF InOrder
<1>5. UNCHANGED <<backEnd, job, src>>
  BY DEF Partition, Abort
<1>6. /\ Faulted' = Faulted /\ Replies' = Replies /\ Size' = Size /\ FaultOf' = FaultOf
      /\ \A m : ValuedTo(m)' = ValuedTo(m) /\ FaultedTo(m)' = FaultedTo(m)
  BY <1>5 DEF Faulted, Replies, Size, ValuedTo, FaultedTo, FaultOf
<1>7. CASE Replies[k] = Dead
  <2>1. pc' = "aborted"
    BY <1>4, <1>7 DEF Partition, Abort
  <2> QED
    BY <1>1, <1>4, <1>5, <1>6, <1>7, <2>1 DEF FaultMapLoop, FaultMapEnd
<1>8. CASE Replies[k] # Dead
  <2>1. /\ pc' = "loop" /\ todo' = todo \ {k}
        /\ IF Replies[k].ok THEN out' = Append(out, Replies[k]) /\ faults' = faults
           ELSE faults' = Append(faults, Replies[k].fault) /\ out' = out
    BY <1>4, <1>8 DEF Partition
  <2>2. todo' = k + 1 .. Size /\ k \in 0 .. Size
    BY <1>2, <1>3, <1>4, <2>1
  <2>3. PICK ys \in Seq(States) : ys = out
    BY <1>2 DEF PartitionedTo
  <2>4. PICK fs \in Seq(FaultNames) : fs = faults
    BY <1>2 DEF PartitionedTo
  <2>0. ValuedTo(n) \subseteq Nat /\ FaultedTo(n) \subseteq Nat
    BY <1>4 DEF ValuedTo, FaultedTo
  <2>5. PICK vs \in SUBSET Nat : vs = ValuedTo(n)
    BY <2>0
  <2>6. PICK us \in SUBSET Nat : us = FaultedTo(n)
    BY <2>0
  <2>7. Selected(ys, Replies, vs) /\ Selected(fs, FaultOf, us)
    BY <1>2, <2>3, <2>4, <2>5, <2>6 DEF PartitionedTo
  <2>8. (\A m \in vs : m < k) /\ (\A m \in us : m < k)
    BY <1>4, <2>5, <2>6 DEF ValuedTo, FaultedTo
  <2>9. ASSUME Replies[k].ok PROVE PartitionedTo(k)'
    <3>1. ValuedTo(k) = vs \cup {k} /\ FaultedTo(k) = us
      BY <1>4, <2>5, <2>6, <2>9 DEF ValuedTo, FaultedTo
    <3>2. PICK zs : zs = Append(ys, Replies[k])
      OBVIOUS
    <3>3. Replies[k] \in States
      BY <1>3, <1>4
    <3>4. Selected(zs, Replies, vs \cup {k}) /\ zs \in Seq(States)
      BY <1>4, <2>7, <2>8, <3>2, <3>3, SelectedGrows
    <3>5. out' = zs /\ faults' = fs
      BY <2>1, <2>3, <2>4, <2>9, <3>2
    <3>6. QED
      BY <1>6, <2>7, <3>1, <3>4, <3>5 DEF PartitionedTo
  <2>10. ASSUME ~Replies[k].ok PROVE PartitionedTo(k)'
    <3>1. ValuedTo(k) = vs /\ FaultedTo(k) = us \cup {k}
      BY <1>4, <2>5, <2>6, <2>10 DEF ValuedTo, FaultedTo
    <3>2. PICK zs : zs = Append(fs, Replies[k].fault)
      OBVIOUS
    <3>3. Replies[k].fault \in FaultNames /\ Replies[k].fault = FaultOf[k]
      BY <1>3, <1>4, <2>10 DEF FaultOf, FaultedTo
    <3>4. Selected(zs, FaultOf, us \cup {k}) /\ zs \in Seq(FaultNames)
      BY <1>4, <2>7, <2>8, <3>2, <3>3, SelectedGrows
    <3>5. out' = ys /\ faults' = zs
      BY <2>1, <2>3, <2>4, <2>10, <3>2
    <3>6. QED
      BY <1>6, <2>7, <3>1, <3>4, <3>5 DEF PartitionedTo
  <2>11. PartitionedTo(k)'
    BY <2>9, <2>10
  <2>12. FaultMapLoop'
    BY <1>1, <1>5, <1>6, <2>1, <2>2, <2>11 DEF FaultMapLoop
  <2> QED
    BY <2>1, <2>12 DEF FaultMapEnd
<1> QED
  BY <1>7, <1>8

(* Where no answer of the node is a fault, testing the items is testing    *)
(* the answers.                                                            *)
LEMMA TsSplits ==
  ASSUME Accepted(job), job.kind = "fault_map", ~Faulted, src = job.input.value,
         NEW k \in todo, k \in 1 .. Size, TsFaultMap(k), Splits
  PROVE  Partition(k)
<1>1. /\ src[k] \in Items /\ job.node \in [Values -> Answers]
  BY FaultMapFacts
<1>2. backEnd = "ts"
  BY DEF TsFaultMap, Visiting
<1>3. CASE ~src[k].ok
  <2>1. src[k] # Dead /\ Call(job.node, src[k]) = src[k]
    BY <1>1, <1>3, StateFacts DEF Call
  <2> QED
    BY <1>3, <2>1 DEF TsFaultMap, Partition
<1>4. CASE src[k].ok
  <2>1. src[k].value \in Values /\ Call(job.node, src[k]) = job.node[src[k].value]
    BY <1>1, <1>4, StateFacts DEF Call
  <2>2. job.node[src[k].value] \in Plain \cup {Dead}
    BY <1>1, <1>2, <2>1 DEF Splits, Answers
  <2>3. job.node[src[k].value] # Dead => job.node[src[k].value].ok
    BY <2>2, StateFacts
  <2> QED
    BY <1>4, <2>1, <2>3 DEF TsFaultMap, Partition
<1> QED
  BY <1>3, <1>4

(* Otherwise the loop still aborts only with its node.                     *)
LEMMA TsFaultMapKeeps ==
  ASSUME Accepted(job), job.kind = "fault_map", FaultMapLoop, pc = "loop", ~Splits,
         NEW k \in todo, TsFaultMap(k)
  PROVE  FaultMapLoop' /\ FaultMapEnd'
<1>1. /\ ~Faulted /\ src = job.input.value
      /\ todo \subseteq 1 .. Size /\ Size = Len(src) /\ k \in 1 .. Size
  BY DEF FaultMapLoop, Size
<1>2. UNCHANGED <<backEnd, job, src>>
  BY DEF TsFaultMap, Abort
<1>3. /\ Faulted' = Faulted /\ Replies' = Replies /\ Size' = Size /\ ~Splits'
  BY <1>2 DEF Faulted, Replies, Size, Splits
<1>4. \/ pc' = "loop" /\ todo' = todo \ {k}
      \/ pc' = "aborted" /\ src[k].ok /\ job.node[src[k].value] = Dead
  BY DEF TsFaultMap, Abort
<1>5. src[k].ok /\ job.node[src[k].value] = Dead => Replies[k] = Dead
  <2>1. Replies[k] = Call(job.node, src[k])
    BY <1>1, FaultMapFacts
  <2> QED
    BY <2>1 DEF Call
<1> QED
  BY <1>1, <1>2, <1>3, <1>4, <1>5 DEF FaultMapLoop, FaultMapEnd

(* The fault maps' part of the invariant is kept by every step.            *)
LEMMA FaultMapSteps ==
  ASSUME Accepted(job), FaultMapLoop, FaultMapEnd, [Next]_vars
  PROVE  FaultMapLoop' /\ FaultMapEnd'
<1>0. job' = job /\ backEnd' = backEnd
  BY JobFixed
<1> SUFFICES ASSUME job.kind = "fault_map"
             PROVE  FaultMapLoop' /\ FaultMapEnd'
  BY <1>0 DEF FaultMapLoop, FaultMapEnd
<1>1. /\ Faulted' = Faulted /\ Replies' = Replies /\ Size' = Size
      /\ FaultOf' = FaultOf /\ Splits' = Splits
      /\ \A m : ValuedTo(m)' = ValuedTo(m) /\ FaultedTo(m)' = FaultedTo(m)
  BY <1>0 DEF Faulted, Replies, Size, ValuedTo, FaultedTo, FaultOf, Splits
<1>2. CASE Refuse
  BY <1>2 DEF Refuse, FaultMapLoop, FaultMapEnd
<1>3. CASE PassFaultOn \/ ReduceUnset
  BY <1>3 DEF PassFaultOn, ReduceUnset, Supports
<1>5. CASE Enter
  <2>1. /\ pc' = "loop" /\ src' = job.input.value /\ out' = <<>> /\ faults' = faults
        /\ todo' = 1 .. Len(src') /\ ~Faulted /\ pc = "start"
    BY <1>5 DEF Enter, Positions, Faulted
  <2>2. Size \in Nat /\ Size = Len(src')
    BY <2>1, FaultMapFacts DEF Size
  <2>3. todo' = 0 + 1 .. Len(src') /\ 0 \in 0 .. Len(src')
    BY <2>1, <2>2
  <2>4. ValuedTo(0) = {} /\ FaultedTo(0) = {}
    BY DEF ValuedTo, FaultedTo
  <2>5. faults' = <<>>
    BY <2>1 DEF FaultMapLoop
  <2>6. PartitionedTo(0)'
    BY <1>0, <1>1, <2>1, <2>4, <2>5, SelectedNone DEF PartitionedTo
  <2>7. FaultMapLoop'
    BY <1>0, <1>1, <2>1, <2>3, <2>6 DEF FaultMapLoop
  <2> QED
    BY <2>1, <2>7 DEF FaultMapEnd
<1>6. ASSUME NEW k \in todo, Iterate(k)
      PROVE  FaultMapLoop' /\ FaultMapEnd'
  <2>1. pc = "loop" /\ (CFaultMap(k) \/ LlvmFaultMap(k) \/ TsFaultMap(k))
    BY <1>6, LoopsOfSelections
  <2>2. InOrder(k)
    BY <2>1 DEF CFaultMap, LlvmFaultMap, TsFaultMap
  <2>3. CASE CFaultMap(k) \/ LlvmFaultMap(k)
    <3>1. Partition(k) /\ Splits
      BY <2>3 DEF CFaultMap, LlvmFaultMap, Visiting, Splits
    <3> QED
      BY <2>1, <2>2, <3>1, PartitionKeeps
  <2>4. CASE TsFaultMap(k) /\ Splits
    <3>1. ~Faulted /\ src = job.input.value /\ k \in 1 .. Size
      BY <2>1 DEF FaultMapLoop, Size
    <3>2. Partition(k)
      BY <2>4, <3>1, TsSplits
    <3> QED
      BY <2>1, <2>2, <2>4, <3>2, PartitionKeeps
  <2>5. CASE TsFaultMap(k) /\ ~Splits
    BY <2>1, <2>5, TsFaultMapKeeps
  <2> QED
    BY <2>1, <2>3, <2>4, <2>5
<1>7. CASE TsCompact
  BY <1>7 DEF TsCompact
<1>8. CASE Leave
  <2>1. pc = "loop" /\ todo = {} /\ pc' = "done" /\ out' = out /\ faults' = faults
    BY <1>8 DEF Leave
  <2>2. ~Faulted /\ src = job.input.value
    BY <2>1 DEF FaultMapLoop
  <2>3. Size \in Nat /\ Size = Len(src)
    BY <2>2, FaultMapFacts DEF Size
  <2>4. ASSUME Splits PROVE PartitionedTo(Size)
    <3>1. PICK n \in 0 .. Size : todo = n + 1 .. Size /\ PartitionedTo(n)
      BY <2>1, <2>3, <2>4 DEF FaultMapLoop
    <3>2. n # Size => n + 1 \in n + 1 .. Size
      BY <2>3
    <3> QED
      BY <2>1, <3>1, <3>2
  <2>5. Splits => PartitionedTo(Size)'
    BY <1>0, <1>1, <2>1, <2>4 DEF PartitionedTo
  <2>6. FaultMapEnd'
    BY <1>0, <1>1, <2>1, <2>2, <2>5 DEF FaultMapEnd, PartitionedTo
  <2> QED
    BY <2>1, <2>6 DEF FaultMapLoop
<1>9. CASE UNCHANGED vars
  <2>1. FaultMapLoop'
    BY <1>0, <1>1, <1>9 DEF vars, FaultMapLoop, PartitionedTo
  <2>2. FaultMapEnd'
    BY <1>0, <1>1, <1>9 DEF vars, FaultMapEnd, PartitionedTo
  <2> QED
    BY <2>1, <2>2
<1>10. QED
  BY <1>2, <1>3, <1>5, <1>6, <1>7, <1>8, <1>9 DEF Next

(* What the invariant says of the end of a fault map.                      *)
LEMMA FaultMapsAgreeAtEnd ==
  ASSUME Accepted(job), FaultMapEnd
  PROVE  FaultMapsPartition
<1> SUFFICES ASSUME job.kind = "fault_map" PROVE FaultMapsPartition
  BY DEF FaultMapsPartition
<1>1. CASE pc = "done"
  <2>1. ~Faulted
    BY <1>1 DEF FaultMapEnd
  <2>2. DOMAIN Replies = 1 .. Size
    BY <2>1, FaultMapFacts
  <2>3. ValuedTo(Size) = {k \in DOMAIN Replies : Replies[k].ok}
    BY <2>2 DEF ValuedTo
  <2>4. FaultedTo(Size) = DOMAIN Replies \ ValuedTo(Size)
    BY <2>2 DEF ValuedTo, FaultedTo
  <2>5. Splits => /\ Selected(out, Replies, ValuedTo(Size))
                  /\ Selected(faults, FaultOf, FaultedTo(Size))
    BY <1>1 DEF FaultMapEnd, PartitionedTo
  <2>6. Splits => Partitioned
    BY <2>3, <2>4, <2>5 DEF Partitioned, Replies, FaultOf
  <2> QED
    BY <1>1, <2>6 DEF FaultMapsPartition, Splits
<1>2. CASE pc = "aborted"
  <2>1. ~Faulted /\ \E k \in 1 .. Size : Replies[k] = Dead
    BY <1>2 DEF FaultMapEnd
  <2>2. DOMAIN Replies = 1 .. Size
    BY <2>1, FaultMapFacts
  <2> QED
    BY <1>2, <2>1, <2>2 DEF FaultMapsPartition, AnyDead, Replies
<1>3. CASE pc \notin {"done", "aborted"}
  BY <1>3 DEF FaultMapsPartition
<1> QED
  BY <1>1, <1>2, <1>3

-----------------------------------------------------------------------------
(* The inductive invariant: what each kind of stage needs of its job, what  *)
(* its loop has done so far, and what it ends with.                         *)
IInv ==
  /\ JobInv /\ Accepted(job)
  /\ MapLoop /\ MapsKeepMeaning
  /\ MatchLoop /\ MatchesKeepMeaning
  /\ FoldLoop /\ FoldsKeepMeaning
  /\ RepeatLoop /\ RepeatEnd
  /\ FilterLoop /\ FilterEnd
  /\ FaultMapLoop /\ FaultMapEnd

LEMMA Initially == Init => IInv
<1> SUFFICES ASSUME Init PROVE IInv
  OBVIOUS
<1>1. AcceptedJob(job) /\ pc = "start" /\ faults = <<>>
  BY DEF Init
<1>2. JobInv /\ Accepted(job)
  BY <1>1, AcceptedJobs, AcceptedKinds DEF JobInv
<1>3. MapLoop /\ MapsKeepMeaning /\ MatchLoop /\ MatchesKeepMeaning
  BY <1>1 DEF MapLoop, MatchLoop, MapsKeepMeaning, MatchesKeepMeaning
<1>4. FoldLoop /\ FoldsKeepMeaning /\ RepeatLoop /\ RepeatEnd
  BY <1>1 DEF FoldLoop, FoldsKeepMeaning, RepeatLoop, RepeatEnd
<1>5. FilterLoop /\ FilterEnd /\ FaultMapLoop /\ FaultMapEnd
  BY <1>1 DEF FilterLoop, FilterEnd, FaultMapLoop, FaultMapEnd
<1>6. QED
  BY <1>2, <1>3, <1>4, <1>5 DEF IInv

LEMMA Inductive == IInv /\ [Next]_vars => IInv'
<1> SUFFICES ASSUME IInv, [Next]_vars
             PROVE  IInv'
  OBVIOUS
<1>1. JobInv' /\ Accepted(job)'
  BY JobFixed DEF IInv, JobInv
<1>2. MapLoop' /\ MapsKeepMeaning'
  BY MapSteps DEF IInv
<1>3. MatchLoop' /\ MatchesKeepMeaning'
  BY MatchSteps DEF IInv
<1>4. FoldLoop' /\ FoldsKeepMeaning'
  BY FoldSteps DEF IInv
<1>5. RepeatLoop' /\ RepeatEnd'
  BY RepeatSteps DEF IInv
<1>6. FilterLoop' /\ FilterEnd'
  BY FilterSteps DEF IInv
<1>7. FaultMapLoop' /\ FaultMapEnd'
  BY FaultMapSteps DEF IInv
<1>8. QED
  BY <1>1, <1>2, <1>3, <1>4, <1>5, <1>6, <1>7 DEF IInv

(* The inductive invariant holds in every reachable state of Stages.        *)
THEOREM Invariance == Spec => []IInv
<1>1. QED
  BY Initially, Inductive, PTL DEF Spec

(* A map answers for every item in its place, in whatever order a parallel  *)
(* loop or Promise.all runs the iterations (emit_map of each back end).     *)
THEOREM MapsAreOrderFree == Spec => []MapsKeepMeaning
<1>1. IInv => MapsKeepMeaning
  BY DEF IInv
<1>2. QED
  BY <1>1, Invariance, PTL

(* The first arm of a match that holds decides, for any number of arms      *)
(* (emit_match of each back end).                                           *)
THEOREM FirstArmDecides == Spec => []MatchesKeepMeaning
<1>1. IInv => MatchesKeepMeaning
  BY DEF IInv
<1>2. QED
  BY <1>1, Invariance, PTL

(* A reduction or a scan is the sequential fold, for sequences of any       *)
(* length: the C and TypeScript loops stop at its first fault, and the      *)
(* straight-line LLVM code selects a fault exactly when the fold is one     *)
(* (emit_reduce and emit_scan of each back end).                            *)
THEOREM FoldsAgree == Spec => []FoldsKeepMeaning
<1>1. IInv => FoldsKeepMeaning
  BY DEF IInv
<1>2. QED
  BY <1>1, Invariance, PTL

(* Filters keep the items their predicate holds of in input order, though   *)
(* async decisions come in any order, repetitions run their count, and      *)
(* fault maps part their answers, for sequences and counts of any size      *)
(* (emit_filter, emit_repeat and emit_fault_map of each back end).          *)
THEOREM SelectionsAgree == Spec => []SelectionsKeepMeaning
<1>1. IInv => SelectionsKeepMeaning
  BY SelectionsAgreeAtEnd, FaultMapsAgreeAtEnd DEF IInv, SelectionsKeepMeaning
<1>2. QED
  BY <1>1, Invariance, PTL
=============================================================================
