---------------------------- MODULE EffectsProofs ----------------------------
(***************************************************************************)
(* Proofs about Effects for any number of nodes, any library and any       *)
(* program: the inference computes the least fixed point it is meant to,   *)
(* the checker rejects exactly what it is meant to, and maps over denied   *)
(* names are sequential.                                                   *)
(* Sets of nodes defined as least fixed points are reasoned about by       *)
(* exhibiting closed sets, so no induction on programs is needed.          *)
(***************************************************************************)
EXTENDS Effects, TLAPS

TypeOK ==
  /\ uses \subseteq Uses
  /\ effect \in [Nodes -> {"pure", "io"}]
  /\ visited \in 0 .. NodeCount
  /\ changed \in BOOLEAN
  /\ verdict \in {"infers", "checks", "accepted", "rejected"}

\* A node marked io does reach the boundary.
Sound == \A n \in Nodes : effect[n] = "io" => n \in ReachingSome(Boundary, Seen)

\* While a sweep has changed nothing, the nodes behind it are as their uses
\* say; when the inference is over, all are.
Settled ==
  /\ verdict = "infers" /\ ~changed =>
       \A n \in 1 .. visited : UsesIo(n) => effect[n] = "io"
  /\ verdict # "infers" => \A n \in Nodes : UsesIo(n) => effect[n] = "io"

\* What check_callable has looked at, it found in order, unless it rejected it.
InOrder(n) ==
  \A u \in uses : u.by = n => /\ u.way = "map"   => MayMap(u.of)
                              /\ u.way = "pick"  => MayPick(u.of)
                              /\ u.way = "guard" => MayGuard(u.of)
Checked ==
  /\ verdict = "checks" => \A n \in 1 .. visited : InOrder(n)
  /\ verdict = "accepted" => \A n \in Nodes : InOrder(n)
  /\ verdict = "rejected" => \E n \in Nodes : ~InOrder(n)

IInv == TypeOK /\ Sound /\ Settled /\ Checked
-----------------------------------------------------------------------------
\* ReachingSome is closed under the uses it follows, and every node in it has a
\* use that leads on: it is a fixed point.
LEMMA ReachingFacts ==
  ASSUME NEW via \in SUBSET Uses, NEW names
  PROVE  LET R == ReachingSome(names, via)
             Step(S) == {n \in Nodes : \E u \in via : u.by = n /\ u.of \in S \cup names}
         IN  R \subseteq Nodes /\ Step(R) = R
<1> DEFINE R == ReachingSome(names, via)
           Step(S) == {n \in Nodes : \E u \in via : u.by = n /\ u.of \in S \cup names}
<1>1. R \subseteq Nodes BY DEF ReachingSome
<1>2. ASSUME NEW S \in SUBSET Nodes, Step(S) \subseteq S PROVE R \subseteq S
  <2>1. \A u \in via : u.of \in S \cup names => u.by \in S
    BY <1>2 DEF Uses
  <2> QED BY <2>1 DEF ReachingSome
<1>3. Step(R) \subseteq R
  <2> SUFFICES ASSUME NEW u \in via, u.of \in R \cup names
               PROVE  u.by \in R
    OBVIOUS
  <2>1. u.by \in Nodes BY DEF Uses
  <2>2. ASSUME NEW S \in SUBSET Nodes,
               \A v \in via : v.of \in S \cup names => v.by \in S
        PROVE  u.by \in S
    <3>1. R \subseteq S BY <2>2 DEF ReachingSome
    <3> QED BY <2>2, <3>1
  <2> QED BY <2>1, <2>2 DEF ReachingSome
<1>4. R \subseteq Step(R)
  <2>1. Step(R) \in SUBSET Nodes OBVIOUS
  <2>2. Step(Step(R)) \subseteq Step(R) BY <1>3
  <2> HIDE DEF Step, R
  <2> QED BY <1>2, <2>1, <2>2
<1> HIDE DEF R, Step
<1>5. R \subseteq Nodes /\ Step(R) = R BY <1>1, <1>3, <1>4
<1> QED BY <1>5 DEF R, Step

\* More uses reach more nodes.
LEMMA ReachingGrows ==
  ASSUME NEW via, NEW more, via \subseteq more, NEW names
  PROVE  ReachingSome(names, via) \subseteq ReachingSome(names, more)
BY DEF ReachingSome

\* A node is io when something it uses is.
LEMMA UsesIoReaches ==
  ASSUME TypeOK, Sound, NEW n \in Nodes, UsesIo(n)
  PROVE  n \in ReachingSome(Boundary, Seen)
<1> DEFINE R == ReachingSome(Boundary, Seen)
           Step(S) == {m \in Nodes : \E u \in Seen : u.by = m /\ u.of \in S \cup Boundary}
<1>1. PICK u \in Seen : u.by = n /\ EffectOf(u.of) = "io"
  BY DEF UsesIo
<1>2. u.of \in R \cup Boundary
  BY <1>1 DEF EffectOf, Sound
<1>3. Step(R) = R
  <2>1. Seen \in SUBSET Uses BY DEF TypeOK, Seen
  <2> QED BY <2>1, ReachingFacts
<1> HIDE DEF R
<1>4. n \in Step(R) BY <1>1, <1>2
<1> QED BY <1>3, <1>4 DEF R

\* When every node is as its uses say, the nodes marked io are closed under any
\* uses that no pure position stands in the way of.
LEMMA IoNodesAreClosed ==
  ASSUME TypeOK, \A n \in Nodes : UsesIo(n) => effect[n] = "io",
         NEW via \in SUBSET uses, \A u \in via \ Seen : EffectOf(u.of) = "pure"
  PROVE  \A n \in ReachingSome(Boundary, via) : effect[n] = "io"
<1> DEFINE S == {n \in Nodes : effect[n] = "io"}
<1>1. ASSUME NEW u \in via, u.of \in S \cup Boundary
      PROVE  effect[u.by] = "io"
  <2>1. EffectOf(u.of) = "io" BY <1>1, EffectsAssumption DEF EffectOf
  <2>2. u \in Seen BY <1>1, <2>1
  <2>3. u.by \in Nodes BY DEF TypeOK, Uses
  <2>4. UsesIo(u.by) BY <2>1, <2>2 DEF UsesIo
  <2> QED BY <2>3, <2>4
<1>2. S \in SUBSET Nodes OBVIOUS
<1>3. \A u \in via : u.of \in S \cup Boundary => u.by \in S
  BY <1>1 DEF TypeOK, Uses
<1>4. ReachingSome(Boundary, via) \subseteq S
  <2> HIDE DEF S
  <2> QED BY <1>2, <1>3 DEF ReachingSome
<1> QED BY <1>4
-----------------------------------------------------------------------------
LEMMA InitInv == Init => IInv
<1> SUFFICES ASSUME Init PROVE IInv
  OBVIOUS
<1>1. uses \subseteq Uses
  <2>1. PICK picked \in [1 .. MaxUses -> Uses] : uses = {picked[i] : i \in 1 .. MaxUses}
    BY DEF Init
  <2> QED BY <2>1
<1>2. 0 \in 0 .. NodeCount BY EffectsAssumption
<1>3. TypeOK BY <1>1, <1>2 DEF Init, TypeOK
<1> QED BY <1>3 DEF Init, IInv, Sound, Settled, Checked

LEMMA VisitInv == IInv /\ Visit => IInv'
<1> SUFFICES ASSUME IInv, Visit PROVE IInv'
  OBVIOUS
<1> DEFINE n == visited + 1
<1>1. TypeOK /\ Sound /\ Settled /\ n \in Nodes /\ NodeCount \in Nat /\ uses' = uses
  BY EffectsAssumption DEF IInv, TypeOK, Visit, Nodes
<1>2. TypeOK' BY <1>1 DEF TypeOK, Visit, Nodes
<1>3. \A m \in Nodes : effect'[m] = IF m = n /\ UsesIo(n) THEN "io" ELSE effect[m]
  BY <1>1 DEF Visit, TypeOK
<1>4. Sound'
  <2>1. UsesIo(n) => n \in ReachingSome(Boundary, Seen) BY <1>1, UsesIoReaches
  <2>2. ReachingSome(Boundary, Seen)' = ReachingSome(Boundary, Seen)
    BY <1>1 DEF Seen, ReachingSome
  <2> HIDE DEF n
  <2> QED BY <1>1, <1>3, <2>1, <2>2 DEF Sound
<1>5. Settled'
  <2>1. verdict = "infers" /\ verdict' = "infers" BY DEF Visit
  <2>2. ASSUME ~changed' PROVE \A m \in 1 .. visited' : UsesIo(m)' => effect'[m] = "io"
    <3>1. ~changed /\ effect' = effect
      <4>1. ~changed /\ ~(effect[n] = "pure" /\ UsesIo(n)) BY <2>2 DEF Visit
      <4>2. UsesIo(n) => effect[n] = "io" BY <1>1, <4>1 DEF TypeOK
      <4> QED BY <1>1, <4>1, <4>2 DEF Visit, TypeOK
    <3>2. \A m \in 1 .. visited : UsesIo(m) => effect[m] = "io"
      BY <1>1, <2>1, <3>1 DEF Settled
    <3>3. UsesIo(n) => effect'[n] = "io" BY <1>1, <1>3
    <3>4. \A m : UsesIo(m)' <=> UsesIo(m) BY <1>1, <3>1 DEF UsesIo, Seen, EffectOf
    <3>5. visited' = n /\ \A m \in 1 .. n : m \in 1 .. visited \/ m = n
      BY <1>1 DEF Visit, TypeOK
    <3> QED BY <3>1, <3>2, <3>3, <3>4, <3>5
  <2> QED BY <2>1, <2>2 DEF Settled
<1>6. Checked' BY DEF Visit, Checked
<1> QED BY <1>2, <1>4, <1>5, <1>6 DEF IInv

LEMMA EndSweepInv == IInv /\ EndSweep => IInv'
<1> SUFFICES ASSUME IInv, EndSweep PROVE IInv'
  OBVIOUS
<1>1. TypeOK /\ Sound /\ Settled /\ uses' = uses /\ effect' = effect /\ visited' = 0
  BY DEF IInv, EndSweep
<1>2. TypeOK'
  <2>1. changed' = FALSE /\ verdict' \in {"infers", "checks"} BY DEF EndSweep
  <2>2. 0 \in 0 .. NodeCount BY EffectsAssumption
  <2> QED BY <1>1, <2>1, <2>2 DEF TypeOK
<1>3. Sound' BY <1>1 DEF Sound, Seen, ReachingSome
<1>4. \A m : UsesIo(m)' <=> UsesIo(m) BY <1>1 DEF UsesIo, Seen, EffectOf
<1>5. Settled'
  <2>1. verdict' # "infers" => \A n \in Nodes : UsesIo(n) => effect[n] = "io"
    BY <1>1 DEF EndSweep, Settled, Nodes
  <2>2. \A n \in 1 .. visited' : FALSE BY <1>1
  <2> QED BY <1>1, <1>4, <2>1, <2>2 DEF Settled
<1>6. Checked' BY <1>1 DEF Checked, EndSweep
<1> QED BY <1>2, <1>3, <1>5, <1>6 DEF IInv

LEMMA CheckInv == IInv /\ Check => IInv'
<1> SUFFICES ASSUME IInv, Check PROVE IInv'
  OBVIOUS
<1> DEFINE n == visited + 1
<1>1. TypeOK /\ Sound /\ Settled /\ Checked /\ uses' = uses /\ effect' = effect
      /\ n \in Nodes /\ visited' = n /\ verdict = "checks"
      /\ verdict' \in {"checks", "accepted", "rejected"} /\ NodeCount \in Nat
  BY EffectsAssumption DEF IInv, Check, TypeOK, Nodes
<1>2. TypeOK' BY <1>1, EffectsAssumption DEF TypeOK, Check, Nodes
<1>3. Sound' BY <1>1 DEF Sound, Seen, ReachingSome
<1>4. Settled'
  <2>1. \A m : UsesIo(m)' <=> UsesIo(m) BY <1>1 DEF UsesIo, Seen, EffectOf
  <2> QED BY <1>1, <2>1 DEF Settled
<1>5. \A m : InOrder(m)' <=> InOrder(m)
  BY <1>1 DEF InOrder, MayMap, MayPick, MayGuard, EffectOf
<1>6. verdict' # "rejected" => InOrder(n)
  BY DEF Check, InOrder
<1>7. verdict' # "rejected" => \A m \in 1 .. n : InOrder(m)
  <2>1. \A m \in 1 .. n : m \in 1 .. visited \/ m = n BY <1>1 DEF TypeOK
  <2> QED BY <1>1, <1>6, <2>1 DEF Checked
<1>8. verdict' = "accepted" => n = NodeCount BY <1>1 DEF Check
<1>81. verdict' = "rejected" => ~InOrder(n)
  BY <1>1 DEF Check, InOrder, TypeOK
<1>9. Checked'
  <2> HIDE DEF n
  <2> QED BY <1>1, <1>5, <1>7, <1>8, <1>81 DEF Checked, Nodes
<1> QED BY <1>2, <1>3, <1>4, <1>9 DEF IInv

\* What the inference has marked and the check has passed is as IInv says.
THEOREM Invariance == Spec => []IInv
<1>1. IInv /\ UNCHANGED vars => IInv'
  BY DEF IInv, vars, TypeOK, Sound, ReachingSome, Seen, Settled, UsesIo, Checked, InOrder,
         MayMap, MayPick, MayGuard, EffectOf
<1>2. IInv /\ [Next]_vars => IInv'
  BY VisitInv, EndSweepInv, CheckInv, <1>1 DEF Next
<1> QED BY InitInv, <1>2, PTL DEF Spec

\* Inference computes the least fixed point: when it ends a node is io exactly
\* if a chain of its uses leads to the boundary.
THEOREM InferenceCorrect == Spec => []InferenceIsExact
<1>1. IInv => InferenceIsExact
  <2> SUFFICES ASSUME IInv, verdict # "infers"
               PROVE  {n \in Nodes : effect[n] = "io"} = ReachingSome(Boundary, Seen)
    BY DEF InferenceIsExact
  <2>1. TypeOK /\ Sound /\ \A m \in Nodes : UsesIo(m) => effect[m] = "io" BY DEF IInv, Settled
  <2>2. Seen \in SUBSET uses BY DEF Seen
  <2>3. \A m \in ReachingSome(Boundary, Seen) : effect[m] = "io"
    BY <2>1, <2>2, IoNodesAreClosed
  <2>4. ReachingSome(Boundary, Seen) \subseteq Nodes BY DEF ReachingSome
  <2> QED BY <2>1, <2>3, <2>4 DEF Sound
<1> QED BY Invariance, <1>1, PTL

\* A program is rejected exactly if it maps or picks with a library name that
\* cannot be, or picks or guards with something that reaches the boundary
\* through chains; a guard on the way to it is itself such a position.
THEOREM PurePositions == Spec => []OnlyImpureProgramsAreRejected
<1>1. IInv => OnlyImpureProgramsAreRejected
  <2> DEFINE impure == Effectful(InChains)
             Bad(u) == \/ u.way \in {"map", "pick"} /\ u.of \in Library \ Mappable
                       \/ u.way \in {"pick", "guard"} /\ u.of \in impure
  <2> SUFFICES ASSUME IInv, verdict \in {"accepted", "rejected"}
               PROVE  verdict = "rejected" <=> \E u \in uses : Bad(u)
    BY DEF OnlyImpureProgramsAreRejected
  <2>1. /\ TypeOK /\ Sound /\ Checked
        /\ \A m \in Nodes : UsesIo(m) => effect[m] = "io"
    BY DEF IInv, Settled
  <2>2. CASE verdict = "rejected"
    <3>1. PICK n \in Nodes : ~InOrder(n) BY <2>1, <2>2 DEF Checked
    <3>2. PICK u \in uses : \/ u.way = "map"   /\ ~MayMap(u.of)
                            \/ u.way = "pick"  /\ ~MayPick(u.of)
                            \/ u.way = "guard" /\ ~MayGuard(u.of)
      BY <3>1 DEF InOrder
    <3>3. EffectOf(u.of) # "pure" => u.of \in impure
      <4>1. SUFFICES ASSUME EffectOf(u.of) # "pure", u.of \notin Boundary
                     PROVE  u.of \in ReachingSome(Boundary, InChains)
        BY DEF Effectful
      <4>2. u.of \in Nodes /\ effect[u.of] = "io"
        BY <2>1, <4>1 DEF EffectOf, TypeOK
      <4>3. Seen \subseteq InChains BY DEF Seen, InChains
      <4> QED BY <2>1, <4>2, <4>3, ReachingGrows DEF Sound
    <3> HIDE DEF impure
    <3>4. Bad(u) BY <3>2, <3>3 DEF MayMap, MayPick, MayGuard
    <3> QED BY <2>2, <3>4
  <2>3. CASE verdict = "accepted"
    <3>1. \A n \in Nodes : InOrder(n) BY <2>1, <2>3 DEF Checked
    <3>2. ASSUME NEW v \in uses
          PROVE  /\ v.way \in {"map", "pick"} => MayMap(v.of)
                 /\ v.way \in {"pick", "guard"} => EffectOf(v.of) = "pure"
      <4>1. v.by \in Nodes BY <2>1 DEF TypeOK, Uses
      <4> QED BY <3>1, <4>1 DEF InOrder, MayPick, MayGuard
    <3>3. InChains \in SUBSET uses BY DEF InChains
    <3>4. \A v \in InChains \ Seen : EffectOf(v.of) = "pure"
      <4> SUFFICES ASSUME NEW v \in InChains \ Seen PROVE EffectOf(v.of) = "pure"
        OBVIOUS
      <4>1. v \in uses /\ v.way = "guard"
        BY <2>1 DEF InChains, Seen, TypeOK, Uses, Ways
      <4> QED BY <3>2, <4>1
    <3>5. \A m \in ReachingSome(Boundary, InChains) : effect[m] = "io"
      BY <2>1, <3>3, <3>4, IoNodesAreClosed
    <3>6. ReachingSome(Boundary, InChains) \subseteq Nodes BY DEF ReachingSome
    <3>7. ASSUME NEW v \in uses, v.of \in impure PROVE EffectOf(v.of) = "io"
      BY <3>5, <3>6, <3>7, EffectsAssumption DEF Effectful, EffectOf
    <3> HIDE DEF impure
    <3>8. \A v \in uses : ~Bad(v) BY <3>2, <3>7 DEF MayMap
    <3> QED BY <2>3, <3>8
  <2> QED BY <2>2, <2>3
<1> QED BY Invariance, <1>1, PTL

\* A map over a denied name or over something that reaches one, in any way, is
\* sequential.
THEOREM SequentialMaps == Spec => []EffectfulMapsAreSequential
<1>1. TypeOK => EffectfulMapsAreSequential
  <2> DEFINE R == ReachingSome(Denied, uses)
  <2> SUFFICES ASSUME TypeOK, NEW u \in uses, u.of \in Denied \cup R
               PROVE  ~RunsInParallel(u.of)
    BY DEF EffectfulMapsAreSequential
  <2> DEFINE Step(T) == {n \in Nodes : \E v \in uses : v.by = n /\ v.of \in T \cup Denied}
  <2>1. R \subseteq Nodes /\ Step(R) = R
    <3>1. uses \in SUBSET Uses BY DEF TypeOK
    <3> QED BY <3>1, ReachingFacts
  <2> HIDE DEF R
  <2>2. Denied \cap Nodes = {} BY EffectsAssumption
  <2>3. CASE u.of \in Denied BY <2>2, <2>3 DEF RunsInParallel
  <2>4. CASE u.of \in R
    <3> DEFINE S == Nodes \ R
    <3>1. ASSUME NEW m \in Nodes,
                 \A v \in uses : v.by = m => v.of \in S \cup (Names \ (Nodes \cup Denied))
          PROVE  m \in S
      <4>1. SUFFICES ASSUME m \in Step(R) PROVE FALSE BY <2>1
      <4>2. PICK v \in uses : v.by = m /\ v.of \in R \cup Denied BY <4>1
      <4>3. v.of \in S \cup (Names \ (Nodes \cup Denied)) BY <3>1, <4>2
      <4> QED BY <2>1, <2>2, <4>2, <4>3
    <3>2. S \in SUBSET Nodes OBVIOUS
    <3>3. u.of \notin ParallelSafe BY <2>4, <3>1, <3>2 DEF ParallelSafe
    <3> QED BY <2>1, <2>4, <3>3 DEF RunsInParallel
  <2> QED BY <2>3, <2>4
<1>2. IInv => TypeOK BY DEF IInv
<1> QED BY Invariance, <1>1, <1>2, PTL
=============================================================================
