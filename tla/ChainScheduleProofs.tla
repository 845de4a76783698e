------------------------- MODULE ChainScheduleProofs -------------------------
(***************************************************************************)
(* Proofs about ChainSchedule for bodies of any number of chains, and any  *)
(* kinds, forms, reads and unsafe chains.  Fusion keeps a list in which    *)
(* every chain has one place and reads what earlier entries bind           *)
(* (ListInv); the emitter keeps, beside it, what is bound and what has     *)
(* been evaluated so far (EmitInv, StepInv).                               *)
(***************************************************************************)
EXTENDS ChainSchedule, NaturalsInduction, WellFoundedInduction, FiniteSetTheorems, TLAPS

Bodies ==
  /\ backEnd \in {"c", "ts"}
  /\ kind \in [Chains -> Kinds] /\ form \in [Chains -> Forms]
  /\ source \in [Chains -> Variables \cup {NoVariable}]
  /\ rest \in [Chains -> SUBSET Variables]
  /\ unsafe \subseteq Chains /\ (backEnd = "ts" => unsafe = {})
  /\ \E c \in Chains : output \in Binds(c)
  /\ KindsFit

TypeOK ==
  /\ Bodies
  /\ list \in Seq(Seq(Chains)) /\ Len(list) \in 1 .. ChainCount
  /\ phase \in {"check", "fuse", "emit", "run", "done", "rejected", "failed"}
  /\ at \in 1 .. Len(list) + 1
  /\ env \subseteq Variables
  /\ running \in [Chains -> Seq(Chains)]
  /\ times \in [Chains -> Nat]

\* Every chain has one place in the list; inside an entry each chain but the
\* first starts from the variable of the one before, which is no output.
ListInv ==
  /\ \A k \in DOMAIN list : list[k] # <<>>
  /\ \A c \in Chains : \E k \in DOMAIN list : \E i \in 1 .. Len(list[k]) : list[k][i] = c
  /\ \A j, k \in DOMAIN list : \A h \in 1 .. Len(list[j]), i \in 1 .. Len(list[k]) :
       list[j][h] = list[k][i] => j = k /\ h = i
  /\ \A k \in DOMAIN list : \A i \in 1 .. Len(list[k]) - 1 :
       /\ form[list[k][i]] = "variable"
       /\ source[list[k][i + 1]] = list[k][i]
       /\ output # list[k][i]
  /\ phase = "check" \/ backEnd = "ts" => list = [c \in Chains |-> <<c>>]

\* What an entry reads from outside is bound by entries before it.
ReadsBefore ==
  \A k \in DOMAIN list : \A v \in ReadsOf(list[k]) : \E j \in 1 .. k - 1 : v \in BindsOf(list[j])

Ordered == \A c \in Chains : \A v \in Reads(c) : \E d \in 1 .. c - 1 : v \in Binds(d)

\* What is bound: what the entries before `at' bind, but the ranges that became
\* loops, whose maps are behind `at' as well.
EmitInv ==
  /\ env = {v \in Variables : \E j \in 1 .. at - 1 : v \in BindsOf(list[j])}
             \ {r \in 1 .. at - 1 : RangeMaps(r) # {}}
  /\ \A r \in Chains : r < at => RangeMaps(r) \subseteq 1 .. at - 1

InStep(c)  == phase = "run" /\ \E k \in Batch : c \in Range(list[k])
Started(c) == InStep(c) \/ \E j \in 1 .. at - 1 : c \in Range(list[j])
Pending(c) == \E k \in Chains : c \in Range(running[k])

\* running[k] is what is left of a task of the step.
Left(k, n) ==
  /\ Len(running[k]) = Len(Tasks[k]) - n
  /\ \A i \in 1 .. Len(running[k]) : running[k][i] = Tasks[k][i + n]

\* What has started and is not pending was evaluated once, and nothing else.
StepInv ==
  /\ phase # "run" => \A k \in Chains : running[k] = <<>>
  /\ phase = "run" => /\ at <= Len(list)
                      /\ \A k \in Batch : ReadsOf(list[k]) \subseteq env \cup LoopVariable
                      /\ \A k \in Chains : \E n \in 0 .. Len(Tasks[k]) : Left(k, n)
  /\ \A c \in Chains :
       times[c] = IF Started(c) /\ ~Pending(c) /\ ~Dropped(c) THEN 1 ELSE 0

IInv ==
  /\ TypeOK /\ ListInv /\ EmitInv /\ StepInv
  /\ phase \in {"fuse", "emit", "run", "done", "failed"} => Ordered /\ ReadsBefore
  /\ phase \in {"check", "fuse"} => at = 1
  /\ phase = "fuse" => backEnd = "c"
  /\ phase = "done" => at = Len(list) + 1
  /\ AcceptedBodiesCompile
-----------------------------------------------------------------------------
Descends == {ss \in Nat \X Nat : ss[1] < ss[2]}

\* A non-empty set of naturals has a smallest element.
LEMMA LeastNatural ==
  ASSUME NEW T \in SUBSET Nat, T # {}
  PROVE  \E x \in T : \A y \in T : x <= y
<1>1. IsWellFoundedOn(Descends, Nat)
  <2>1. OpToRel(<, Nat) = Descends BY DEF OpToRel, Descends
  <2> QED BY <2>1, NatLessThanWellFounded
<1>2. PICK x \in T : \A y \in T : ~(<<y, x>> \in Descends)
  BY <1>1, WFMin
<1>3. ASSUME NEW y \in T PROVE x <= y
  <2>1. x \in Nat /\ y \in Nat /\ <<y, x>> \in Nat \X Nat OBVIOUS
  <2>2. ~(y < x) BY <1>2, <2>1 DEF Descends
  <2> QED BY <2>1, <2>2
<1> QED BY <1>3

LEMMA Concatenation ==
  ASSUME NEW S, NEW s \in Seq(S), NEW t \in Seq(S)
  PROVE  /\ s \o t \in Seq(S) /\ Len(s \o t) = Len(s) + Len(t)
         /\ \A i \in 1 .. Len(s) + Len(t) :
              (s \o t)[i] = IF i <= Len(s) THEN s[i] ELSE t[i - Len(s)]
  OBVIOUS

\* What RemoveAt leaves of a sequence, entry by entry.
LEMMA Removal ==
  ASSUME NEW S, NEW s \in Seq(S), NEW p \in 1 .. Len(s)
  PROVE  /\ RemoveAt(s, p) \in Seq(S)
         /\ Len(RemoveAt(s, p)) = Len(s) - 1
         /\ \A k \in 1 .. Len(s) - 1 : RemoveAt(s, p)[k] = s[IF k < p THEN k ELSE k + 1]
<1> DEFINE a == SubSeq(s, 1, p - 1)
           b == SubSeq(s, p + 1, Len(s))
<1>1. a \in Seq(S) /\ Len(a) = p - 1 /\ \A i \in 1 .. p - 1 : a[i] = s[i] OBVIOUS
<1>2. b \in Seq(S) /\ Len(b) = Len(s) - p /\ \A i \in 1 .. Len(s) - p : b[i] = s[i + p]
  OBVIOUS
<1>3. RemoveAt(s, p) = a \o b BY DEF RemoveAt
<1> HIDE DEF a, b
<1>4. /\ a \o b \in Seq(S) /\ Len(a \o b) = Len(a) + Len(b)
      /\ \A i \in 1 .. Len(a) + Len(b) :
           (a \o b)[i] = IF i <= Len(a) THEN a[i] ELSE b[i - Len(a)]
  BY <1>1, <1>2, Concatenation
<1> QED BY <1>1, <1>2, <1>3, <1>4

\* The members and the ends of two chains glued together.
LEMMA Glue ==
  ASSUME NEW S, NEW s \in Seq(S), NEW t \in Seq(S), s # <<>>, t # <<>>
  PROVE  /\ s \o t \in Seq(S) /\ Len(s \o t) = Len(s) + Len(t)
         /\ \A i \in 1 .. Len(s) + Len(t) :
              (s \o t)[i] = IF i <= Len(s) THEN s[i] ELSE t[i - Len(s)]
         /\ s \o t # <<>> /\ Head(s \o t) = Head(s) /\ Last(s \o t) = Last(t)
         /\ Range(s \o t) = Range(s) \cup Range(t)
<1>1. /\ s \o t \in Seq(S) /\ Len(s \o t) = Len(s) + Len(t)
      /\ \A i \in 1 .. Len(s) + Len(t) :
           (s \o t)[i] = IF i <= Len(s) THEN s[i] ELSE t[i - Len(s)]
  BY Concatenation
<1>2. Len(s) \in Nat \ {0} /\ Len(t) \in Nat \ {0} OBVIOUS
<1>3. s \o t # <<>> /\ Head(s \o t) = Head(s) /\ Last(s \o t) = Last(t)
  BY <1>1, <1>2 DEF Last
<1>4. Range(s \o t) = Range(s) \cup Range(t)
  <2>1. \A x \in Range(s \o t) : x \in Range(s) \cup Range(t) BY <1>1, <1>2 DEF Range
  <2>2. ASSUME NEW i \in 1 .. Len(s) PROVE s[i] \in Range(s \o t)
    BY <1>1, <1>2, i \in 1 .. Len(s) + Len(t) DEF Range
  <2>3. ASSUME NEW i \in 1 .. Len(t) PROVE t[i] \in Range(s \o t)
    <3>1. i + Len(s) \in 1 .. Len(s) + Len(t) /\ ~(i + Len(s) <= Len(s)) BY <1>2
    <3>2. (s \o t)[i + Len(s)] = t[i] BY <1>1, <1>2, <3>1
    <3> QED BY <1>1, <3>1, <3>2 DEF Range
  <2>4. Range(s) \subseteq Range(s \o t) /\ Range(t) \subseteq Range(s \o t)
    <3> HIDE DEF Range
    <3>1. \A x \in Range(s) : \E i \in 1 .. Len(s) : x = s[i] BY DEF Range
    <3>2. \A x \in Range(t) : \E i \in 1 .. Len(t) : x = t[i] BY DEF Range
    <3> QED BY <2>2, <2>3, <3>1, <3>2
  <2> QED BY <2>1, <2>4
<1> QED BY <1>1, <1>3, <1>4

\* Every variable is bound by one chain.
LEMMA OneBinder ==
  ASSUME Bodies
  PROVE  \A c \in Chains : /\ Binds(c) \subseteq Variables
                           /\ \A v \in Binds(c) : BinderOf(v) = c /\ v # NoVariable
                           /\ form[c] = "variable" => Binds(c) = {c}
                           /\ form[c] = "discard" => Binds(c) = {}
<1> SUFFICES ASSUME NEW c \in Chains
             PROVE  /\ Binds(c) \subseteq Variables
                    /\ \A v \in Binds(c) : BinderOf(v) = c /\ v # NoVariable
                    /\ form[c] = "variable" => Binds(c) = {c}
                    /\ form[c] = "discard" => Binds(c) = {}
  OBVIOUS
<1>1. c \in Nat /\ 1 <= c /\ c <= ChainCount /\ ChainCount \in Nat
  BY ChainScheduleAssumption DEF Chains
<1>2. form[c] \in Forms BY DEF Bodies
<1>3. \/ form[c] = "variable" /\ Binds(c) = {c}
      \/ form[c] \in {"tuple", "faultMap"} /\ Binds(c) = {c, c + ChainCount}
      \/ form[c] = "discard" /\ Binds(c) = {}
  BY <1>2 DEF Forms, Binds
<1> QED BY <1>1, <1>3 DEF Variables, BinderOf, NoVariable

\* The entries of the list: no two bind one variable.
LEMMA Entries ==
  ASSUME TypeOK, ListInv
  PROVE  /\ DOMAIN list = 1 .. Len(list) /\ Len(list) \in Nat
         /\ \A k \in DOMAIN list :
              /\ list[k] \in Seq(Chains) /\ list[k] # <<>> /\ Len(list[k]) \in Nat \ {0}
              /\ Last(list[k]) = list[k][Len(list[k])] /\ Last(list[k]) \in Chains
              /\ SourceOf(list[k]) = source[list[k][1]]
              /\ BindsOf(list[k]) \subseteq Variables
         /\ \A j, k \in DOMAIN list : Last(list[j]) = Last(list[k]) => j = k
         /\ \A j, k \in DOMAIN list : \A v \in BindsOf(list[j]) : v \in BindsOf(list[k]) => j = k
<1>1. DOMAIN list = 1 .. Len(list) /\ Len(list) \in Nat BY DEF TypeOK
<1>2. ASSUME NEW k \in DOMAIN list
      PROVE  /\ list[k] \in Seq(Chains) /\ list[k] # <<>> /\ Len(list[k]) \in Nat \ {0}
             /\ Last(list[k]) = list[k][Len(list[k])] /\ Last(list[k]) \in Chains
             /\ SourceOf(list[k]) = source[list[k][1]]
             /\ BindsOf(list[k]) \subseteq Variables
  <2>1. list[k] \in Seq(Chains) /\ list[k] # <<>> BY <1>1, <1>2 DEF TypeOK, ListInv
  <2>2. Len(list[k]) \in Nat \ {0} BY <2>1
  <2>3. Last(list[k]) = list[k][Len(list[k])] /\ Last(list[k]) \in Chains
    BY <2>1, <2>2 DEF Last
  <2>4. SourceOf(list[k]) = source[list[k][1]] BY <2>1 DEF SourceOf
  <2>5. BindsOf(list[k]) \subseteq Variables BY <2>3, OneBinder DEF TypeOK, BindsOf
  <2> QED BY <2>1, <2>2, <2>3, <2>4, <2>5
<1>3. ASSUME NEW j \in DOMAIN list, NEW k \in DOMAIN list, Last(list[j]) = Last(list[k])
      PROVE  j = k
  <2>1. /\ Len(list[j]) \in 1 .. Len(list[j]) /\ Len(list[k]) \in 1 .. Len(list[k])
        /\ list[j][Len(list[j])] = list[k][Len(list[k])]
    BY <1>2, <1>3
  <2> QED BY <2>1 DEF ListInv
<1>4. ASSUME NEW j \in DOMAIN list, NEW k \in DOMAIN list,
             NEW v \in BindsOf(list[j]), v \in BindsOf(list[k])
      PROVE  j = k
  <2>1. BinderOf(v) = Last(list[j]) /\ BinderOf(v) = Last(list[k])
    BY <1>2, <1>4, OneBinder DEF TypeOK, BindsOf
  <2> QED BY <1>3, <2>1
<1> QED BY <1>1, <1>2, <1>3, <1>4

\* What Fusable counts with Mentions: the producer's variable is read once,
\* by the consumer, as its source.
LEMMA OneReader ==
  ASSUME TypeOK, ListInv, NEW p \in DOMAIN list, NEW q \in DOMAIN list, Fusable(p, q)
  PROVE  /\ BindsOf(list[p]) = {Last(list[p])} /\ Last(list[p]) # NoVariable
         /\ SourceOf(list[q]) = Last(list[p]) /\ output # Last(list[p])
         /\ Last(list[p]) \notin RestOf(list[q])
         /\ \A k \in DOMAIN list : Last(list[p]) \in ReadsOf(list[k]) => k = q
<1> DEFINE x == Last(list[p])
           A == {k \in DOMAIN list : SourceOf(list[k]) = x}
           B == {k \in DOMAIN list : x \in RestOf(list[k])}
<1>1. BindsOf(list[p]) = {x} /\ x # NoVariable
  <2>1. form[x] = "variable" /\ x \in Chains BY Entries DEF Fusable
  <2> QED BY <2>1, OneBinder DEF TypeOK, BindsOf
<1>2. SourceOf(list[q]) = x /\ output # x /\ Mentions(x) = 1 BY <1>1 DEF Fusable
<1>3. IsFiniteSet(A) /\ IsFiniteSet(B)
  <2>1. IsFiniteSet(DOMAIN list) BY Entries, FS_Interval, 1 \in Int, Len(list) \in Int
  <2> QED BY <2>1, FS_Subset
<1>4. Cardinality(A) + Cardinality(B) = 1 BY <1>2 DEF Mentions
<1>5. q \in A BY <1>2
<1> HIDE DEF A, B
<1>6. Cardinality(A) \in Nat /\ Cardinality(B) \in Nat /\ Cardinality(A) # 0
  BY <1>3, <1>5, FS_CardinalityType, FS_EmptySet
<1>7. Cardinality(A) = 1 /\ Cardinality(B) = 0 BY <1>4, <1>6
<1>8. A = {q} /\ B = {} BY <1>3, <1>5, <1>7, FS_Singleton, FS_EmptySet
<1>9. \A k \in DOMAIN list : x \notin RestOf(list[k]) /\ (SourceOf(list[k]) = x => k = q)
  BY <1>8 DEF A, B
<1> QED BY <1>1, <1>2, <1>9 DEF ReadsOf

\* One round of the loop, entry by entry.
LEMMA FusedList ==
  ASSUME TypeOK, ListInv, ReadsBefore, Fuse
  PROVE  \E p, q \in DOMAIN list :
           /\ p < q /\ Fusable(p, q)
           /\ list' \in Seq(Seq(Chains)) /\ Len(list') = Len(list) - 1
           /\ \A k \in 1 .. Len(list) - 1 :
                list'[k] = IF k < p THEN list[k]
                           ELSE IF k + 1 = q THEN list[p] \o list[q] ELSE list[k + 1]
<1> DEFINE p == CHOOSE i \in Producers : \A r \in Producers : i <= r
           q == CHOOSE i \in DOMAIN list : Fusable(p, i)
           M == [list EXCEPT ![q] = list[p] \o list[q]]
<1>1. list' = RemoveAt(M, p) BY DEF Fuse
<1>2. p \in Producers
  <2>1. Producers \in SUBSET Nat /\ Producers # {} BY Entries DEF Producers, Fuse
  <2> QED BY <2>1, LeastNatural
<1>3. p \in DOMAIN list /\ q \in DOMAIN list /\ Fusable(p, q) BY <1>2 DEF Producers
<1> HIDE DEF p, q
<1>4. p < q
  <2>1. /\ BindsOf(list[p]) = {Last(list[p])} /\ Last(list[p]) # NoVariable
        /\ SourceOf(list[q]) = Last(list[p])
    BY <1>3, OneReader
  <2>2. PICK j \in 1 .. q - 1 : Last(list[p]) \in BindsOf(list[j])
    BY <1>3, <2>1 DEF ReadsBefore, ReadsOf
  <2>3. j \in DOMAIN list /\ j < q /\ q \in Nat BY <1>3, Entries
  <2>4. Last(list[p]) \in BindsOf(list[p]) BY <2>1
  <2>5. j = p BY <1>3, <2>2, <2>3, <2>4, Entries
  <2> QED BY <2>3, <2>5
<1>5. /\ M \in Seq(Seq(Chains)) /\ Len(M) = Len(list)
      /\ \A k \in 1 .. Len(list) : M[k] = IF k = q THEN list[p] \o list[q] ELSE list[k]
  <2>1. list[p] \o list[q] \in Seq(Chains) BY <1>3, Entries, Concatenation
  <2>2. list \in Seq(Seq(Chains)) /\ q \in 1 .. Len(list) BY <1>3, Entries DEF TypeOK
  <2> QED BY <2>1, <2>2
<1> HIDE DEF M
<1>6. p \in 1 .. Len(M) BY <1>3, <1>5, Entries
<1>7. /\ list' \in Seq(Seq(Chains)) /\ Len(list') = Len(list) - 1
      /\ \A k \in 1 .. Len(list) - 1 : list'[k] = M[IF k < p THEN k ELSE k + 1]
  BY <1>1, <1>5, <1>6, Removal
<1>8. ASSUME NEW k \in 1 .. Len(list) - 1
      PROVE  list'[k] = IF k < p THEN list[k]
                        ELSE IF k + 1 = q THEN list[p] \o list[q] ELSE list[k + 1]
  <2>1. p \in Nat /\ q \in Nat /\ k \in Nat /\ Len(list) \in Nat /\ k <= Len(list) - 1
    BY <1>3, Entries
  <2>2. CASE k < p
    <3>1. k \in 1 .. Len(list) /\ k # q BY <1>4, <2>1, <2>2
    <3> QED BY <1>5, <1>7, <2>2, <3>1
  <2>3. CASE ~(k < p)
    <3>1. k + 1 \in 1 .. Len(list) BY <2>1
    <3> QED BY <1>5, <1>7, <2>3, <3>1
  <2> QED BY <2>2, <2>3
<1> QED BY <1>3, <1>4, <1>7, <1>8

\* Fusing moves no chain before something it reads: the producer's variable
\* has no other reader, and everything the producer reads comes before it.
LEMMA FusionKeepsReads ==
  ASSUME TypeOK, ListInv, ReadsBefore, Fuse
  PROVE  ReadsBefore'
<1>1. PICK p \in DOMAIN list, q \in DOMAIN list :
        /\ p < q /\ Fusable(p, q)
        /\ list' \in Seq(Seq(Chains)) /\ Len(list') = Len(list) - 1
        /\ \A k \in 1 .. Len(list) - 1 :
             list'[k] = IF k < p THEN list[k]
                        ELSE IF k + 1 = q THEN list[p] \o list[q] ELSE list[k + 1]
  BY FusedList
<1> DEFINE x == Last(list[p])
           E(k) == IF k < p THEN k ELSE k + 1
           glued == list[p] \o list[q]
<1>2. /\ p \in Nat /\ q \in Nat /\ 1 <= p /\ q <= Len(list) /\ Len(list) \in Nat
      /\ DOMAIN list = 1 .. Len(list) /\ DOMAIN list' = 1 .. Len(list) - 1
  BY <1>1, Entries
<1>3. /\ RestOf(glued) = RestOf(list[p]) \cup RestOf(list[q])
      /\ SourceOf(glued) = SourceOf(list[p]) /\ BindsOf(glued) = BindsOf(list[q])
  <2>1. /\ Head(glued) = Head(list[p]) /\ Last(glued) = Last(list[q])
        /\ Range(glued) = Range(list[p]) \cup Range(list[q])
    BY <1>1, Entries, Glue
  <2> QED BY <2>1 DEF RestOf, SourceOf, BindsOf
<1>4. /\ BindsOf(list[p]) = {x} /\ x \notin RestOf(list[q])
      /\ \A k \in DOMAIN list : x \in ReadsOf(list[k]) => k = q
  BY <1>1, OneReader
<1> HIDE DEF x, glued
<1>5. ASSUME NEW k \in 1 .. Len(list) - 1
      PROVE  list'[k] = IF E(k) = q THEN glued ELSE list[E(k)]
  <2>1. list'[k] = IF k < p THEN list[k] ELSE IF k + 1 = q THEN glued ELSE list[k + 1]
    BY <1>1 DEF glued
  <2>2. k < p => k # q BY <1>1, <1>2
  <2> QED BY <2>1, <2>2
<1>6. ASSUME NEW k \in 1 .. Len(list) - 1, NEW v \in ReadsOf(list'[k])
      PROVE  \E j \in 1 .. k - 1 : v \in BindsOf(list'[j])
  <2>1. E(k) \in DOMAIN list /\ E(k) # p /\ k \in Nat BY <1>2
  <2>2. \E i \in 1 .. E(k) - 1 : i # p /\ v \in BindsOf(list[i])
    <3>1. CASE E(k) = q
      <4>1. v \in ReadsOf(list[p]) \/ v \in RestOf(list[q])
        BY <1>3, <1>5, <3>1 DEF ReadsOf
      <4>2. CASE v \in ReadsOf(list[p])
        <5>1. PICK i \in 1 .. p - 1 : v \in BindsOf(list[i]) BY <1>1, <4>2 DEF ReadsBefore
        <5>2. i \in 1 .. E(k) - 1 /\ i # p BY <1>1, <1>2, <3>1, SMTT(40)
        <5> QED BY <5>1, <5>2
      <4>3. CASE v \in RestOf(list[q])
        <5>1. v # x /\ v \in ReadsOf(list[q]) BY <1>4, <4>3 DEF ReadsOf
        <5> QED BY <1>4, <3>1, <5>1 DEF ReadsBefore
      <4> QED BY <4>1, <4>2, <4>3
    <3>2. CASE E(k) # q
      <4>1. v \in ReadsOf(list[E(k)]) BY <1>5, <3>2
      <4>2. v # x BY <1>4, <2>1, <3>2, <4>1
      <4> QED BY <1>4, <2>1, <4>1, <4>2 DEF ReadsBefore
    <3> QED BY <3>1, <3>2
  <2>3. PICK i \in 1 .. E(k) - 1 : i # p /\ v \in BindsOf(list[i]) BY <2>2
  <2> DEFINE j == IF i < p THEN i ELSE i - 1
  <2>4. j \in 1 .. k - 1 /\ E(j) = i /\ j \in 1 .. Len(list) - 1 BY <1>2, <2>1, <2>3
  <2>5. BindsOf(list'[j]) = BindsOf(list[i]) BY <1>3, <1>5, <2>4
  <2> QED BY <2>3, <2>4, <2>5
<1>7. form' = form /\ source' = source /\ rest' = rest BY DEF Fuse, body
<1> QED BY <1>2, <1>6, <1>7 DEF ReadsBefore, ReadsOf, RestOf, SourceOf, BindsOf, Binds

\* Fusing keeps the places of the chains apart, and a glued entry in order.
LEMMA FusionKeepsPlaces ==
  ASSUME TypeOK, ListInv, ReadsBefore, Fuse, phase = "fuse", backEnd = "c"
  PROVE  ListInv'
<1>1. PICK p \in DOMAIN list, q \in DOMAIN list :
        /\ p < q /\ Fusable(p, q)
        /\ list' \in Seq(Seq(Chains)) /\ Len(list') = Len(list) - 1
        /\ \A k \in 1 .. Len(list) - 1 :
             list'[k] = IF k < p THEN list[k]
                        ELSE IF k + 1 = q THEN list[p] \o list[q] ELSE list[k + 1]
  BY FusedList
<1> DEFINE x == Last(list[p])
           E(k) == IF k < p THEN k ELSE k + 1
           glued == list[p] \o list[q]
           \* Where the member i of the new entry k was before.
           Row(k, i) == IF E(k) = q /\ i <= Len(list[p]) THEN p ELSE E(k)
           Col(k, i) == IF E(k) = q /\ i > Len(list[p]) THEN i - Len(list[p]) ELSE i
<1>2. /\ p \in Nat /\ q \in Nat /\ 1 <= p /\ q <= Len(list) /\ Len(list) \in Nat
      /\ DOMAIN list = 1 .. Len(list) /\ DOMAIN list' = 1 .. Len(list) - 1
  BY <1>1, Entries
<1>3. /\ glued # <<>> /\ Len(glued) = Len(list[p]) + Len(list[q])
      /\ \A i \in 1 .. Len(glued) :
           glued[i] = IF i <= Len(list[p]) THEN list[p][i] ELSE list[q][i - Len(list[p])]
  BY <1>1, Entries, Glue
<1>4. /\ \A k \in DOMAIN list : Len(list[k]) \in Nat \ {0} /\ list[k] # <<>>
      /\ x = list[p][Len(list[p])] /\ source[list[q][1]] = x /\ output # x
      /\ form[x] = "variable"
  BY <1>1, Entries, OneReader DEF Fusable
<1> HIDE DEF x, glued
<1>5. ASSUME NEW k \in 1 .. Len(list) - 1
      PROVE  /\ list'[k] = IF E(k) = q THEN glued ELSE list[E(k)]
             /\ E(k) \in DOMAIN list /\ E(k) # p
  <2>1. list'[k] = IF k < p THEN list[k] ELSE IF k + 1 = q THEN glued ELSE list[k + 1]
    BY <1>1 DEF glued
  <2>2. k < p => k # q BY <1>1, <1>2
  <2>3. E(k) \in DOMAIN list /\ E(k) # p BY <1>2
  <2> QED BY <2>1, <2>2, <2>3
<1>6. ASSUME NEW k \in 1 .. Len(list) - 1, NEW i \in 1 .. Len(list'[k])
      PROVE  /\ Row(k, i) \in DOMAIN list /\ Col(k, i) \in 1 .. Len(list[Row(k, i)])
             /\ list'[k][i] = list[Row(k, i)][Col(k, i)]
  <2>1. CASE E(k) = q /\ i <= Len(list[p])
    <3>1. list'[k] = glued /\ Row(k, i) = p /\ Col(k, i) = i BY <1>1, <1>4, <1>5, <2>1
    <3>2. i \in 1 .. Len(list[p]) /\ i \in 1 .. Len(glued) BY <1>1, <1>4, <2>1, <3>1
    <3>3. glued[i] = list[p][i] BY <1>3, <2>1, <3>2
    <3> HIDE DEF Row, Col
    <3> QED BY <1>1, <3>1, <3>2, <3>3
  <2>2. CASE E(k) = q /\ i > Len(list[p])
    <3>0. /\ list'[k] = glued /\ Len(list[p]) \in Nat /\ Len(list[q]) \in Nat
          /\ Row(k, i) = q /\ Col(k, i) = i - Len(list[p])
      BY <1>1, <1>4, <1>5, <2>2, SMTT(40)
    <3>1. /\ i \in Nat /\ i <= Len(list[p]) + Len(list[q]) /\ i \in 1 .. Len(glued)
          /\ ~(i <= Len(list[p]))
      BY <1>3, <2>2, <3>0
    <3>2. i - Len(list[p]) \in 1 .. Len(list[q]) BY <2>2, <3>0, <3>1
    <3>3. glued[i] = list[q][i - Len(list[p])] BY <1>3, <3>1
    <3> HIDE DEF Row, Col
    <3> QED BY <1>1, <3>0, <3>2, <3>3
  <2>3. CASE E(k) # q
    <3>1. /\ list'[k] = list[E(k)] /\ E(k) \in DOMAIN list
          /\ Row(k, i) = E(k) /\ Col(k, i) = i
      BY <1>5, <2>3
    <3> HIDE DEF Row, Col, E
    <3> QED BY <3>1
  <2> QED BY <2>1, <2>2, <2>3, <1>1, <1>4
<1>7. ASSUME NEW k \in DOMAIN list' PROVE list'[k] # <<>>
  <2>1. k \in 1 .. Len(list) - 1 BY <1>2
  <2>2. /\ list'[k] = IF E(k) = q THEN glued ELSE list[E(k)]
        /\ E(k) \in DOMAIN list
    BY <1>5, <2>1
  <2> HIDE DEF E, Row, Col
  <2> QED BY <1>3, <1>4, <2>2
<1>8. ASSUME NEW c \in Chains
      PROVE  \E k \in DOMAIN list' : \E i \in 1 .. Len(list'[k]) : list'[k][i] = c
  <2>0. PICK h \in DOMAIN list : \E i \in 1 .. Len(list[h]) : list[h][i] = c BY DEF ListInv
  <2>1. PICK i \in 1 .. Len(list[h]) : list[h][i] = c BY <2>0
  <2>2. CASE h = p \/ h = q
    <3>1. q - 1 \in 1 .. Len(list) - 1 /\ E(q - 1) = q BY <1>1, <1>2
    <3>2. list'[q - 1] = glued BY <1>5, <3>1
    <3> DEFINE n == IF h = p THEN i ELSE i + Len(list[p])
    <3>3. i \in Nat /\ n \in 1 .. Len(glued) BY <1>1, <1>3, <1>4, <2>1, <2>2
    <3>4. glued[n] = c BY <1>1, <1>3, <1>4, <2>1, <2>2, <3>3
    <3> QED BY <1>2, <3>1, <3>2, <3>3, <3>4
  <2>3. CASE h # p /\ h # q
    <3> DEFINE n == IF h < p THEN h ELSE h - 1
    <3>1. n \in 1 .. Len(list) - 1 /\ E(n) = h BY <1>2, <2>3
    <3>2. list'[n] = list[h] BY <1>5, <2>3, <3>1
    <3> QED BY <1>2, <2>1, <3>1, <3>2
  <2> QED BY <2>2, <2>3
<1>9. ASSUME NEW j \in DOMAIN list', NEW k \in DOMAIN list',
             NEW h \in 1 .. Len(list'[j]), NEW i \in 1 .. Len(list'[k]),
             list'[j][h] = list'[k][i]
      PROVE  j = k /\ h = i
  <2>1. /\ Row(j, h) \in DOMAIN list /\ Col(j, h) \in 1 .. Len(list[Row(j, h)])
        /\ Row(k, i) \in DOMAIN list /\ Col(k, i) \in 1 .. Len(list[Row(k, i)])
        /\ list[Row(j, h)][Col(j, h)] = list[Row(k, i)][Col(k, i)]
    BY <1>2, <1>6, <1>9
  <2>2. Row(j, h) = Row(k, i) /\ Col(j, h) = Col(k, i)
    <3> HIDE DEF Row, Col
    <3> QED BY <2>1 DEF ListInv
  <2>3. j \in Nat /\ k \in Nat /\ E(j) # p /\ E(k) # p BY <1>2, <1>5
  <2>4. Len(list[p]) \in Nat /\ h \in Int /\ i \in Int BY <1>1, <1>4
  <2> QED BY <1>2, <2>2, <2>3, <2>4, SMTT(40)
<1>10. ASSUME NEW k \in DOMAIN list', NEW i \in 1 .. Len(list'[k]) - 1
       PROVE  /\ form[list'[k][i]] = "variable"
              /\ source[list'[k][i + 1]] = list'[k][i]
              /\ output # list'[k][i]
  <2>0. list'[k] \in Seq(Chains) /\ Len(list'[k]) \in Nat /\ i \in Nat BY <1>1
  <2>1. i \in 1 .. Len(list'[k]) /\ i + 1 \in 1 .. Len(list'[k]) BY <2>0
  <2>2. /\ Row(k, i) \in DOMAIN list /\ Col(k, i) \in 1 .. Len(list[Row(k, i)])
        /\ list'[k][i] = list[Row(k, i)][Col(k, i)]
        /\ Row(k, i + 1) \in DOMAIN list
        /\ Col(k, i + 1) \in 1 .. Len(list[Row(k, i + 1)])
        /\ list'[k][i + 1] = list[Row(k, i + 1)][Col(k, i + 1)]
    BY <1>2, <1>6, <2>1
  <2>3. CASE E(k) = q /\ i = Len(list[p])
    <3>1. Row(k, i) = p /\ Col(k, i) = i BY <2>0, <2>3
    <3>2. Row(k, i + 1) = q /\ Col(k, i + 1) = 1 BY <2>0, <2>3
    <3> HIDE DEF Row, Col
    <3> QED BY <1>4, <2>2, <2>3, <3>1, <3>2
  <2>4. CASE ~(E(k) = q /\ i = Len(list[p]))
    <3>1. Row(k, i + 1) = Row(k, i) /\ Col(k, i + 1) = Col(k, i) + 1
      BY <1>1, <1>4, <2>0, <2>4, SMTT(40)
    <3> HIDE DEF Row, Col
    <3>2. Len(list[Row(k, i)]) \in Nat BY <1>4, <2>2
    <3>3. Col(k, i) \in 1 .. Len(list[Row(k, i)]) - 1 BY <2>2, <3>1, <3>2
    <3> QED BY <2>2, <3>1, <3>3 DEF ListInv
  <2> QED BY <2>3, <2>4
<1>11. /\ form' = form /\ source' = source /\ output' = output
       /\ backEnd' = "c" /\ phase' = "fuse"
  BY DEF Fuse, body
<1> HIDE DEF Row, Col, E
<1> QED BY <1>7, <1>8, <1>9, <1>10, <1>11 DEF ListInv
-----------------------------------------------------------------------------
\* The maps in the loop of a range are the chains right behind it.
LEMMA RangeFacts ==
  ASSUME NEW r \in Chains, RangeMaps(r) # {}
  PROVE  /\ backEnd = "ts" /\ kind[r] = "range" /\ output # r
         /\ RangeMaps(r) = {c \in Chains : source[c] = r}
         /\ \A c \in RangeMaps(r) : c \in Chains /\ kind[c] = "map"
         /\ \E n \in Nat \ {0} : /\ RangeMaps(r) = r + 1 .. r + n
                                 /\ r + n <= ChainCount
<1> DEFINE uses == {c \in Chains : source[c] = r}
<1>1. /\ backEnd = "ts" /\ kind[r] = "range" /\ output # r /\ RangeMaps(r) = uses
      /\ uses = r + 1 .. r + Cardinality(uses) /\ \A c \in uses : kind[c] = "map"
  BY DEF RangeMaps
<1>2. r \in Nat /\ ChainCount \in Nat /\ Chains = 1 .. ChainCount
  BY ChainScheduleAssumption DEF Chains
<1>3. Cardinality(uses) \in Nat /\ Cardinality(uses) # 0
  <2>1. IsFiniteSet(Chains) BY <1>2, FS_Interval
  <2>2. IsFiniteSet(uses) BY <2>1, FS_Subset
  <2>3. uses # {} BY <1>1
  <2> HIDE DEF uses
  <2> QED BY <2>2, <2>3, FS_CardinalityType, FS_EmptySet
<1>4. uses \subseteq Chains OBVIOUS
<1>5. r + Cardinality(uses) <= ChainCount
  <2> HIDE DEF uses
  <2>1. r + Cardinality(uses) \in uses BY <1>1, <1>2, <1>3
  <2> QED BY <1>2, <1>3, <1>4, <2>1
<1> QED BY <1>1, <1>3, <1>4, <1>5

\* Without fusion the entries of the list are the chains themselves.
LEMMA PlainList ==
  ASSUME TypeOK, ListInv, phase = "check" \/ backEnd = "ts"
  PROVE  /\ Len(list) = ChainCount /\ DOMAIN list = Chains
         /\ \A k \in Chains : /\ list[k] = <<k>> /\ ReadsOf(list[k]) = Reads(k)
                              /\ BindsOf(list[k]) = Binds(k) /\ Range(list[k]) = {k}
<1>1. list = [c \in Chains |-> <<c>>] BY DEF ListInv
<1>2. DOMAIN list = Chains /\ Len(list) = ChainCount
  BY <1>1, Entries, ChainScheduleAssumption DEF Chains
<1>3. ASSUME NEW k \in Chains
      PROVE  /\ list[k] = <<k>> /\ ReadsOf(list[k]) = Reads(k)
             /\ BindsOf(list[k]) = Binds(k) /\ Range(list[k]) = {k}
  <2>1. list[k] = <<k>> BY <1>1
  <2>2. Range(<<k>>) = {k} BY DEF Range
  <2>3. Head(<<k>>) = k /\ Last(<<k>>) = k BY DEF Last
  <2>4. RestOf(<<k>>) = rest[k] BY <2>2 DEF RestOf
  <2>5. ReadsOf(<<k>>) = Reads(k) BY <2>3, <2>4 DEF ReadsOf, SourceOf, Reads
  <2> QED BY <2>1, <2>2, <2>3, <2>5 DEF BindsOf
<1> QED BY <1>2, <1>3

\* The step is a stretch of the list that starts at `at'.
LEMMA BatchFacts ==
  ASSUME TypeOK, ListInv, at <= Len(list)
  PROVE  \E n \in Nat \ {0} :
           /\ Batch = at .. at + n - 1 /\ Cardinality(Batch) = n
           /\ at + n <= Len(list) + 1
           /\ \/ /\ RangeMaps(at) # {}
                 /\ Batch = {at} \cup RangeMaps(at)
              \/ /\ RangeMaps(at) = {}
                 /\ n > 1 => \A k \in Batch : MayJoin(k)
<1>1. /\ at \in Nat /\ 1 <= at /\ Len(list) \in Nat /\ Len(list) <= ChainCount
      /\ ChainCount \in Nat /\ at \in Chains
  BY ChainScheduleAssumption DEF TypeOK, Chains
<1>2. \A n \in Nat \ {0} : Cardinality(at .. at + n - 1) = n
  BY <1>1, FS_Interval
<1>3. CASE RangeMaps(at) # {}
  <2>1. PICK m \in Nat \ {0} : RangeMaps(at) = at + 1 .. at + m /\ at + m <= ChainCount
    BY <1>1, <1>3, RangeFacts
  <2>2. Len(list) = ChainCount BY <1>1, <1>3, RangeFacts, PlainList
  <2>3. Batch = {at} \cup RangeMaps(at) BY <1>3 DEF Batch
  <2> DEFINE n == m + 1
  <2>4. /\ n \in Nat \ {0} /\ Batch = at .. at + n - 1 /\ at + n <= Len(list) + 1
    BY <1>1, <2>1, <2>2, <2>3
  <2> HIDE DEF n
  <2>5. Cardinality(Batch) = n BY <1>2, <2>4
  <2> QED BY <1>3, <2>3, <2>4, <2>5
<1>4. CASE RangeMaps(at) = {}
  <2> DEFINE T == {k \in at + 1 .. Len(list) + 1 :
                     k = Len(list) + 1 \/ \E j \in at .. k : ~MayJoin(j)}
             run == {k \in at .. Len(list) : \A j \in at .. k : MayJoin(j)}
  <2>1. Batch = {at} \cup run BY <1>4 DEF Batch
  <2>2. T \in SUBSET Nat /\ Len(list) + 1 \in T BY <1>1
  <2>3. PICK m \in T : \A y \in T : m <= y
    <3> HIDE DEF T
    <3> QED BY <2>2, LeastNatural
  <2>4. m \in Nat /\ at < m /\ m <= Len(list) + 1 BY <1>1
  <2>5. \A k \in at + 1 .. m - 1 : \A j \in at .. k : MayJoin(j)
    <3> SUFFICES ASSUME NEW k \in at + 1 .. m - 1 PROVE \A j \in at .. k : MayJoin(j)
      OBVIOUS
    <3>1. k \notin T
      <4> HIDE DEF T
      <4> QED BY <1>1, <2>3, <2>4
    <3>2. k \in at + 1 .. Len(list) + 1 /\ k # Len(list) + 1 BY <1>1, <2>4
    <3> QED BY <3>1, <3>2
  <2>6. ASSUME NEW k \in run PROVE k = at \/ k \in at + 1 .. m - 1
    <3>1. k \in at .. Len(list) /\ \A j \in at .. k : MayJoin(j) OBVIOUS
    <3>2. CASE m <= k
      <4>1. m \in T /\ m # Len(list) + 1 BY <1>1, <2>4, <3>1, <3>2
      <4>2. PICK j \in at .. m : ~MayJoin(j) BY <4>1
      <4>3. j \in at .. k BY <1>1, <2>4, <3>1, <3>2
      <4> QED BY <3>1, <4>2, <4>3
    <3>3. CASE ~(m <= k) BY <1>1, <2>4, <3>1, <3>3
    <3> QED BY <3>2, <3>3
  <2>7. \A k \in at + 1 .. m - 1 : k \in run
    <3> SUFFICES ASSUME NEW k \in at + 1 .. m - 1 PROVE k \in run OBVIOUS
    <3>1. k \in at .. Len(list) BY <1>1, <2>4
    <3> QED BY <2>5, <3>1
  <2> HIDE DEF T, run
  <2>8. Batch = at .. m - 1
    <3>1. \A k \in at .. m - 1 : k = at \/ k \in at + 1 .. m - 1 BY <1>1, <2>4
    <3>2. \A k \in at + 1 .. m - 1 : k \in at .. m - 1 BY <1>1, <2>4
    <3>3. at \in at .. m - 1 BY <1>1, <2>4
    <3>4. \A k \in Batch : k = at \/ k \in at + 1 .. m - 1 BY <2>1, <2>6
    <3>5. at \in Batch /\ \A k \in at + 1 .. m - 1 : k \in Batch BY <2>1, <2>7
    <3> QED BY <3>1, <3>2, <3>3, <3>4, <3>5
  <2> DEFINE n == m - at
  <2>9. n \in Nat \ {0} /\ Batch = at .. at + n - 1 /\ at + n <= Len(list) + 1
    BY <1>1, <2>4, <2>8
  <2>10. n > 1 => \A k \in Batch : MayJoin(k)
    <3> SUFFICES ASSUME n > 1, NEW k \in Batch PROVE MayJoin(k) OBVIOUS
    <3>1. m - 1 \in at + 1 .. m - 1 /\ k \in at .. m - 1 BY <1>1, <2>4, <2>8
    <3> QED BY <2>5, <3>1
  <2> HIDE DEF n
  <2>11. Cardinality(Batch) = n BY <1>2, <2>9
  <2> QED BY <1>4, <2>9, <2>10, <2>11
<1> QED BY <1>3, <1>4

\* What a step reads is bound when it starts: no chain of a batch reads what
\* the batch binds, a loop's variable apart.  Only a mention of a range that
\* has become a loop finds nothing.
LEMMA StepReads ==
  ASSUME TypeOK, ListInv, EmitInv, Ordered, ReadsBefore, at <= Len(list),
         ~MentionsLoopVariable
  PROVE  \A k \in Batch : ReadsOf(list[k]) \subseteq env \cup LoopVariable
<1>1. PICK n \in Nat \ {0} :
        /\ Batch = at .. at + n - 1 /\ at + n <= Len(list) + 1
        /\ \/ /\ RangeMaps(at) # {}
              /\ Batch = {at} \cup RangeMaps(at)
           \/ /\ RangeMaps(at) = {}
              /\ n > 1 => \A k \in Batch : MayJoin(k)
  BY BatchFacts
<1>2. /\ at \in Nat /\ 1 <= at /\ Len(list) \in Nat /\ Len(list) <= ChainCount
      /\ ChainCount \in Nat /\ at \in Chains /\ Chains = 1 .. ChainCount
      /\ Batch \subseteq Chains /\ DOMAIN list = 1 .. Len(list)
  BY <1>1, ChainScheduleAssumption, Entries, SMTT(40) DEF TypeOK, Chains
<1>3. \A c \in Chains : \A v \in Binds(c) : v \in Variables /\ BinderOf(v) = c
  BY OneBinder DEF TypeOK
<1>4. env = {v \in Variables : \E j \in 1 .. at - 1 : v \in BindsOf(list[j])}
              \ {r \in 1 .. at - 1 : RangeMaps(r) # {}}
  BY DEF EmitInv
<1> SUFFICES ASSUME NEW k \in Batch, NEW v \in ReadsOf(list[k])
             PROVE  v \in env \cup LoopVariable
  OBVIOUS
<1>5. k \in Nat /\ at <= k /\ k <= Len(list) /\ k \in DOMAIN list BY <1>1, <1>2
<1>6. CASE backEnd = "c"
  <2>1. \A r \in Chains : RangeMaps(r) = {} BY <1>6, RangeFacts
  <2>2. CASE k = at
    <3>1. PICK j \in 1 .. k - 1 : v \in BindsOf(list[j]) BY <1>5 DEF ReadsBefore
    <3>2. j \in DOMAIN list /\ j \in Chains BY <1>2, <1>5
    <3>3. v \in Variables BY <3>1, <3>2, Entries
    <3>4. \A r \in 1 .. at - 1 : RangeMaps(r) = {} BY <1>2, <2>1
    <3> QED BY <1>4, <2>2, <3>1, <3>3, <3>4
  <2>3. CASE k # at
    <3>1. n > 1 /\ RangeMaps(at) = {} BY <1>1, <1>2, <1>5, <2>1, <2>3
    <3>2. Joins(k) BY <1>1, <1>6, <3>1 DEF MayJoin
    <3> QED BY <3>2 DEF Joins
  <2> QED BY <2>2, <2>3
<1>7. CASE backEnd = "ts"
  <2>0. /\ Len(list) = ChainCount
        /\ \A c \in Chains : /\ list[c] = <<c>> /\ ReadsOf(list[c]) = Reads(c)
                             /\ BindsOf(list[c]) = Binds(c)
    BY <1>7, PlainList
  <2>1. k \in Chains /\ v \in Reads(k) BY <1>2, <1>5, <2>0
  \* What is bound before the step is in scope.
  <2>2. ASSUME NEW c \in Batch, v \in Reads(c), NEW d \in 1 .. at - 1, v \in Binds(d)
        PROVE  v \in env
    <3>1. d \in Chains /\ c \in Chains /\ c \in Nat /\ at <= c BY <1>1, <1>2
    <3>2. v \in Variables /\ BinderOf(v) = d BY <1>3, <2>2, <3>1
    <3>3. v \in BindsOf(list[d]) BY <2>0, <2>2, <3>1
    <3>4. ASSUME NEW r \in 1 .. at - 1, RangeMaps(r) # {}, v = r PROVE FALSE
      <4>1. r \in Chains /\ r < at BY <1>2
      <4>2. r \notin rest[c] BY <3>1, <3>4, <4>1 DEF MentionsLoopVariable
      <4>3. source[c] = r BY <2>2, <3>4, <4>2 DEF Reads
      <4>4. c \in RangeMaps(r) BY <3>1, <3>4, <4>1, <4>3, RangeFacts
      <4>5. c \in 1 .. at - 1 BY <4>1, <4>4 DEF EmitInv
      <4> QED BY <1>2, <3>1, <4>5
    <3> QED BY <1>4, <3>2, <3>3, <3>4
  \* A chain reads what chains before it bind.
  <2>3. ASSUME NEW c \in Batch, v \in Reads(c)
        PROVE  \E d \in 1 .. c - 1 : v \in Binds(d)
    BY <1>2, <2>3 DEF Ordered
  <2>4. PICK d \in 1 .. k - 1 : v \in Binds(d) BY <2>1, <2>3
  <2>5. CASE d < at BY <1>2, <2>1, <2>2, <2>4, <2>5
  <2>6. CASE ~(d < at)
    <3>1. at < k /\ n > 1 /\ d \in Chains /\ d \in at .. k - 1 BY <1>1, <1>2, <1>5, <2>4, <2>6
    <3>2. at \in Batch BY <1>1, <1>2
    <3>3. v \notin Reads(at)
      <4> SUFFICES ASSUME v \in Reads(at) PROVE FALSE OBVIOUS
      <4>1. PICK e \in 1 .. at - 1 : v \in Binds(e) BY <2>3, <3>2
      <4>2. e \in Chains /\ e < at BY <1>2
      <4> QED BY <1>2, <1>3, <2>4, <2>6, <3>1, <4>1, <4>2
    <3>4. kind[k] = "map" => rest[k] = {} BY <2>1 DEF TypeOK, Bodies, KindsFit
    <3>5. CASE RangeMaps(at) # {}
      <4>1. k \in RangeMaps(at) BY <1>1, <1>5, <3>1, <3>5
      <4>2. kind[k] = "map" /\ source[k] = at BY <1>2, <3>5, <4>1, RangeFacts
      <4> QED BY <2>1, <3>4, <3>5, <4>2 DEF Reads, LoopVariable
    <3>6. CASE RangeMaps(at) = {}
      <4>1. JoinsTs(k) BY <1>1, <1>7, <3>1, <3>6 DEF MayJoin
      <4>2. v \in Produced(k) BY <2>4, <3>1 DEF Produced
      <4>3. JoinsWorker(k) \/ JoinsMap(k)
        BY <2>1, <4>1, <4>2 DEF JoinsTs, JoinsAsync, JoinsReduce
      <4> QED BY <2>1, <3>3, <3>4, <4>3 DEF JoinsWorker, JoinsMap, Reads
    <3> QED BY <3>5, <3>6
  <2> QED BY <1>2, <2>4, <2>5, <2>6
<1> QED BY <1>6, <1>7 DEF TypeOK, Bodies

\* The kinds of the chains in a step: none of a longer step is dropped, and no
\* chain but the first has a loop of its own.
LEMMA StepKinds ==
  ASSUME TypeOK, ListInv, at <= Len(list), backEnd = "ts"
  PROVE  /\ \A k \in Batch : k # at => ~Dropped(k) /\ RangeMaps(k) = {}
         /\ Dropped(at) => Batch = {at}
         /\ kind[at] \in {"async", "worker"} => \A k \in Batch : ~Dropped(k)
         /\ Dropped(at) => RangeMaps(at) = {}
<1>1. PICK n \in Nat \ {0} :
        /\ Batch = at .. at + n - 1 /\ at + n <= Len(list) + 1
        /\ \/ /\ RangeMaps(at) # {}
              /\ Batch = {at} \cup RangeMaps(at)
           \/ /\ RangeMaps(at) = {}
              /\ n > 1 => \A k \in Batch : MayJoin(k)
  BY BatchFacts
<1>2. /\ at \in Nat /\ 1 <= at /\ Len(list) \in Nat /\ Len(list) <= ChainCount
      /\ ChainCount \in Nat /\ at \in Chains /\ Chains = 1 .. ChainCount
      /\ Batch \subseteq Chains
  BY <1>1, ChainScheduleAssumption, Entries, SMTT(40) DEF TypeOK, Chains
<1>3. \A k \in Chains : RangeMaps(k) # {} => kind[k] = "range" BY RangeFacts
<1>4. \A k \in Chains : Dropped(k) => kind[k] = "short" BY DEF Dropped
<1>5. CASE RangeMaps(at) # {}
  <2>1. kind[at] = "range" BY <1>2, <1>5, RangeFacts
  <2>2. \A k \in Batch : k # at => kind[k] = "map" BY <1>1, <1>2, <1>5, RangeFacts
  <2> QED BY <1>2, <1>3, <1>4, <1>5, <2>1, <2>2
<1>6. CASE RangeMaps(at) = {}
  <2>1. CASE n = 1
    <3>1. Batch = {at} BY <1>1, <1>2, <2>1
    <3> QED BY <1>2, <1>4, <1>6, <3>1
  <2>2. CASE n > 1
    <3>1. \A k \in Batch : kind[k] \in {"async", "reduce", "worker", "map"}
      BY <1>1, <1>6, <2>2 DEF MayJoin, JoinsTs, JoinsAsync, JoinsReduce, JoinsWorker, JoinsMap
    <3>2. at \in Batch BY <1>1, <1>2
    <3> QED BY <1>2, <1>3, <1>4, <1>6, <3>1, <3>2
  <2> QED BY <2>1, <2>2
<1> QED BY <1>5, <1>6

\* What a chain reads is bound before the step or earlier in its task.
ReadsMet(T) ==
  \A k \in Chains : \A i \in 1 .. Len(T[k]) : \A v \in Reads(T[k][i]) :
    \/ v \notin LoopVariable /\ \E e \in Batch : v \in ReadsOf(list[e])
    \/ \E m \in 1 .. i - 1 : v \in Binds(T[k][m])

\* What the tasks T of a step owe: each chain of the step in one place, unless
\* dropped, and what it reads before it.
TasksFit(T) ==
  /\ ReadsMet(T)
  /\ T \in [Chains -> Seq(Chains)]
  /\ \A j, k \in Chains : \A h \in 1 .. Len(T[j]), i \in 1 .. Len(T[k]) :
       T[j][h] = T[k][i] => j = k /\ h = i
  /\ \A k \in Chains : \A i \in 1 .. Len(T[k]) :
       /\ ~Dropped(T[k][i])
       /\ \E e \in Batch : T[k][i] \in Range(list[e])
  /\ \A e \in Batch : \A c \in Range(list[e]) :
       Dropped(c) \/ \E k \in Chains : \E i \in 1 .. Len(T[k]) : T[k][i] = c

LEMMA OwnTasksFit ==
  ASSUME TypeOK, ListInv, at <= Len(list), backEnd = "c" \/ kind[at] \in {"async", "worker"}
  PROVE  TasksFit(OwnTasks)
<1> DEFINE T == OwnTasks
<1>1. /\ Batch \subseteq DOMAIN list /\ DOMAIN list = 1 .. Len(list)
      /\ DOMAIN list \subseteq Chains
  <2>1. PICK n \in Nat \ {0} : Batch = at .. at + n - 1 /\ at + n <= Len(list) + 1
    BY BatchFacts
  <2>2. /\ DOMAIN list = 1 .. Len(list) /\ Len(list) \in Nat /\ Len(list) <= ChainCount
        /\ ChainCount \in Nat /\ at \in Nat /\ 1 <= at
    BY Entries, ChainScheduleAssumption DEF TypeOK
  <2> QED BY <2>1, <2>2 DEF Chains
<1>2. \A k \in DOMAIN list : /\ list[k] \in Seq(Chains) /\ Len(list[k]) \in Nat \ {0}
                             /\ SourceOf(list[k]) = source[list[k][1]]
  BY Entries
<1>3. \A k \in Chains : T[k] = IF k \in Batch THEN list[k] ELSE <<>> BY DEF OwnTasks
<1>4. T \in [Chains -> Seq(Chains)]
  <2>1. \A k \in Chains : (IF k \in Batch THEN list[k] ELSE <<>>) \in Seq(Chains)
    BY <1>1, <1>2
  <2> QED BY <2>1 DEF OwnTasks
<1> HIDE DEF T
<1>5. \A k \in Chains : \A i \in 1 .. Len(T[k]) :
        k \in Batch /\ k \in DOMAIN list /\ T[k] = list[k]
  BY <1>1, <1>3
<1>6. \A j, k \in Chains : \A h \in 1 .. Len(T[j]), i \in 1 .. Len(T[k]) :
        T[j][h] = T[k][i] => j = k /\ h = i
  <2> SUFFICES ASSUME NEW j \in Chains, NEW k \in Chains, NEW h \in 1 .. Len(T[j]),
                      NEW i \in 1 .. Len(T[k]), T[j][h] = T[k][i]
               PROVE  j = k /\ h = i
    OBVIOUS
  <2>1. j \in DOMAIN list /\ k \in DOMAIN list /\ T[j] = list[j] /\ T[k] = list[k] BY <1>5
  <2> QED BY <2>1 DEF ListInv
<1>7. LoopVariable = {}
  <2>1. at \in Chains
    <3>1. at \in 1 .. Len(list) + 1 /\ Len(list) \in Nat BY Entries DEF TypeOK
    <3> QED BY <1>1, <3>1
  <2> QED BY <2>1, RangeFacts DEF LoopVariable
<1>8. ASSUME NEW k \in Chains, NEW i \in 1 .. Len(T[k])
      PROVE  /\ ~Dropped(T[k][i])
             /\ \E e \in Batch : T[k][i] \in Range(list[e])
             /\ \A v \in Reads(T[k][i]) :
                  \/ v \notin LoopVariable /\ \E e \in Batch : v \in ReadsOf(list[e])
                  \/ \E m \in 1 .. i - 1 : v \in Binds(T[k][m])
  <2>1. k \in Batch /\ k \in DOMAIN list /\ T[k] = list[k] /\ i \in Nat BY <1>5
  <2>2. T[k][i] \in Range(list[k]) BY <1>2, <2>1 DEF Range
  <2>3. ~Dropped(T[k][i])
    <3>1. CASE backEnd = "c" BY <3>1 DEF Dropped
    <3>2. CASE backEnd # "c"
      <4>1. backEnd = "ts" BY <3>2 DEF TypeOK, Bodies
      <4>2. Range(list[k]) = {k} BY <2>1, <4>1, PlainList
      <4>3. ~Dropped(k) BY <2>1, <3>2, <4>1, StepKinds
      <4> QED BY <2>2, <4>2, <4>3
    <3> QED BY <3>1, <3>2
  <2>4. ASSUME NEW v \in Reads(T[k][i])
        PROVE  \/ v \in ReadsOf(list[k])
               \/ \E m \in 1 .. i - 1 : v \in Binds(T[k][m])
    <3>1. CASE v \in rest[T[k][i]] BY <2>2, <3>1 DEF ReadsOf, RestOf
    <3>2. CASE v = source[T[k][i]] /\ v # NoVariable /\ i = 1
      BY <1>2, <2>1, <3>2 DEF ReadsOf
    <3>3. CASE v = source[T[k][i]] /\ i # 1
      <4>1. i - 1 \in 1 .. Len(list[k]) - 1 /\ (i - 1) + 1 = i /\ i - 1 \in 1 .. i - 1
            /\ i - 1 \in 1 .. Len(list[k])
        BY <1>2, <2>1, <3>3
      <4>2. form[list[k][i - 1]] = "variable" /\ source[list[k][i]] = list[k][i - 1]
        BY <2>1, <4>1 DEF ListInv
      <4>3. list[k][i - 1] \in Chains BY <1>2, <2>1, <4>1
      <4>4. Binds(list[k][i - 1]) = {list[k][i - 1]} BY <4>2, <4>3, OneBinder DEF TypeOK
      <4> QED BY <2>1, <3>3, <4>1, <4>2, <4>4
    <3> QED BY <3>1, <3>2, <3>3 DEF Reads
  <2> QED BY <1>7, <2>1, <2>2, <2>3, <2>4
<1>9. ASSUME NEW e \in Batch, NEW c \in Range(list[e])
      PROVE  \E k \in Chains : \E i \in 1 .. Len(T[k]) : T[k][i] = c
  <2>1. e \in Chains /\ e \in DOMAIN list /\ T[e] = list[e] BY <1>1, <1>3
  <2>2. \E i \in 1 .. Len(list[e]) : list[e][i] = c BY <1>2, <2>1 DEF Range
  <2> QED BY <2>1, <2>2
<1>10. ReadsMet(T)
  <2> SUFFICES ASSUME NEW k \in Chains, NEW i \in 1 .. Len(T[k]), NEW v \in Reads(T[k][i])
               PROVE  \/ v \notin LoopVariable /\ \E e \in Batch : v \in ReadsOf(list[e])
                      \/ \E m \in 1 .. i - 1 : v \in Binds(T[k][m])
    BY DEF ReadsMet
  <2> QED BY <1>8
<1>11. TasksFit(T) BY <1>4, <1>6, <1>8, <1>9, <1>10 DEF TasksFit
<1> QED BY <1>11 DEF T

LEMMA LoopTasksFit ==
  ASSUME TypeOK, ListInv, Ordered, at <= Len(list), backEnd = "ts"
  PROVE  TasksFit(LoopTasks)
<1> DEFINE T == LoopTasks
<1>1. PICK n \in Nat \ {0} :
        Batch = at .. at + n - 1 /\ Cardinality(Batch) = n /\ at + n <= Len(list) + 1
  BY BatchFacts
<1>2. /\ at \in Nat /\ 1 <= at /\ Len(list) = ChainCount /\ ChainCount \in Nat
      /\ at \in Chains /\ at \in Batch /\ Batch \subseteq Chains
      /\ \A k \in Chains : ReadsOf(list[k]) = Reads(k) /\ Range(list[k]) = {k}
  <2>1. /\ Len(list) = ChainCount /\ DOMAIN list = Chains
        /\ \A k \in Chains : ReadsOf(list[k]) = Reads(k) /\ Range(list[k]) = {k}
    BY PlainList
  <2>2. at \in Nat /\ 1 <= at /\ ChainCount \in Nat
    BY <2>1, ChainScheduleAssumption DEF TypeOK
  <2> QED BY <1>1, <2>1, <2>2 DEF Chains
<1> DEFINE loop == [i \in 1 .. n |-> at + i - 1]
<1>3. loop \in Seq(Chains) /\ Len(loop) = n /\ \A i \in 1 .. n : loop[i] = at + i - 1
  <2>1. \A i \in 1 .. n : at + i - 1 \in Chains BY <1>1, <1>2
  <2> QED BY <2>1
<1>4. \A k \in Chains : T[k] = IF k = at /\ ~Dropped(at) THEN loop ELSE <<>>
  BY <1>1 DEF LoopTasks
<1> HIDE DEF loop
<1>5. T \in [Chains -> Seq(Chains)]
  <2>1. T = [k \in Chains |-> IF k = at /\ ~Dropped(at) THEN loop ELSE <<>>]
    BY <1>1 DEF LoopTasks, loop
  <2>2. <<>> \in Seq(Chains) OBVIOUS
  <2> HIDE DEF T
  <2> QED BY <1>3, <2>1, <2>2
<1> HIDE DEF T
<1>6. \A k \in Chains : \A i \in 1 .. Len(T[k]) :
        /\ k = at /\ ~Dropped(at) /\ T[k] = loop /\ i \in 1 .. n
        /\ T[k][i] = at + i - 1
  BY <1>3, <1>4
<1>7. \A j, k \in Chains : \A h \in 1 .. Len(T[j]), i \in 1 .. Len(T[k]) :
        T[j][h] = T[k][i] => j = k /\ h = i
  <2> SUFFICES ASSUME NEW j \in Chains, NEW k \in Chains, NEW h \in 1 .. Len(T[j]),
                      NEW i \in 1 .. Len(T[k]), T[j][h] = T[k][i]
               PROVE  j = k /\ h = i
    OBVIOUS
  <2>1. j = at /\ k = at /\ h \in 1 .. n /\ i \in 1 .. n /\ at + h - 1 = at + i - 1 BY <1>6
  <2> QED BY <1>2, <2>1
<1>8. ASSUME NEW k \in Chains, NEW i \in 1 .. Len(T[k])
      PROVE  /\ ~Dropped(T[k][i])
             /\ \E e \in Batch : T[k][i] \in Range(list[e])
             /\ \A v \in Reads(T[k][i]) :
                  \/ v \notin LoopVariable /\ \E e \in Batch : v \in ReadsOf(list[e])
                  \/ \E m \in 1 .. i - 1 : v \in Binds(T[k][m])
  <2> DEFINE c == at + i - 1
  <2>1. /\ k = at /\ ~Dropped(at) /\ T[k] = loop /\ i \in 1 .. n /\ T[k][i] = c
        /\ c \in Batch
    BY <1>1, <1>2, <1>6
  <2>2. ~Dropped(c) BY <2>1, StepKinds
  <2>3. ASSUME NEW v \in Reads(c), v \in LoopVariable
        PROVE  \E m \in 1 .. i - 1 : v \in Binds(T[k][m])
    <3>1. v = at /\ RangeMaps(at) # {} BY <2>3 DEF LoopVariable
    <3>2. kind[at] = "range" BY <1>2, <3>1, RangeFacts
    <3>3. form[at] = "variable" BY <1>2, <3>2 DEF TypeOK, Bodies, KindsFit
    <3>4. Binds(at) = {at} /\ BinderOf(at) = at BY <1>2, <3>3, OneBinder DEF TypeOK
    <3>5. i # 1
      <4> SUFFICES ASSUME i = 1 PROVE FALSE OBVIOUS
      <4>1. at \in Reads(at) BY <1>2, <2>3, <3>1
      <4>2. PICK d \in 1 .. at - 1 : at \in Binds(d) BY <1>2, <4>1 DEF Ordered
      <4>3. d \in Chains /\ d # at BY <1>2, ChainScheduleAssumption DEF Chains
      <4> QED BY <3>4, <4>2, <4>3, OneBinder DEF TypeOK
    <3>6. 1 \in 1 .. i - 1 /\ loop[1] = at BY <1>2, <1>3, <2>1, <3>5
    <3> QED BY <2>1, <3>1, <3>4, <3>6
  <2>4. c \in Chains /\ Range(list[c]) = {c} /\ ReadsOf(list[c]) = Reads(c)
    BY <1>2, <2>1
  <2> HIDE DEF c
  <2> QED BY <2>1, <2>2, <2>3, <2>4
<1>9. ASSUME NEW e \in Batch, NEW c \in Range(list[e]), ~Dropped(c)
      PROVE  \E k \in Chains : \E i \in 1 .. Len(T[k]) : T[k][i] = c
  <2>1. c = e BY <1>2
  <2>2. ~Dropped(at) BY <1>9, <2>1, StepKinds
  <2>3. T[at] = loop BY <1>2, <1>4, <2>2
  <2> DEFINE i == c - at + 1
  <2>4. i \in 1 .. n /\ at + i - 1 = c BY <1>1, <1>2, <2>1
  <2> HIDE DEF i
  <2> QED BY <1>2, <1>3, <2>3, <2>4
<1>10. ReadsMet(T)
  <2> SUFFICES ASSUME NEW k \in Chains, NEW i \in 1 .. Len(T[k]), NEW v \in Reads(T[k][i])
               PROVE  \/ v \notin LoopVariable /\ \E e \in Batch : v \in ReadsOf(list[e])
                      \/ \E m \in 1 .. i - 1 : v \in Binds(T[k][m])
    BY DEF ReadsMet
  <2> QED BY <1>8
<1>11. TasksFit(T) BY <1>5, <1>7, <1>8, <1>9, <1>10 DEF TasksFit
<1> QED BY <1>11 DEF T

LEMMA TaskFacts ==
  ASSUME TypeOK, ListInv, Ordered, at <= Len(list)
  PROVE  TasksFit(Tasks)
<1>1. backEnd \in {"c", "ts"} BY DEF TypeOK, Bodies
<1>2. CASE backEnd = "c" \/ kind[at] \in {"async", "worker"}
  BY <1>2, OwnTasksFit DEF Tasks
<1>3. CASE ~(backEnd = "c" \/ kind[at] \in {"async", "worker"})
  BY <1>1, <1>3, LoopTasksFit DEF Tasks
<1> QED BY <1>2, <1>3
-----------------------------------------------------------------------------
\* No action changes the body, nor what is said of it alone.
LEMMA BodyFrame ==
  ASSUME UNCHANGED body
  PROVE  /\ \A c : Binds(c)' = Binds(c) /\ Reads(c)' = Reads(c)
         /\ \A c : Dropped(c)' = Dropped(c)
         /\ \A t : /\ ReadsOf(t)' = ReadsOf(t) /\ BindsOf(t)' = BindsOf(t)
         /\ \A r : RangeMaps(r)' = RangeMaps(r)
         /\ Bodies' = Bodies /\ Ordered' = Ordered
         /\ MentionsLoopVariable' = MentionsLoopVariable
<1>1. /\ backEnd' = backEnd /\ kind' = kind /\ form' = form /\ source' = source
      /\ rest' = rest /\ unsafe' = unsafe /\ output' = output
  BY DEF body
<1>2. \A c : Binds(c)' = Binds(c) /\ Reads(c)' = Reads(c) BY <1>1 DEF Binds, Reads
<1>3. \A c : Dropped(c)' = Dropped(c) BY <1>1 DEF Dropped
<1>4. \A t : ReadsOf(t)' = ReadsOf(t) /\ BindsOf(t)' = BindsOf(t)
  <2>1. \A t : RestOf(t)' = RestOf(t) BY <1>1 DEF RestOf
  <2>2. \A t : SourceOf(t)' = SourceOf(t) BY <1>1 DEF SourceOf
  <2>3. \A t : ReadsOf(t)' = ReadsOf(t) BY <2>1, <2>2 DEF ReadsOf
  <2>4. \A t : BindsOf(t)' = BindsOf(t) BY <1>1 DEF BindsOf, Binds
  <2> QED BY <2>3, <2>4
<1>5. \A r : RangeMaps(r)' = RangeMaps(r) BY <1>1 DEF RangeMaps
<1>6. Bodies' = Bodies BY <1>1, <1>2 DEF Bodies, KindsFit
<1>7. Ordered' = Ordered BY <1>2 DEF Ordered
<1>8. MentionsLoopVariable' = MentionsLoopVariable BY <1>1, <1>5 DEF MentionsLoopVariable
<1> QED BY <1>2, <1>3, <1>4, <1>5, <1>6, <1>7, <1>8

\* Nor what is said of the list, while the list stays.
LEMMA ListFrame ==
  ASSUME UNCHANGED <<body, list>>, phase' = "check" => phase = "check"
  PROVE  /\ ReadsBefore' = ReadsBefore
         /\ ListInv => ListInv'
<1>1. list' = list /\ UNCHANGED body OBVIOUS
<1>2. ReadsBefore' = ReadsBefore BY <1>1, BodyFrame DEF ReadsBefore
<1>3. /\ backEnd' = backEnd /\ form' = form /\ source' = source /\ output' = output
  BY DEF body
<1>4. ASSUME ListInv PROVE ListInv'
  <2>1. /\ \A k \in DOMAIN list' : list'[k] # <<>>
        /\ \A c \in Chains : \E k \in DOMAIN list' : \E i \in 1 .. Len(list'[k]) :
             list'[k][i] = c
    BY <1>1, <1>4 DEF ListInv
  <2>2. \A j, k \in DOMAIN list' : \A h \in 1 .. Len(list'[j]), i \in 1 .. Len(list'[k]) :
          list'[j][h] = list'[k][i] => j = k /\ h = i
    BY <1>1, <1>4 DEF ListInv
  <2>3. \A k \in DOMAIN list' : \A i \in 1 .. Len(list'[k]) - 1 :
          /\ form'[list'[k][i]] = "variable"
          /\ source'[list'[k][i + 1]] = list'[k][i]
          /\ output' # list'[k][i]
    BY <1>1, <1>3, <1>4 DEF ListInv
  <2>4. phase' = "check" \/ backEnd' = "ts" => list' = [c \in Chains |-> <<c>>]
    BY <1>1, <1>3, <1>4 DEF ListInv
  <2> QED BY <2>1, <2>2, <2>3, <2>4 DEF ListInv
<1> QED BY <1>2, <1>4

\* Nor what is said of a step, while it lasts.
LEMMA StepFrame ==
  ASSUME UNCHANGED <<body, list, at, env>>
  PROVE  /\ Batch' = Batch /\ LoopVariable' = LoopVariable /\ Tasks' = Tasks
         /\ EmitInv' = EmitInv
<1>1. /\ list' = list /\ UNCHANGED body /\ at' = at /\ env' = env /\ backEnd' = backEnd
      /\ kind' = kind /\ form' = form /\ source' = source /\ rest' = rest
      /\ unsafe' = unsafe
  BY DEF body
<1>2. RangeMaps(at)' = RangeMaps(at)
  <2>1. \A r : RangeMaps(r)' = RangeMaps(r) BY <1>1, BodyFrame
  <2> QED BY <1>1, <2>1
<1>3. LoopVariable' = LoopVariable BY <1>1, <1>2 DEF LoopVariable
<1>4. \A k : Joins(k)' = Joins(k)
  <2>1. \A t : ReadsOf(t)' = ReadsOf(t) /\ BindsOf(t)' = BindsOf(t) BY <1>1, BodyFrame
  <2> QED BY <1>1, <2>1 DEF Joins
<1>5. \A k : JoinsTs(k)' = JoinsTs(k)
  <2>1. \A c : Binds(c)' = Binds(c) /\ Reads(c)' = Reads(c) BY <1>1, BodyFrame
  <2>2. \A k : Produced(k)' = Produced(k) BY <1>1, <2>1 DEF Produced
  <2> QED BY <1>1, <2>1, <2>2 DEF JoinsTs, JoinsAsync, JoinsReduce, JoinsWorker, JoinsMap
<1>6. \A k : MayJoin(k)' = MayJoin(k) BY <1>1, <1>4, <1>5 DEF MayJoin
<1>7. Batch' = Batch BY <1>1, <1>2, <1>6 DEF Batch
<1>8. Tasks' = Tasks
  <2>1. Dropped(at)' = Dropped(at) BY <1>1 DEF Dropped
  <2>2. OwnTasks' = OwnTasks BY <1>1, <1>7 DEF OwnTasks
  <2>3. LoopTasks' = LoopTasks BY <1>1, <1>7, <2>1 DEF LoopTasks
  <2> QED BY <1>1, <2>2, <2>3 DEF Tasks
<1>9. EmitInv' = EmitInv
  <2>1. \A r : RangeMaps(r)' = RangeMaps(r) BY <1>1, BodyFrame
  <2>2. \A t : BindsOf(t)' = BindsOf(t) BY <1>1, BodyFrame
  <2> QED BY <1>1, <2>1, <2>2 DEF EmitInv
<1> QED BY <1>3, <1>7, <1>8, <1>9
-----------------------------------------------------------------------------
Phases == {"check", "fuse", "emit", "run", "done", "rejected", "failed"}

LEMMA InitInv == Init => IInv
<1> SUFFICES ASSUME Init PROVE IInv OBVIOUS
<1>1. ChainCount \in Nat \ {0} /\ Chains = 1 .. ChainCount
  BY ChainScheduleAssumption DEF Chains
<1>2. Bodies
  <2>1. rest \in [Chains -> SUBSET Variables] BY DEF Init, Rests
  <2>2. source \in [Chains -> Variables \cup {NoVariable}] BY DEF Init, Sources
  <2>3. kind \in [Chains -> Kinds]
    <3>1. [c \in Chains |-> "plain"] \in [Chains -> Kinds] BY DEF Kinds
    <3>2. kind \in KindPatterns \/ kind = [c \in Chains |-> "plain"]
      BY DEF Init, KindsFit
    <3> QED BY <3>1, <3>2, ChainScheduleAssumption
  <2>4. \E c \in Chains : output \in Binds(c) BY DEF Init
  <2>5. unsafe \subseteq Chains BY DEF Init
  <2> QED BY <2>1, <2>2, <2>3, <2>4, <2>5 DEF Init, Bodies
<1>3. /\ list = [c \in Chains |-> <<c>>] /\ phase = "check" /\ at = 1 /\ env = {}
      /\ running = [c \in Chains |-> <<>>] /\ times = [c \in Chains |-> 0]
  BY DEF Init
<1>4. list \in Seq(Seq(Chains)) /\ Len(list) = ChainCount /\ DOMAIN list = Chains
  BY <1>1, <1>3
<1>5. TypeOK
  <2>1. running \in [Chains -> Seq(Chains)] /\ times \in [Chains -> Nat] BY <1>3
  <2> QED BY <1>1, <1>2, <1>3, <1>4, <2>1 DEF TypeOK
<1>6. ListInv
  <2>1. \A k \in DOMAIN list : list[k] = <<k>> /\ Len(list[k]) = 1 /\ list[k][1] = k
    BY <1>3, <1>4
  <2> QED BY <1>3, <1>4, <2>1 DEF ListInv
<1>7. EmitInv BY <1>1, <1>3 DEF EmitInv
<1>8. StepInv
  <2>1. \A c : ~Started(c) BY <1>3 DEF Started, InStep
  <2> QED BY <1>3, <2>1 DEF StepInv
<1> QED BY <1>3, <1>5, <1>6, <1>7, <1>8 DEF IInv, AcceptedBodiesCompile

\* A change of phase between the steps leaves everything else as it is.
LEMMA PhaseChange ==
  ASSUME TypeOK, ListInv, EmitInv, StepInv, phase # "run",
         UNCHANGED <<body, list, at, env, running, times>>,
         phase' \in Phases \ {"check", "run"}
  PROVE  TypeOK' /\ ListInv' /\ EmitInv' /\ StepInv' /\ ReadsBefore' = ReadsBefore
<1>1. UNCHANGED body /\ UNCHANGED <<body, list>> /\ UNCHANGED <<body, list, at, env>>
  OBVIOUS
<1>2. Bodies' = Bodies BY <1>1, BodyFrame
<1>3. TypeOK' BY <1>2 DEF TypeOK, Phases
<1>4. ListInv' /\ ReadsBefore' = ReadsBefore BY <1>1, ListFrame
<1>5. EmitInv' BY <1>1, StepFrame
<1>6. StepInv'
  <2>1. \A c : Started(c)' = Started(c) BY DEF Started, InStep
  <2>2. \A c : Pending(c)' = Pending(c) BY DEF Pending
  <2>3. \A c : Dropped(c)' = Dropped(c) BY <1>1, BodyFrame
  <2> QED BY <2>1, <2>2, <2>3 DEF StepInv
<1> QED BY <1>3, <1>4, <1>5, <1>6

LEMMA CheckInv == IInv /\ Check => IInv'
<1> SUFFICES ASSUME IInv, Check PROVE IInv' OBVIOUS
<1>1. TypeOK /\ ListInv /\ EmitInv /\ StepInv /\ at = 1 /\ phase = "check"
  BY DEF IInv, Check
<1>2. /\ UNCHANGED <<body, list, at, env, running, times>>
      /\ phase' \in {"fuse", "emit", "rejected"}
      /\ phase' \in {"fuse", "emit"} => Ordered
      /\ phase' = "fuse" => backEnd = "c"
  BY DEF Check, Ordered
<1>3. TypeOK' /\ ListInv' /\ EmitInv' /\ StepInv' /\ ReadsBefore' = ReadsBefore
  BY <1>1, <1>2, PhaseChange DEF Phases
<1>4. Ordered' = Ordered /\ backEnd' = backEnd BY <1>2, BodyFrame DEF body
<1>5. ASSUME Ordered PROVE ReadsBefore
  <2>1. ChainCount \in Nat /\ DOMAIN list = Chains /\ Chains = 1 .. ChainCount
    BY <1>1, PlainList, ChainScheduleAssumption DEF Chains
  <2>2. \A k \in Chains : ReadsOf(list[k]) = Reads(k) /\ BindsOf(list[k]) = Binds(k)
    BY <1>1, PlainList
  <2>3. \A k \in Chains : \A d \in 1 .. k - 1 : d \in Chains BY <2>1
  <2> QED BY <1>5, <2>1, <2>2, <2>3 DEF Ordered, ReadsBefore
<1> QED BY <1>1, <1>2, <1>3, <1>4, <1>5 DEF IInv, AcceptedBodiesCompile

LEMMA EndFusionInv == IInv /\ EndFusion => IInv'
<1> SUFFICES ASSUME IInv, EndFusion PROVE IInv' OBVIOUS
<1>1. /\ TypeOK /\ ListInv /\ EmitInv /\ StepInv /\ phase = "fuse"
      /\ Ordered /\ ReadsBefore
  BY DEF IInv, EndFusion
<1>2. UNCHANGED <<body, list, at, env, running, times>> /\ phase' = "emit"
  BY DEF EndFusion
<1>3. TypeOK' /\ ListInv' /\ EmitInv' /\ StepInv' /\ ReadsBefore' = ReadsBefore
  BY <1>1, <1>2, PhaseChange DEF Phases
<1>4. Ordered' = Ordered BY <1>2, BodyFrame
<1> QED BY <1>1, <1>2, <1>3, <1>4 DEF IInv, AcceptedBodiesCompile

LEMMA FuseInv == IInv /\ Fuse => IInv'
<1> SUFFICES ASSUME IInv, Fuse PROVE IInv' OBVIOUS
<1>1. /\ TypeOK /\ ListInv /\ EmitInv /\ StepInv /\ phase = "fuse" /\ backEnd = "c"
      /\ Ordered /\ ReadsBefore /\ at = 1
  BY DEF IInv, Fuse
<1>2. UNCHANGED <<body, phase, at, env, running, times>> /\ UNCHANGED body BY DEF Fuse
<1>3. ListInv' /\ ReadsBefore' BY <1>1, FusionKeepsPlaces, FusionKeepsReads
<1>4. Ordered' /\ Bodies' = Bodies /\ backEnd' = backEnd
  BY <1>1, <1>2, BodyFrame DEF body
<1>5. list' \in Seq(Seq(Chains)) /\ Len(list') \in 1 .. ChainCount
  <2>1. PICK p \in DOMAIN list, q \in DOMAIN list :
          p < q /\ list' \in Seq(Seq(Chains)) /\ Len(list') = Len(list) - 1
    BY <1>1, FusedList
  <2>2. /\ DOMAIN list = 1 .. Len(list) /\ Len(list) \in Nat /\ Len(list) <= ChainCount
        /\ ChainCount \in Nat
    BY <1>1, Entries, ChainScheduleAssumption DEF TypeOK
  <2> QED BY <2>1, <2>2
<1>6. TypeOK'
  <2>1. at' \in 1 .. Len(list') + 1 BY <1>1, <1>2, <1>5
  <2> QED BY <1>1, <1>2, <1>4, <1>5, <2>1 DEF TypeOK
<1>7. EmitInv'
  <2>1. env = {} BY <1>1 DEF EmitInv
  <2>2. \A r \in Chains : ~(r < 1) BY ChainScheduleAssumption DEF Chains
  <2> QED BY <1>1, <1>2, <2>1, <2>2 DEF EmitInv
<1>8. StepInv'
  <2>1. \A c : ~Started(c) /\ ~Started(c)' BY <1>1, <1>2 DEF Started, InStep
  <2> QED BY <1>1, <1>2, <2>1 DEF StepInv
<1> QED BY <1>1, <1>2, <1>3, <1>4, <1>6, <1>7, <1>8 DEF IInv, AcceptedBodiesCompile

\* The output is bound at the end: no fused chain keeps it to itself, and a
\* range that is the output does not become a loop.
LEMMA ReturnInv == IInv /\ Return => IInv'
<1> SUFFICES ASSUME IInv, Return PROVE IInv' OBVIOUS
<1>1. /\ TypeOK /\ ListInv /\ EmitInv /\ StepInv /\ phase = "emit"
      /\ Ordered /\ ReadsBefore /\ at = Len(list) + 1
  <2>1. at \in 1 .. Len(list) + 1 /\ Len(list) \in Nat /\ at > Len(list)
    BY Entries DEF IInv, Return, TypeOK
  <2> QED BY <2>1 DEF IInv, Return
<1>2. output \in env
  <2>1. PICK c \in Chains : output \in Binds(c) BY <1>1 DEF TypeOK, Bodies
  <2>2. PICK k \in DOMAIN list : \E i \in 1 .. Len(list[k]) : list[k][i] = c
    BY <1>1 DEF ListInv
  <2>3. PICK i \in 1 .. Len(list[k]) : list[k][i] = c BY <2>2
  <2>4. Len(list[k]) \in Nat /\ Last(list[k]) = list[k][Len(list[k])] BY <1>1, Entries
  <2>5. i = Len(list[k])
    <3> SUFFICES ASSUME i \in 1 .. Len(list[k]) - 1 PROVE FALSE BY <2>4
    <3>1. form[c] = "variable" /\ output # c BY <1>1, <2>3 DEF ListInv
    <3> QED BY <1>1, <2>1, <3>1, OneBinder, SMTT(40) DEF TypeOK
  <2>6. output \in BindsOf(list[k]) BY <2>1, <2>3, <2>4, <2>5 DEF BindsOf
  <2>7. k \in 1 .. at - 1 BY <1>1, Entries
  <2>8. output \in Variables BY <1>1, <2>6, Entries
  <2>9. \A r \in 1 .. at - 1 : RangeMaps(r) # {} => output # r
    <3>1. \A r \in 1 .. at - 1 : r \in Chains
      BY <1>1, Entries, ChainScheduleAssumption DEF TypeOK, Chains
    <3> QED BY <3>1, RangeFacts
  <2> QED BY <1>1, <2>6, <2>7, <2>8, <2>9 DEF EmitInv
<1>3. UNCHANGED <<body, list, at, env, running, times>> /\ phase' = "done"
  BY <1>2 DEF Return
<1>4. TypeOK' /\ ListInv' /\ EmitInv' /\ StepInv' /\ ReadsBefore' = ReadsBefore
  BY <1>1, <1>3, PhaseChange DEF Phases
<1>5. Ordered' = Ordered BY <1>3, BodyFrame
<1> QED BY <1>1, <1>3, <1>4, <1>5 DEF IInv, AcceptedBodiesCompile

\* A chain of an entry is in no other entry: what the step evaluates, the
\* steps before it have not.
LEMMA EntriesApart ==
  ASSUME TypeOK, ListInv, NEW j \in DOMAIN list, NEW k \in DOMAIN list,
         NEW c \in Range(list[j]), c \in Range(list[k])
  PROVE  j = k /\ c \in Chains
<1>1. list[j] \in Seq(Chains) /\ list[k] \in Seq(Chains) BY Entries
<1>2. PICK h \in 1 .. Len(list[j]) : list[j][h] = c BY <1>1 DEF Range
<1>3. PICK i \in 1 .. Len(list[k]) : list[k][i] = c BY <1>1 DEF Range
<1> QED BY <1>1, <1>2, <1>3, SMTT(40) DEF ListInv

\* The chains of the tasks are those of the step, and no chain before it.
LEMMA StepChains ==
  ASSUME TypeOK, ListInv, Ordered, at <= Len(list)
  PROVE  /\ TasksFit(Tasks)
         /\ \A k \in Batch : k \in DOMAIN list /\ k \in Chains /\ at <= k
         /\ \A j \in 1 .. at - 1 : j \in DOMAIN list /\ j \in Chains
         /\ \A k \in Batch : \A c \in Range(list[k]) :
              \A j \in 1 .. at - 1 : c \notin Range(list[j])
<1>1. /\ DOMAIN list = 1 .. Len(list) /\ Len(list) \in Nat /\ Len(list) <= ChainCount
      /\ ChainCount \in Nat /\ at \in Nat /\ 1 <= at /\ Chains = 1 .. ChainCount
  BY Entries, ChainScheduleAssumption DEF TypeOK, Chains
<1>2. \A k \in Batch : k \in DOMAIN list /\ k \in Chains /\ at <= k
  <2>1. PICK n \in Nat \ {0} : Batch = at .. at + n - 1 /\ at + n <= Len(list) + 1
    BY BatchFacts
  <2> QED BY <1>1, <2>1
<1>3. \A j \in 1 .. at - 1 : j \in DOMAIN list /\ j \in Chains /\ j < at BY <1>1
<1>4. ASSUME NEW k \in Batch, NEW c \in Range(list[k]), NEW j \in 1 .. at - 1,
             c \in Range(list[j])
      PROVE  FALSE
  <2>1. j = k BY <1>2, <1>3, <1>4, EntriesApart
  <2> QED BY <1>1, <1>2, <1>3, <2>1
<1> QED BY <1>2, <1>3, <1>4, TaskFacts

LEMMA StartStepInv == IInv /\ StartStep => IInv'
<1> SUFFICES ASSUME IInv, StartStep PROVE IInv' OBVIOUS
<1>1. /\ TypeOK /\ ListInv /\ EmitInv /\ StepInv /\ phase = "emit"
      /\ Ordered /\ ReadsBefore /\ at <= Len(list)
  BY DEF IInv, StartStep
<1>2. UNCHANGED <<body, list, at, env, times>> BY DEF StartStep
<1>3. CASE ~(\A k \in Batch : ReadsOf(list[k]) \subseteq env \cup LoopVariable)
  <2>1. phase' = "failed" /\ UNCHANGED <<body, list, at, env, running, times>>
    BY <1>3 DEF StartStep
  <2>2. TypeOK' /\ ListInv' /\ EmitInv' /\ StepInv' /\ ReadsBefore' = ReadsBefore
    BY <1>1, <2>1, PhaseChange DEF Phases
  <2>3. MentionsLoopVariable BY <1>1, <1>3, StepReads
  <2>4. Ordered' = Ordered /\ MentionsLoopVariable' = MentionsLoopVariable
    BY <2>1, BodyFrame
  <2> QED BY <1>1, <2>1, <2>2, <2>3, <2>4 DEF IInv, AcceptedBodiesCompile
<1>4. CASE \A k \in Batch : ReadsOf(list[k]) \subseteq env \cup LoopVariable
  <2>1. phase' = "run" /\ running' = Tasks BY <1>4 DEF StartStep
  <2>2. UNCHANGED body /\ UNCHANGED <<body, list>> /\ UNCHANGED <<body, list, at, env>>
    BY <1>2
  <2>3. /\ Batch' = Batch /\ LoopVariable' = LoopVariable /\ Tasks' = Tasks
        /\ EmitInv' = EmitInv
    BY <2>2, StepFrame
  <2>4. /\ Ordered' = Ordered /\ Bodies' = Bodies
        /\ \A t : ReadsOf(t)' = ReadsOf(t)
        /\ \A c : Dropped(c)' = Dropped(c)
    BY <2>2, BodyFrame
  <2>5. ReadsBefore' = ReadsBefore /\ ListInv'
    BY <1>1, <2>1, <2>2, ListFrame
  <2>6. /\ Tasks \in [Chains -> Seq(Chains)]
        /\ \A k \in Chains : \A i \in 1 .. Len(Tasks[k]) :
             ~Dropped(Tasks[k][i]) /\ \E e \in Batch : Tasks[k][i] \in Range(list[e])
        /\ \A e \in Batch : \A c \in Range(list[e]) :
             Dropped(c) \/ \E k \in Chains : \E i \in 1 .. Len(Tasks[k]) : Tasks[k][i] = c
        /\ \A k \in Batch : \A c \in Range(list[k]) :
             \A j \in 1 .. at - 1 : c \notin Range(list[j])
    BY <1>1, StepChains DEF TasksFit
  <2>7. TypeOK' BY <1>1, <1>2, <2>1, <2>4, <2>6 DEF TypeOK
  <2>8. ASSUME NEW k \in Chains PROVE \E n \in 0 .. Len(Tasks'[k]) : Left(k, n)'
    <3>1. running'[k] = Tasks[k] /\ Tasks[k] \in Seq(Chains) BY <2>1, <2>6
    <3>2. 0 \in 0 .. Len(Tasks[k]) /\ Len(running'[k]) = Len(Tasks[k]) - 0
          /\ \A i \in 1 .. Len(running'[k]) : running'[k][i] = Tasks[k][i + 0]
      BY <3>1
    <3>3. Left(k, 0)' BY <2>3, <3>2 DEF Left
    <3> QED BY <2>3, <3>2, <3>3
  <2>9. ASSUME NEW c \in Chains
        PROVE  times'[c] = IF Started(c)' /\ ~Pending(c)' /\ ~Dropped(c)' THEN 1 ELSE 0
    <3>1. ~Pending(c)
      <4>1. \A k \in Chains : Range(running[k]) = {} BY <1>1 DEF StepInv, Range
      <4> QED BY <4>1 DEF Pending
    <3>2. Started(c) <=> \E j \in 1 .. at - 1 : c \in Range(list[j])
      BY <1>1 DEF Started, InStep
    <3>3. Started(c)' <=> Started(c) \/ \E k \in Batch : c \in Range(list[k])
      BY <1>1, <1>2, <2>1, <2>3, <3>2 DEF Started, InStep
    <3>4. Pending(c)' <=> ~Dropped(c) /\ \E k \in Batch : c \in Range(list[k])
      <4>1. ASSUME NEW k \in Chains
            PROVE  c \in Range(running'[k]) <=> \E i \in 1 .. Len(Tasks[k]) : Tasks[k][i] = c
        <5>1. running'[k] = Tasks[k] /\ Tasks[k] \in Seq(Chains) BY <2>1, <2>6
        <5> QED BY <5>1 DEF Range
      <4>2. Pending(c)' <=> \E k \in Chains : c \in Range(running'[k]) BY DEF Pending
      <4>3. ASSUME NEW k \in Chains, NEW i \in 1 .. Len(Tasks[k]), Tasks[k][i] = c
            PROVE  ~Dropped(c) /\ \E e \in Batch : c \in Range(list[e])
        BY <2>6, <4>3
      <4>4. ASSUME NEW e \in Batch, c \in Range(list[e]), ~Dropped(c)
            PROVE  \E k \in Chains : \E i \in 1 .. Len(Tasks[k]) : Tasks[k][i] = c
        BY <2>6, <4>4
      <4> QED BY <4>1, <4>2, <4>3, <4>4
    <3>5. times'[c] = IF Started(c) /\ ~Dropped(c) THEN 1 ELSE 0
      BY <1>1, <1>2, <3>1 DEF StepInv
    <3>6. (\E k \in Batch : c \in Range(list[k])) => ~Started(c) BY <2>6, <3>2
    <3> QED BY <2>4, <3>3, <3>4, <3>5, <3>6
  <2>10. StepInv' BY <1>1, <1>2, <1>4, <2>1, <2>3, <2>4, <2>8, <2>9 DEF StepInv
  <2> QED BY <1>1, <2>1, <2>3, <2>4, <2>5, <2>7, <2>10 DEF IInv, AcceptedBodiesCompile
<1> QED BY <1>3, <1>4

\* The places in what is left of a sequence, and in the whole.
LEMMA Shift ==
  ASSUME NEW l \in Nat, NEW n \in 0 .. l, NEW m, m = l - n
  PROVE  /\ \A i \in 1 .. m : i + n \in 1 .. l
         /\ m \in Nat \ {0} => /\ n + 1 \in 0 .. l /\ m - 1 = l - (n + 1)
                               /\ \A i \in 1 .. m - 1 : /\ i + 1 \in 1 .. m /\ i + 1 # 1
                                                        /\ (i + 1) + n = i + (n + 1)
                               /\ \A i \in 1 .. m : i # 1 => i - 1 \in 1 .. m - 1 /\ (i - 1) + 1 = i
  OBVIOUS

\* What is left of the tasks while the step runs.
LEMMA Remaining ==
  ASSUME IInv, phase = "run"
  PROVE  /\ at <= Len(list)
         /\ \A k \in Chains : running[k] \in Seq(Chains)
         /\ \A k \in Chains : \E n \in 0 .. Len(Tasks[k]) : Left(k, n)
         /\ \A k \in Chains : \A i \in 1 .. Len(running[k]) :
              ~Dropped(running[k][i]) /\ \E e \in Batch : running[k][i] \in Range(list[e])
         /\ \A j, k \in Chains : \A h \in 1 .. Len(running[j]), i \in 1 .. Len(running[k]) :
              running[j][h] = running[k][i] => j = k /\ h = i
<1>1. /\ TypeOK /\ ListInv /\ StepInv /\ Ordered /\ at <= Len(list)
      /\ running \in [Chains -> Seq(Chains)]
      /\ \A k \in Chains : \E n \in 0 .. Len(Tasks[k]) : Left(k, n)
  BY DEF IInv, StepInv, TypeOK
<1>2. /\ Tasks \in [Chains -> Seq(Chains)]
      /\ \A j, k \in Chains : \A h \in 1 .. Len(Tasks[j]), i \in 1 .. Len(Tasks[k]) :
           Tasks[j][h] = Tasks[k][i] => j = k /\ h = i
      /\ \A k \in Chains : \A i \in 1 .. Len(Tasks[k]) :
           ~Dropped(Tasks[k][i]) /\ \E e \in Batch : Tasks[k][i] \in Range(list[e])
  BY <1>1, TaskFacts DEF TasksFit
\* Each remaining chain has its place in its task.
<1>3. ASSUME NEW k \in Chains
      PROVE  \E n \in Nat : \A i \in 1 .. Len(running[k]) :
               i + n \in 1 .. Len(Tasks[k]) /\ running[k][i] = Tasks[k][i + n]
  <2>1. PICK n \in 0 .. Len(Tasks[k]) : Left(k, n) BY <1>1
  <2>2. Len(Tasks[k]) \in Nat /\ Len(running[k]) \in Nat BY <1>1, <1>2
  <2>3. /\ Len(running[k]) = Len(Tasks[k]) - n
        /\ \A i \in 1 .. Len(running[k]) : running[k][i] = Tasks[k][i + n]
    BY <2>1 DEF Left
  <2>4. \A i \in 1 .. Len(running[k]) : i + n \in 1 .. Len(Tasks[k]) BY <2>2, <2>3, Shift
  <2>5. n \in Nat BY <2>2
  <2> QED BY <2>3, <2>4, <2>5
<1>4. \A k \in Chains : \A i \in 1 .. Len(running[k]) :
        ~Dropped(running[k][i]) /\ \E e \in Batch : running[k][i] \in Range(list[e])
  <2> SUFFICES ASSUME NEW k \in Chains, NEW i \in 1 .. Len(running[k])
               PROVE  /\ ~Dropped(running[k][i])
                      /\ \E e \in Batch : running[k][i] \in Range(list[e])
    OBVIOUS
  <2>1. PICK n \in Nat : i + n \in 1 .. Len(Tasks[k]) /\ running[k][i] = Tasks[k][i + n]
    BY <1>3
  <2> QED BY <1>2, <2>1
<1>5. ASSUME NEW j \in Chains, NEW k \in Chains, NEW h \in 1 .. Len(running[j]),
             NEW i \in 1 .. Len(running[k]), running[j][h] = running[k][i]
      PROVE  j = k /\ h = i
  <2>1. PICK m \in Nat : \A x \in 1 .. Len(running[j]) :
          x + m \in 1 .. Len(Tasks[j]) /\ running[j][x] = Tasks[j][x + m]
    BY <1>3
  <2>2. PICK n \in Nat : \A x \in 1 .. Len(running[k]) :
          x + n \in 1 .. Len(Tasks[k]) /\ running[k][x] = Tasks[k][x + n]
    BY <1>3
  <2>3. j = k BY <1>2, <1>5, <2>1, <2>2, SMTT(40)
  <2>4. i \in 1 .. Len(running[j]) /\ running[j][h] = running[j][i] BY <1>5, <2>3
  <2>5. h + m = i + m BY <1>2, <2>1, <2>4
  <2>6. h \in Int /\ i \in Int OBVIOUS
  <2> QED BY <2>1, <2>3, <2>5, <2>6
<1> QED BY <1>1, <1>4, <1>5

LEMMA EvaluateInv == ASSUME NEW k \in Chains PROVE IInv /\ Evaluate(k) => IInv'
<1> SUFFICES ASSUME IInv, Evaluate(k) PROVE IInv' OBVIOUS
<1> DEFINE h == Head(running[k])
<1>1. /\ TypeOK /\ ListInv /\ EmitInv /\ StepInv /\ phase = "run" /\ phase' = "run"
      /\ Ordered /\ ReadsBefore /\ running[k] # <<>>
      /\ running' = [running EXCEPT ![k] = Tail(@)]
      /\ times' = [times EXCEPT ![h] = @ + 1]
  BY DEF IInv, Evaluate
<1>2. /\ UNCHANGED <<body, list, at, env>> /\ UNCHANGED body
      /\ UNCHANGED <<body, list>>
  BY DEF Evaluate
<1>3. /\ Batch' = Batch /\ LoopVariable' = LoopVariable /\ Tasks' = Tasks
      /\ EmitInv' = EmitInv
  BY <1>2, StepFrame
<1>4. /\ Ordered' = Ordered /\ Bodies' = Bodies
      /\ \A t : ReadsOf(t)' = ReadsOf(t)
      /\ \A c : Dropped(c)' = Dropped(c)
  BY <1>2, BodyFrame
<1>5. ReadsBefore' = ReadsBefore /\ ListInv' BY <1>1, <1>2, ListFrame
<1>6. /\ running \in [Chains -> Seq(Chains)] /\ times \in [Chains -> Nat]
      /\ h = running[k][1] /\ h \in Chains /\ Len(running[k]) \in Nat \ {0}
  <2>1. running \in [Chains -> Seq(Chains)] /\ times \in [Chains -> Nat]
    BY <1>1 DEF TypeOK
  <2>2. running[k] \in Seq(Chains) BY <2>1
  <2> QED BY <1>1, <2>1, <2>2
<1> HIDE DEF h
<1>7. /\ Tail(running[k]) \in Seq(Chains) /\ Len(Tail(running[k])) = Len(running[k]) - 1
      /\ \A i \in 1 .. Len(running[k]) - 1 : Tail(running[k])[i] = running[k][i + 1]
  <2>1. running[k] \in Seq(Chains) /\ running[k] # <<>> BY <1>1, <1>6
  <2> QED BY <2>1
<1>shift. /\ \A i \in 1 .. Len(running[k]) - 1 : i + 1 \in 1 .. Len(running[k]) /\ i + 1 # 1
      /\ \A i \in 1 .. Len(running[k]) :
           i # 1 => i - 1 \in 1 .. Len(running[k]) - 1 /\ (i - 1) + 1 = i
  <2> DEFINE m == Len(running[k])
  <2>1. m \in Nat \ {0} BY <1>6
  <2> HIDE DEF m
  <2>2. /\ \A i \in 1 .. m - 1 : i + 1 \in 1 .. m /\ i + 1 # 1
        /\ \A i \in 1 .. m : i # 1 => i - 1 \in 1 .. m - 1 /\ (i - 1) + 1 = i
    BY <2>1
  <2> QED BY <2>2 DEF m
<1>8. /\ running' \in [Chains -> Seq(Chains)] /\ times' \in [Chains -> Nat]
      /\ running'[k] = Tail(running[k])
      /\ \A j \in Chains \ {k} : running'[j] = running[j]
      /\ times'[h] = times[h] + 1
      /\ \A c \in Chains \ {h} : times'[c] = times[c]
  BY <1>1, <1>6, <1>7
<1>9. TypeOK' BY <1>1, <1>2, <1>4, <1>8 DEF TypeOK
<1>10. /\ at <= Len(list)
       /\ \A j \in Chains : \E n \in 0 .. Len(Tasks[j]) : Left(j, n)
       /\ \A i \in 1 .. Len(running[k]) :
            /\ ~Dropped(running[k][i])
            /\ \E e \in Batch : running[k][i] \in Range(list[e])
       /\ \A j \in Chains : \A i \in 1 .. Len(running[j]) :
            running[j][i] = h => j = k /\ i = 1
  <2>1. 1 \in 1 .. Len(running[k]) BY <1>6
  <2> QED BY <1>1, <1>6, <2>1, Remaining
<1>11. ASSUME NEW j \in Chains PROVE \E n \in 0 .. Len(Tasks'[j]) : Left(j, n)'
  <2>1. PICK n \in 0 .. Len(Tasks[j]) : Left(j, n) BY <1>10
  <2>2. CASE j # k
    <3>1. Left(j, n)' BY <1>3, <1>8, <2>1, <2>2 DEF Left
    <3> QED BY <1>3, <3>1
  <2>3. CASE j = k
    <3>1. /\ Len(running[k]) = Len(Tasks[k]) - n /\ n \in Nat
          /\ \A i \in 1 .. Len(running[k]) : running[k][i] = Tasks[k][i + n]
      BY <2>1, <2>3 DEF Left
    <3>2. Len(Tasks[k]) \in Nat
      <4>1. Tasks[k] \in Seq(Chains) BY <1>1, <1>10, TaskFacts DEF TasksFit
      <4> QED BY <4>1
    <3>3. /\ n + 1 \in 0 .. Len(Tasks[k])
          /\ Len(running[k]) - 1 = Len(Tasks[k]) - (n + 1)
          /\ \A i \in 1 .. Len(running[k]) - 1 :
               i + 1 \in 1 .. Len(running[k]) /\ (i + 1) + n = i + (n + 1)
      <4>1. n \in 0 .. Len(Tasks[k]) BY <2>1, <2>3
      <4>2. Len(running[k]) = Len(Tasks[k]) - n /\ Len(running[k]) \in Nat \ {0}
        BY <1>6, <3>1
      <4> QED BY <3>2, <4>1, <4>2, Shift
    <3>4. /\ Len(running'[k]) = Len(Tasks[k]) - (n + 1)
          /\ \A i \in 1 .. Len(running'[k]) : running'[k][i] = Tasks[k][i + (n + 1)]
      <4>1. Len(running'[k]) = Len(running[k]) - 1 BY <1>7, <1>8
      <4>2. ASSUME NEW i \in 1 .. Len(running'[k])
            PROVE  running'[k][i] = Tasks[k][i + (n + 1)]
        <5>1. running'[k][i] = running[k][i + 1] BY <1>7, <1>8, <4>1
        <5>2. i + 1 \in 1 .. Len(running[k]) /\ (i + 1) + n = i + (n + 1) BY <3>3, <4>1
        <5>3. running[k][i + 1] = Tasks[k][(i + 1) + n] BY <3>1, <5>2
        <5> QED BY <5>1, <5>2, <5>3
      <4> QED BY <3>3, <4>1, <4>2
    <3>5. Left(k, n + 1)' BY <1>3, <3>4 DEF Left
    <3> QED BY <1>3, <2>3, <3>3, <3>5
  <2> QED BY <2>2, <2>3
<1>12. ASSUME NEW c \in Chains
       PROVE  times'[c] = IF Started(c)' /\ ~Pending(c)' /\ ~Dropped(c)' THEN 1 ELSE 0
  <2>1. Started(c)' = Started(c) BY <1>1, <1>2, <1>3 DEF Started, InStep
  <2>2. /\ Pending(c) <=> \E j \in Chains : \E i \in 1 .. Len(running[j]) : running[j][i] = c
        /\ Pending(c)' <=> \E j \in Chains : \E i \in 1 .. Len(running'[j]) : running'[j][i] = c
    <3>1. \A j \in Chains : running[j] \in Seq(Chains) /\ running'[j] \in Seq(Chains)
      BY <1>6, <1>8
    <3>2. \A t \in Seq(Chains) : c \in Range(t) <=> \E i \in 1 .. Len(t) : t[i] = c
      BY DEF Range
    <3> QED BY <3>1, <3>2 DEF Pending
  <2>3. times[c] = IF Started(c) /\ ~Pending(c) /\ ~Dropped(c) THEN 1 ELSE 0
    BY <1>1 DEF StepInv
  <2>4. CASE c = h
    <3>1. Pending(c)
      <4>1. 1 \in 1 .. Len(running[k]) BY <1>6
      <4> QED BY <1>6, <2>2, <2>4, <4>1
    <3>2. ~Pending(c)'
      <4> SUFFICES ASSUME NEW j \in Chains, NEW i \in 1 .. Len(running'[j]),
                          running'[j][i] = h
                   PROVE  FALSE
        BY <2>2, <2>4
      <4>1. CASE j # k BY <1>8, <1>10, <4>1
      <4>2. CASE j = k
        <5>1. i \in 1 .. Len(running[k]) - 1 /\ running[k][i + 1] = h
          BY <1>7, <1>8, <4>2
        <5>2. i + 1 \in 1 .. Len(running[k]) /\ i + 1 # 1 BY <1>shift, <5>1
        <5> QED BY <1>10, <5>1, <5>2
      <4> QED BY <4>1, <4>2
    <3>3. Started(c) /\ ~Dropped(c)
      <4>1. 1 \in 1 .. Len(running[k]) BY <1>6
      <4>2. ~Dropped(h) /\ \E e \in Batch : h \in Range(list[e]) BY <1>6, <1>10, <4>1
      <4> QED BY <1>1, <2>4, <4>2 DEF Started, InStep
    <3>4. times[c] = 0 /\ times'[c] = times[c] + 1 BY <1>8, <2>3, <2>4, <3>1
    <3> QED BY <1>4, <2>1, <3>2, <3>3, <3>4
  <2>5. CASE c # h
    <3>1. ASSUME Pending(c) PROVE Pending(c)'
      <4>1. PICK j \in Chains : \E i \in 1 .. Len(running[j]) : running[j][i] = c
        BY <2>2, <3>1
      <4>2. PICK i \in 1 .. Len(running[j]) : running[j][i] = c BY <4>1
      <4>3. CASE j # k BY <1>8, <2>2, <4>2, <4>3
      <4>4. CASE j = k
        <5>1. i # 1 BY <1>6, <2>5, <4>2, <4>4
        <5> DEFINE m == i - 1
        <5>2. m \in 1 .. Len(running[k]) - 1 /\ m + 1 = i BY <1>shift, <4>4, <5>1
        <5> HIDE DEF m
        <5>3. m \in 1 .. Len(running'[k]) /\ running'[k][m] = c
          BY <1>7, <1>8, <4>2, <4>4, <5>2
        <5> QED BY <2>2, <5>3
      <4> QED BY <4>3, <4>4
    <3>2. ASSUME Pending(c)' PROVE Pending(c)
      <4>1. PICK j \in Chains : \E i \in 1 .. Len(running'[j]) : running'[j][i] = c
        BY <2>2, <3>2
      <4>2. PICK i \in 1 .. Len(running'[j]) : running'[j][i] = c BY <4>1
      <4>3. CASE j # k BY <1>8, <2>2, <4>2, <4>3
      <4>4. CASE j = k
        <5>1. i \in 1 .. Len(running[k]) - 1 /\ running[k][i + 1] = c
          BY <1>7, <1>8, <4>2, <4>4
        <5>2. i + 1 \in 1 .. Len(running[k]) BY <1>shift, <5>1
        <5> QED BY <2>2, <5>1, <5>2
      <4> QED BY <4>3, <4>4
    <3> QED BY <1>4, <1>8, <2>1, <2>3, <2>5, <3>1, <3>2
  <2> QED BY <2>4, <2>5
<1>13. \A j \in Batch : ReadsOf(list[j]) \subseteq env \cup LoopVariable
  BY <1>1 DEF StepInv
<1>14. StepInv' BY <1>1, <1>2, <1>3, <1>4, <1>10, <1>11, <1>12, <1>13 DEF StepInv
<1> QED BY <1>1, <1>3, <1>4, <1>5, <1>9, <1>14 DEF IInv, AcceptedBodiesCompile

\* The end of a step binds what its chains bind: the entries before the new
\* `at' are those before the old one and the batch.
LEMMA EndStepInv == IInv /\ EndStep => IInv'
<1> SUFFICES ASSUME IInv, EndStep PROVE IInv' OBVIOUS
<1>1. /\ TypeOK /\ ListInv /\ EmitInv /\ StepInv /\ phase = "run" /\ phase' = "emit"
      /\ Ordered /\ ReadsBefore /\ at <= Len(list)
      /\ \A k \in Chains : running[k] = <<>>
      /\ env' = env \cup ((UNION {BindsOf(list[k]) : k \in Batch}) \ LoopVariable)
      /\ at' = at + Cardinality(Batch)
  BY DEF IInv, EndStep, StepInv
<1>2. /\ UNCHANGED <<body, list>> /\ UNCHANGED body
      /\ list' = list /\ running' = running /\ times' = times
  BY DEF EndStep
<1>3. PICK n \in Nat \ {0} :
        /\ Batch = at .. at + n - 1 /\ Cardinality(Batch) = n
        /\ at + n <= Len(list) + 1
        /\ \/ /\ RangeMaps(at) # {}
              /\ Batch = {at} \cup RangeMaps(at)
           \/ /\ RangeMaps(at) = {}
              /\ n > 1 => \A k \in Batch : MayJoin(k)
  BY <1>1, BatchFacts
<1>4. /\ DOMAIN list = 1 .. Len(list) /\ Len(list) \in Nat /\ Len(list) <= ChainCount
      /\ ChainCount \in Nat /\ at \in Nat /\ 1 <= at /\ Chains = 1 .. ChainCount
      /\ at \in Chains
  <2>1. /\ DOMAIN list = 1 .. Len(list) /\ Len(list) \in Nat /\ Len(list) <= ChainCount
        /\ ChainCount \in Nat /\ at \in Nat /\ 1 <= at
    BY <1>1, Entries, ChainScheduleAssumption DEF TypeOK
  <2> QED BY <1>1, <2>1 DEF Chains
<1>5. /\ at' = at + n /\ at' \in 1 .. Len(list) + 1 /\ at < at'
      /\ \A k \in 1 .. at' - 1 : k \in 1 .. at - 1 \/ k \in Batch
      /\ \A k \in 1 .. at - 1 : k \in 1 .. at' - 1 /\ k \notin Batch /\ k < at
      /\ Batch \subseteq 1 .. at' - 1 /\ Batch \subseteq DOMAIN list
      /\ 1 .. at' - 1 \subseteq DOMAIN list /\ 1 .. at' - 1 \subseteq Chains
      /\ at \in Batch
  BY <1>1, <1>3, <1>4
<1>6. /\ Bodies' = Bodies /\ Ordered' = Ordered
      /\ \A t : BindsOf(t)' = BindsOf(t)
      /\ \A c : Dropped(c)' = Dropped(c)
      /\ \A r : RangeMaps(r)' = RangeMaps(r)
  BY <1>2, BodyFrame
<1>7. ReadsBefore' = ReadsBefore /\ ListInv' BY <1>1, <1>2, ListFrame
<1>8. \A k \in DOMAIN list : BindsOf(list[k]) \subseteq Variables BY <1>1, Entries
<1>9. TypeOK'
  <2>1. env' \subseteq Variables
    <3>1. env \subseteq Variables BY <1>1 DEF TypeOK
    <3>2. \A k \in Batch : BindsOf(list[k]) \subseteq Variables BY <1>5, <1>8
    <3> QED BY <1>1, <3>1, <3>2
  <2> QED BY <1>1, <1>2, <1>5, <1>6, <2>1 DEF TypeOK
\* Of the new entries only the first may be a loop.
<1>10. \A r \in Batch : r # at => RangeMaps(r) = {}
  <2>1. CASE backEnd = "ts" BY <1>1, <2>1, StepKinds
  <2>2. CASE backEnd # "ts" BY <1>5, <2>2, RangeFacts
  <2> QED BY <2>1, <2>2
<1>11. env = {v \in Variables : \E j \in 1 .. at - 1 : v \in BindsOf(list[j])}
               \ {r \in 1 .. at - 1 : RangeMaps(r) # {}}
  BY <1>1 DEF EmitInv
<1>bound. \A v : v \in env' <=> \/ v \in env
                               \/ /\ v \notin LoopVariable
                                  /\ \E k \in Batch : v \in BindsOf(list[k])
  BY <1>1
\* A loop's variable is bound by its range alone.
<1>12. ASSUME NEW r \in Chains, RangeMaps(r) # {}, NEW k \in DOMAIN list,
              r \in BindsOf(list[k])
       PROVE  k = r
  <2>1. backEnd = "ts" /\ kind[r] = "range" BY <1>12, RangeFacts
  <2>2. Binds(r) = {r} /\ BinderOf(r) = r
    <3>1. form[r] = "variable" BY <1>1, <2>1 DEF TypeOK, Bodies, KindsFit
    <3> QED BY <1>1, <3>1, OneBinder DEF TypeOK
  <2>3. k \in Chains /\ BindsOf(list[k]) = Binds(k) BY <1>1, <2>1, PlainList
  <2> QED BY <1>1, <1>12, <2>2, <2>3, OneBinder DEF TypeOK
<1>13. env' = {v \in Variables : \E j \in 1 .. at' - 1 : v \in BindsOf(list[j])}
                \ {r \in 1 .. at' - 1 : RangeMaps(r) # {}}
  <2>1. ASSUME NEW v \in env'
        PROVE  /\ v \in Variables /\ \E j \in 1 .. at' - 1 : v \in BindsOf(list[j])
               /\ ~(v \in 1 .. at' - 1 /\ RangeMaps(v) # {})
    <3>1. CASE v \in env
      <4>1. PICK j \in 1 .. at - 1 : v \in BindsOf(list[j]) BY <1>11, <3>1
      <4>2. j \in 1 .. at' - 1 /\ v \in Variables BY <1>5, <1>11, <3>1
      <4>3. ASSUME v \in 1 .. at' - 1, RangeMaps(v) # {} PROVE FALSE
        <5>1. v \notin 1 .. at - 1 BY <1>11, <3>1, <4>3
        <5>2. v = j BY <1>5, <1>12, <4>1, <4>2, <4>3
        <5> QED BY <5>1, <5>2
      <4> QED BY <4>1, <4>2, <4>3
    <3>2. CASE v \notin env
      <4>1. PICK k \in Batch : v \in BindsOf(list[k]) BY <1>bound, <3>2
      <4>2. v \notin LoopVariable BY <1>bound, <3>2
      <4>3. ASSUME v \in 1 .. at' - 1, RangeMaps(v) # {} PROVE FALSE
        <5>1. v = k BY <1>5, <1>12, <4>1, <4>3
        <5>2. v = at BY <1>10, <4>3, <5>1
        <5> QED BY <4>2, <4>3, <5>2 DEF LoopVariable
      <4> QED BY <1>5, <1>8, <4>1, <4>3
    <3> QED BY <3>1, <3>2
  <2>2. ASSUME NEW v \in Variables, NEW j \in 1 .. at' - 1, v \in BindsOf(list[j]),
               ~(v \in 1 .. at' - 1 /\ RangeMaps(v) # {})
        PROVE  v \in env'
    <3>1. CASE j \in 1 .. at - 1
      <4>1. ~(v \in 1 .. at - 1 /\ RangeMaps(v) # {}) BY <1>5, <2>2
      <4> QED BY <1>bound, <1>11, <2>2, <3>1, <4>1
    <3>2. CASE j \in Batch
      <4>1. v \notin LoopVariable BY <1>5, <2>2 DEF LoopVariable
      <4> QED BY <1>bound, <2>2, <3>2, <4>1
    <3> QED BY <1>5, <3>1, <3>2
  <2> QED BY <2>1, <2>2
<1>14. ASSUME NEW r \in Chains, r < at' PROVE RangeMaps(r) \subseteq 1 .. at' - 1
  <2>1. r \in 1 .. at' - 1 BY <1>4, <1>5, <1>14
  <2>2. CASE r \in 1 .. at - 1
    <3>1. RangeMaps(r) \subseteq 1 .. at - 1 BY <1>1, <1>5, <1>14, <2>2 DEF EmitInv
    <3> QED BY <1>5, <3>1
  <2>3. CASE r \in Batch
    <3>1. RangeMaps(r) # {} => r = at BY <1>10, <2>3
    <3>2. RangeMaps(at) # {} => RangeMaps(at) \subseteq Batch BY <1>3
    <3> QED BY <1>5, <3>1, <3>2
  <2> QED BY <1>5, <2>1, <2>2, <2>3
<1>15. EmitInv' BY <1>2, <1>6, <1>13, <1>14 DEF EmitInv
<1>16. StepInv'
  <2>1. \A c : Pending(c)' = Pending(c) BY <1>2 DEF Pending
  <2>2. \A c : Started(c)' <=> Started(c)
    <3> SUFFICES ASSUME NEW c PROVE Started(c)' <=> Started(c) OBVIOUS
    <3>1. Started(c)' <=> \E j \in 1 .. at' - 1 : c \in Range(list[j])
      BY <1>1, <1>2 DEF Started, InStep
    <3>2. Started(c) <=> \/ \E k \in Batch : c \in Range(list[k])
                         \/ \E j \in 1 .. at - 1 : c \in Range(list[j])
      BY <1>1 DEF Started, InStep
    <3> QED BY <1>5, <3>1, <3>2
  <2>3. \A c \in Chains :
          times[c] = IF Started(c) /\ ~Pending(c) /\ ~Dropped(c) THEN 1 ELSE 0
    BY <1>1 DEF StepInv
  <2> QED BY <1>1, <1>2, <1>6, <2>1, <2>2, <2>3 DEF StepInv
<1> QED BY <1>1, <1>6, <1>7, <1>9, <1>15, <1>16 DEF IInv, AcceptedBodiesCompile

\* The inductive invariant: the list, what is bound and what was evaluated.
THEOREM Invariance == Spec => []IInv
<1>1. Init => IInv BY InitInv
<1>2. IInv /\ [Next]_vars => IInv'
  <2> SUFFICES ASSUME IInv, [Next]_vars PROVE IInv' OBVIOUS
  <2>1. CASE Check BY <2>1, CheckInv
  <2>2. CASE Fuse BY <2>2, FuseInv
  <2>3. CASE EndFusion BY <2>3, EndFusionInv
  <2>4. CASE StartStep BY <2>4, StartStepInv
  <2>5. ASSUME NEW k \in Chains, Evaluate(k) PROVE IInv' BY <2>5, EvaluateInv
  <2>6. CASE EndStep BY <2>6, EndStepInv
  <2>7. CASE Return BY <2>7, ReturnInv
  <2>8. CASE UNCHANGED vars
    <3>1. /\ UNCHANGED body /\ UNCHANGED <<body, list>>
          /\ UNCHANGED <<body, list, at, env>>
          /\ list' = list /\ phase' = phase /\ at' = at /\ env' = env
          /\ running' = running /\ times' = times
      BY <2>8 DEF vars
    <3>2. /\ Batch' = Batch /\ LoopVariable' = LoopVariable /\ Tasks' = Tasks
          /\ EmitInv' = EmitInv
      BY <3>1, StepFrame
    <3>3. /\ Ordered' = Ordered /\ Bodies' = Bodies /\ backEnd' = backEnd
          /\ \A t : ReadsOf(t)' = ReadsOf(t)
          /\ \A c : Dropped(c)' = Dropped(c)
          /\ MentionsLoopVariable' = MentionsLoopVariable
      BY <3>1, BodyFrame DEF body
    <3>4. ReadsBefore' = ReadsBefore /\ (ListInv => ListInv') BY <3>1, ListFrame
    <3>5. TypeOK => TypeOK' BY <3>1, <3>3 DEF TypeOK
    <3>6. StepInv => StepInv'
      <4>1. \A c : Started(c)' = Started(c) BY <3>1, <3>2 DEF Started, InStep
      <4>2. \A c : Pending(c)' = Pending(c) BY <3>1 DEF Pending
      <4>3. \A k, n : Left(k, n)' = Left(k, n) BY <3>1, <3>2 DEF Left
      <4> QED BY <3>1, <3>2, <3>3, <4>1, <4>2, <4>3 DEF StepInv
    <3> QED BY <3>1, <3>2, <3>3, <3>4, <3>5, <3>6 DEF IInv, AcceptedBodiesCompile
  <2> QED BY <2>1, <2>2, <2>3, <2>4, <2>5, <2>6, <2>7, <2>8 DEF Next, Stopped
<1> QED BY <1>1, <1>2, PTL DEF Spec

\* A body the type checker accepts compiles, whatever is fused and batched,
\* unless it mentions a range that has become a loop.
THEOREM BodiesCompile == Spec => []AcceptedBodiesCompile
<1>1. IInv => AcceptedBodiesCompile BY DEF IInv
<1> QED BY <1>1, Invariance, PTL

\* The function returns only when every chain that is not dropped was evaluated.
THEOREM ChainsAreEvaluated == Spec => []EveryChainIsEvaluated
<1>1. IInv => EveryChainIsEvaluated
  <2> SUFFICES ASSUME IInv, phase = "done", NEW c \in Chains PROVE times[c] > 0 \/ Dropped(c)
    BY DEF EveryChainIsEvaluated
  <2>1. TypeOK /\ ListInv /\ StepInv /\ at = Len(list) + 1 BY DEF IInv
  <2>2. Started(c)
    <3>1. PICK k \in DOMAIN list : \E i \in 1 .. Len(list[k]) : list[k][i] = c
      BY <2>1 DEF ListInv
    <3>2. c \in Range(list[k]) BY <2>1, <3>1, Entries DEF Range
    <3>3. k \in 1 .. at - 1 BY <2>1, <3>1, Entries
    <3> QED BY <3>2, <3>3 DEF Started
  <2>3. ~Pending(c)
    <3>1. \A k \in Chains : Range(running[k]) = {} BY <2>1 DEF StepInv, Range
    <3> QED BY <3>1 DEF Pending
  <2>4. times[c] = IF Started(c) /\ ~Pending(c) /\ ~Dropped(c) THEN 1 ELSE 0
    BY <2>1 DEF StepInv
  <2> QED BY <2>2, <2>3, <2>4
<1> QED BY <1>1, Invariance, PTL

\* A chain that is not parallel safe, fused or not, is in no batch.
THEOREM UnsafeChainsAreAlone == Spec => []UnsafeChainsRunAlone
<1>1. IInv => UnsafeChainsRunAlone
  <2> SUFFICES ASSUME IInv, phase = "run", NEW k \in Chains,
                      Range(running[k]) \cap unsafe # {},
                      NEW j \in Chains \ {k}
               PROVE  running[j] = <<>>
    BY DEF UnsafeChainsRunAlone
  <2>1. TypeOK /\ ListInv /\ Ordered /\ at <= Len(list) BY DEF IInv, StepInv
  <2>2. backEnd = "c" BY <2>1 DEF TypeOK, Bodies
  <2>3. \A m \in Chains : /\ running[m] \in Seq(Chains) /\ Tasks[m] \in Seq(Chains)
                          /\ Tasks[m] = IF m \in Batch THEN list[m] ELSE <<>>
    <3>1. \A m \in Chains : Tasks[m] \in Seq(Chains) BY <2>1, TaskFacts DEF TasksFit
    <3>2. \A m \in Chains : Tasks[m] = IF m \in Batch THEN list[m] ELSE <<>>
      BY <2>2 DEF Tasks, OwnTasks
    <3> QED BY <3>1, <3>2, Remaining
  \* What is left of a task is in the entry of the task.
  <2>4. ASSUME NEW m \in Chains
        PROVE  /\ Range(running[m]) \subseteq Range(Tasks[m])
               /\ Tasks[m] = <<>> => running[m] = <<>>
    <3>1. PICK n \in 0 .. Len(Tasks[m]) : Left(m, n) BY Remaining
    <3>2. /\ Len(running[m]) = Len(Tasks[m]) - n
          /\ \A i \in 1 .. Len(running[m]) : running[m][i] = Tasks[m][i + n]
      BY <3>1 DEF Left
    <3>3. Len(Tasks[m]) \in Nat /\ Len(running[m]) \in Nat BY <2>3
    <3>4. \A i \in 1 .. Len(running[m]) : i + n \in 1 .. Len(Tasks[m])
      BY <3>2, <3>3, Shift
    <3>5. \A x \in Range(running[m]) : \E i \in 1 .. Len(running[m]) : x = running[m][i]
      BY <2>3 DEF Range
    <3>6. \A i \in 1 .. Len(Tasks[m]) : Tasks[m][i] \in Range(Tasks[m])
      BY <2>3 DEF Range
    <3>7. Range(running[m]) \subseteq Range(Tasks[m]) BY <3>2, <3>4, <3>5, <3>6
    <3>8. ASSUME Tasks[m] = <<>> PROVE running[m] = <<>>
      <4>1. Len(running[m]) = 0 BY <3>2, <3>3, <3>8
      <4> QED BY <2>3, <4>1
    <3> QED BY <3>7, <3>8
  <2>5. PICK c \in unsafe : c \in Range(Tasks[k]) BY <2>4
  <2>6. k \in Batch /\ c \in Range(list[k])
    <3>1. Tasks[k] # <<>> BY <2>5 DEF Range
    <3> QED BY <2>3, <2>5, <3>1
  <2>7. PICK n \in Nat \ {0} :
          /\ Batch = at .. at + n - 1
          /\ RangeMaps(at) # {} \/ (n > 1 => \A m \in Batch : MayJoin(m))
    BY <2>1, BatchFacts
  <2>8. at \in Chains /\ at \in Nat
    BY <2>1, Entries, ChainScheduleAssumption DEF TypeOK, Chains
  <2>9. n = 1
    <3> SUFFICES ASSUME n > 1 PROVE FALSE BY <2>7
    <3>1. RangeMaps(at) = {} BY <2>2, <2>8, RangeFacts
    <3>2. Joins(k) BY <2>2, <2>6, <2>7, <3>1 DEF MayJoin
    <3> QED BY <2>5, <2>6, <3>2 DEF Joins
  <2>10. j \notin Batch
    <3>1. Batch = {at} BY <2>7, <2>8, <2>9
    <3> QED BY <2>6, <3>1
  <2> QED BY <2>3, <2>4, <2>10
<1> QED BY <1>1, Invariance, PTL
-----------------------------------------------------------------------------
\* When a task comes to a chain, what the chain needs was evaluated: in a step
\* before, or earlier in the task.
LEMMA NeedsMet ==
  ASSUME IInv, phase = "run", NEW k \in Chains, running[k] # <<>>
  PROVE  /\ Head(running[k]) \in Chains
         /\ times[Head(running[k])] = 0
         /\ \A d \in Needs[Head(running[k])] : times[d] = 1
<1> DEFINE h == Head(running[k])
<1>1. /\ TypeOK /\ ListInv /\ EmitInv /\ StepInv /\ Ordered /\ at <= Len(list)
      /\ \A e \in Batch : ReadsOf(list[e]) \subseteq env \cup LoopVariable
  BY DEF IInv, StepInv
<1>2. TasksFit(Tasks) BY <1>1, TaskFacts
<1>3. /\ running[k] \in Seq(Chains) /\ h = running[k][1] /\ h \in Chains
      /\ 1 \in 1 .. Len(running[k])
  <2>1. running[k] \in Seq(Chains) BY Remaining
  <2> QED BY <2>1
<1> HIDE DEF h
<1>4. \A c \in Chains :
        times[c] = IF Started(c) /\ ~Pending(c) /\ ~Dropped(c) THEN 1 ELSE 0
  BY <1>1 DEF StepInv
<1>5. times[h] = 0
  <2>1. h \in Range(running[k]) BY <1>3 DEF Range
  <2> QED BY <1>3, <1>4, <2>1 DEF Pending
<1>6. PICK n \in 0 .. Len(Tasks[k]) : Left(k, n) BY Remaining
<1>7. /\ n \in Nat /\ n + 1 \in 1 .. Len(Tasks[k]) /\ Tasks[k][n + 1] = h
      /\ Tasks[k] \in Seq(Chains) /\ Len(Tasks[k]) \in Nat
  <2>1. Tasks[k] \in Seq(Chains) BY <1>2 DEF TasksFit
  <2>2. Len(Tasks[k]) \in Nat /\ Len(running[k]) = Len(Tasks[k]) - n
    BY <1>6, <2>1 DEF Left
  <2>3. 1 + n \in 1 .. Len(Tasks[k]) BY <1>3, <2>2, Shift
  <2>4. running[k][1] = Tasks[k][1 + n] BY <1>3, <1>6 DEF Left
  <2>5. n \in Nat /\ 1 + n = n + 1 BY <2>2
  <2> QED BY <1>3, <2>1, <2>2, <2>3, <2>4, <2>5
<1>8. ASSUME NEW d \in Needs[h] PROVE times[d] = 1
  <2>1. PICK v \in Binds(d) : v \in Reads(h) BY <1>3, <1>8 DEF Needs
  <2>2. d \in Chains /\ ~Dropped(d)
    <3>1. d \in Chains BY <1>3, <1>8 DEF Needs
    <3>2. form[d] # "discard" BY <1>1, <2>1, <3>1, OneBinder DEF TypeOK
    <3> QED BY <3>1, <3>2 DEF Dropped
  <2>3. \/ v \notin LoopVariable /\ \E e \in Batch : v \in ReadsOf(list[e])
        \/ \E m \in 1 .. n : v \in Binds(Tasks[k][m])
    <3>1. /\ n + 1 \in 1 .. Len(Tasks[k])
          /\ v \in Reads(Tasks[k][n + 1]) /\ (n + 1) - 1 = n
      BY <1>7, <2>1
    <3>2. \/ v \notin LoopVariable /\ \E e \in Batch : v \in ReadsOf(list[e])
          \/ \E m \in 1 .. (n + 1) - 1 : v \in Binds(Tasks[k][m])
      <4>1. ReadsMet(Tasks) BY <1>2 DEF TasksFit
      <4> QED BY <3>1, <4>1 DEF ReadsMet
    <3> QED BY <3>1, <3>2
  <2>4. CASE v \notin LoopVariable /\ \E e \in Batch : v \in ReadsOf(list[e])
    <3>1. v \in env BY <1>1, <2>4
    <3>2. PICK j \in 1 .. at - 1 : v \in BindsOf(list[j]) BY <1>1, <3>1 DEF EmitInv
    <3>3. j \in DOMAIN list BY <1>1, StepChains
    <3>4. Last(list[j]) = d
      <4>1. Last(list[j]) \in Chains BY <1>1, <3>3, Entries
      <4> QED BY <1>1, <2>1, <2>2, <3>2, <4>1, OneBinder DEF TypeOK, BindsOf
    <3>5. d \in Range(list[j])
      <4>1. /\ Len(list[j]) \in 1 .. Len(list[j]) /\ list[j] \in Seq(Chains)
            /\ list[j][Len(list[j])] = d
        BY <1>1, <3>3, <3>4, Entries
      <4> QED BY <4>1 DEF Range
    <3>6. Started(d) BY <3>5 DEF Started
    <3>7. ~Pending(d)
      <4> SUFFICES ASSUME NEW m \in Chains, d \in Range(running[m]) PROVE FALSE
        BY DEF Pending
      <4>1. running[m] \in Seq(Chains) BY Remaining
      <4>2. PICK i \in 1 .. Len(running[m]) : running[m][i] = d BY <4>1 DEF Range
      <4>3. \E e \in Batch : d \in Range(list[e]) BY <4>2, Remaining
      <4> QED BY <1>1, <3>5, <4>3, StepChains
    <3> QED BY <1>4, <2>2, <3>6, <3>7
  <2>5. CASE \E m \in 1 .. n : v \in Binds(Tasks[k][m])
    <3>1. PICK m \in 1 .. n : v \in Binds(Tasks[k][m]) BY <2>5
    <3>2. m \in 1 .. Len(Tasks[k]) /\ m \in Nat /\ m <= n BY <1>7
    <3>3. Tasks[k][m] = d
      <4>1. Tasks[k][m] \in Chains BY <1>7, <3>2
      <4> QED BY <1>1, <2>1, <2>2, <3>1, <4>1, OneBinder DEF TypeOK
    <3>4. Started(d)
      <4>1. \E e \in Batch : d \in Range(list[e]) BY <1>2, <3>2, <3>3 DEF TasksFit
      <4> QED BY <4>1 DEF Started, InStep
    <3>5. ~Pending(d)
      <4> SUFFICES ASSUME NEW j \in Chains, d \in Range(running[j]) PROVE FALSE
        BY DEF Pending
      <4>1. running[j] \in Seq(Chains) BY Remaining
      <4>2. PICK i \in 1 .. Len(running[j]) : running[j][i] = d BY <4>1 DEF Range
      <4>3. PICK q \in 0 .. Len(Tasks[j]) : Left(j, q) BY Remaining
      <4>4. Len(Tasks[j]) \in Nat
        <5>1. Tasks[j] \in Seq(Chains) BY <1>2 DEF TasksFit
        <5> QED BY <5>1
      <4>5. i + q \in 1 .. Len(Tasks[j]) /\ Tasks[j][i + q] = d
        <5>1. Len(running[j]) = Len(Tasks[j]) - q BY <4>3 DEF Left
        <5>2. i + q \in 1 .. Len(Tasks[j]) BY <4>4, <5>1, Shift
        <5> QED BY <4>2, <4>3, <5>2 DEF Left
      <4>6. j = k /\ i + q = m
        <5>1. \A a, b \in Chains : \A x \in 1 .. Len(Tasks[a]), y \in 1 .. Len(Tasks[b]) :
                Tasks[a][x] = Tasks[b][y] => a = b /\ x = y
          BY <1>2 DEF TasksFit
        <5> QED BY <3>2, <3>3, <4>5, <5>1
      <4>7. q = n
        <5>1. /\ Len(running[k]) = Len(Tasks[k]) - q
              /\ Len(running[k]) = Len(Tasks[k]) - n
          BY <1>6, <4>3, <4>6 DEF Left
        <5>2. q \in Nat BY <4>4
        <5> QED BY <1>7, <5>1, <5>2
      <4>8. i \in Nat /\ 1 <= i OBVIOUS
      <4> QED BY <1>7, <3>2, <4>6, <4>7, <4>8
    <3> QED BY <1>4, <2>2, <3>4, <3>5
  <2> QED BY <2>3, <2>4, <2>5
<1> QED BY <1>3, <1>5, <1>8 DEF h

LEMMA StepIsDataflow == IInv /\ [Next]_vars => [D!Next]_<<Needs, times>>
<1> SUFFICES ASSUME IInv, [Next]_vars PROVE [D!Next]_<<Needs, times>> OBVIOUS
<1>1. UNCHANGED body
  BY DEF Next, Check, Fuse, EndFusion, StartStep, Evaluate, EndStep, Return, Stopped, vars
<1>2. Needs' = Needs
  <2>1. \A c : Binds(c)' = Binds(c) /\ Reads(c)' = Reads(c) BY <1>1, BodyFrame
  <2> QED BY <2>1 DEF Needs
<1>3. ASSUME NEW k \in Chains, Evaluate(k) PROVE D!Next
  <2> DEFINE h == Head(running[k])
  <2>1. h \in Chains /\ times[h] = 0 /\ \A d \in Needs[h] : times[d] = 1
    BY <1>3, NeedsMet DEF Evaluate
  <2>2. times' = [times EXCEPT ![h] = 1]
    <3>1. times' = [times EXCEPT ![h] = @ + 1] BY <1>3 DEF Evaluate
    <3> QED BY <2>1, <3>1
  <2> HIDE DEF h
  <2>3. D!Evaluate(h) BY <1>2, <2>1, <2>2 DEF D!Evaluate
  <2> QED BY <2>1, <2>3 DEF D!Next
<1>4. CASE ~\E k \in Chains : Evaluate(k)
  <2>1. times' = times
    BY <1>4 DEF Next, Check, Fuse, EndFusion, StartStep, EndStep, Return, Stopped, vars
  <2> QED BY <1>2, <2>1
<1> QED BY <1>3, <1>4

\* Fused, batched and interleaved, a body is evaluated as dataflow: each chain
\* at most once, after all it needs.
THEOREM EvaluatesAsDataflow == Spec => ImplementsDataflow
<1>1. Init => D!Init
  <2> SUFFICES ASSUME Init PROVE D!Init OBVIOUS
  <2>1. times = [c \in Chains |-> 0] BY DEF Init
  <2>2. Needs \in [Chains -> SUBSET Chains] BY DEF Needs
  <2> QED BY <2>1, <2>2 DEF D!Init
<1>2. IInv /\ [Next]_vars => [D!Next]_<<Needs, times>> BY StepIsDataflow
<1> QED BY <1>1, <1>2, Invariance, PTL DEF Spec, ImplementsDataflow, D!Spec
=============================================================================
