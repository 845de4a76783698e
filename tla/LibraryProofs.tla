---------------------------- MODULE LibraryProofs ----------------------------
(***************************************************************************)
(* The calls of the standard library keep their documented meaning on      *)
(* every target, for registers of any width, floats of any range and       *)
(* sequences of any length.  One lemma per node says what each back end    *)
(* computes; one lemma per action draws on them for the invariant.         *)
(***************************************************************************)
EXTENDS Library, TLAPS, FiniteSetTheorems, NaturalsInduction,
        WellFoundedInduction, SequenceTheorems

-----------------------------------------------------------------------------
(* The inductive invariant.                                                *)

(* The faults a program can see.                                           *)
Messages ==
  {"", "overflow", "by_zero", "negative", "empty", "range", "first", "second"}

(* What the value in the pipe may be.                                      *)
Kinds == {"int", "float", "bit", "seq", "rows", "pairs", "items"}

(* The values of a kind.                                                   *)
Holds(s, v) ==
  /\ s = "int" => v \in Ints
  /\ s = "float" => v \in Floats
  /\ s = "seq" => v \in Seq(Ints) /\ Len(v) <= MaxLen
  /\ s = "rows" => /\ v \in Seq(Seq(Ints)) /\ Len(v) <= MaxLen
                   /\ \A r \in DOMAIN v : Len(v[r]) \in Ints
  /\ s = "items" => v \in Seq(Faultables)

(* A documented outcome: a value of the kind, an abort or a fault.         *)
Outcome(s, m) ==
  IF m.ok THEN m = Ok(m.value) /\ Holds(s, m.value)
  ELSE m = Dead \/ \E f \in Messages : m = Fault(f)

(* Every target holds that outcome but those that stray, and no structure  *)
(* is left where every target strays.                                      *)
Good(s, v, m, x) ==
  /\ s \in Kinds /\ Outcome(s, m)
  /\ s \in {"seq", "rows", "pairs"} => x # Targets
  /\ x # Targets => \A b \in Targets : Same(v[b], m) <=> b \notin x

(* The inductive invariant.                                                *)
IInv == Good(shape, value, meant, stray)

-----------------------------------------------------------------------------
(* Induction and recursion over a range of naturals.                       *)

(* The order of the naturals, as a relation.                               *)
Below == {ss \in Nat \X Nat : ss[1] < ss[2]}

(* A set of naturals that is not empty has a least element.                *)
LEMMA LeastNatural ==
  ASSUME NEW T \in SUBSET Nat, T # {}
  PROVE  \E x \in T : \A y \in T : x <= y
<1>1. IsWellFoundedOn(Below, Nat)
  <2>1. OpToRel(<, Nat) = Below
    BY DEF OpToRel, Below
  <2> QED
    BY <2>1, NatLessThanWellFounded
<1>2. PICK x \in T : \A y \in T : ~(<<y, x>> \in Below)
  BY <1>1, WFMin
<1>3. ASSUME NEW y \in T PROVE x <= y
  <2>1. x \in Nat /\ y \in Nat /\ <<y, x>> \in Nat \X Nat
    OBVIOUS
  <2>2. ~(y < x)
    BY <1>2, <2>1 DEF Below
  <2> QED
    BY <2>1, <2>2
<1> QED
  BY <1>3

(* A set that holds 0 and, with a number up to b, the next.                *)
Climbs(S, b) == 0 \in S /\ \A n \in 1 .. b : n - 1 \in S => n \in S

(* What climbs holds throughout: induction over a range, for a set.        *)
LEMMA Climb ==
  ASSUME NEW b \in Nat, NEW S, Climbs(S, b)
  PROVE  0 .. b \subseteq S
<1> DEFINE Bad == {n \in 0 .. b : n \notin S}
<1> SUFFICES ASSUME Bad # {} PROVE FALSE
  OBVIOUS
<1>1. Bad \in SUBSET Nat
  OBVIOUS
<1>2. PICK m \in Bad : \A y \in Bad : m <= y
  <2> HIDE DEF Bad
  <2> QED
    BY <1>1, LeastNatural
<1>3. m \in 0 .. b /\ m \notin S
  OBVIOUS
<1>4. m # 0 /\ m \in 1 .. b /\ m - 1 \in 0 .. b
  <2>1. m # 0
    BY <1>3 DEF Climbs
  <2> QED
    BY <1>3, <2>1
<1>5. m - 1 \notin Bad
  <2> HIDE DEF Bad
  <2> QED
    BY <1>2, <1>4
<1>6. 0 \in S /\ (m - 1 \in S => m \in S)
  BY <1>4 DEF Climbs
<1> QED
  BY <1>3, <1>4, <1>5, <1>6

(* f is what the recursion that starts with first and goes on with step    *)
(* defines.                                                                *)
Solution(N, D, first, step, f) ==
  f \in [0 .. N -> D] /\ f[0] = first /\ \A n \in 1 .. N : f[n] = step[n][f[n - 1]]

(* Recursion over the positions of a sequence has a result.                *)
LEMMA Recursion ==
  ASSUME NEW N \in Nat, NEW D, NEW first \in D, NEW step \in [1 .. N -> [D -> D]]
  PROVE  \E f : Solution(N, D, first, step, f)
<1> DEFINE Upto(m, f) == f[0] = first /\ \A n \in 1 .. m : f[n] = step[n][f[n - 1]]
           S == {m \in 0 .. N : \E f \in [0 .. m -> D] : Upto(m, f)}
<1>1. 0 \in S
  <2>1. PICK g : g = [n \in 0 .. 0 |-> first]
    OBVIOUS
  <2>2. g \in [0 .. 0 -> D] /\ Upto(0, g)
    BY <2>1
  <2>3. \E f \in [0 .. 0 -> D] : Upto(0, f)
    BY <2>2
  <2> HIDE DEF Upto
  <2> QED
    BY <2>3
<1>2. ASSUME NEW b \in 1 .. N, b - 1 \in S PROVE b \in S
  <2>6. PICK f \in [0 .. b - 1 -> D] : Upto(b - 1, f)
    BY <1>2
  <2>7. PICK last \in D : last = step[b][f[b - 1]]
    <3>1. b - 1 \in 0 .. b - 1
      OBVIOUS
    <3> QED
      BY <3>1
  <2>8. PICK g : g = [n \in 0 .. b |-> IF n = b THEN last ELSE f[n]]
    OBVIOUS
  <2>9. g \in [0 .. b -> D] /\ g[b] = last /\ \A n \in 0 .. b - 1 : g[n] = f[n]
    BY <2>8
  <2>10. Upto(b, g)
    <3>1. g[0] = first
      BY <2>6, <2>9
    <3>2. ASSUME NEW n \in 1 .. b PROVE g[n] = step[n][g[n - 1]]
      <4>1. n \in Nat /\ n - 1 \in 0 .. b - 1 /\ b \in Nat
        OBVIOUS
      <4>2. g[n - 1] = f[n - 1]
        BY <4>1, <2>9
      <4>3. CASE n = b
        BY <4>2, <4>3, <2>7, <2>9
      <4>4. CASE n # b
        <5>1. n \in 1 .. b - 1 /\ n \in 0 .. b - 1
          BY <4>1, <4>4
        <5>2. f[n] = step[n][f[n - 1]]
          BY <5>1, <2>6
        <5> QED
          BY <5>1, <5>2, <4>2, <2>9
      <4> QED
        BY <4>3, <4>4
    <3> QED
      BY <3>1, <3>2
  <2> QED
    BY <2>9, <2>10
<1>3. N \in S
  <2> HIDE DEF S
  <2>1. \A n \in 1 .. N : n - 1 \in S => n \in S
    BY <1>2
  <2>2. Climbs(S, N)
    BY <1>1, <2>1 DEF Climbs
  <2> QED
    BY <2>2, Climb
<1> QED
  BY <1>3 DEF Solution

-----------------------------------------------------------------------------
(* Powers of two, and the integers of a register.                          *)

(* Powers are a function and satisfy their recursion.                      *)
LEMMA PowerUnfolds ==
  /\ Power \in [0 .. Width -> Nat]
  /\ Power[0] = 1
  /\ \A n \in 1 .. Width : Power[n] = 2 * Power[n - 1]
<1> DEFINE step == [n \in 1 .. Width |-> [r \in Nat |-> 2 * r]]
<1>0. Width \in Nat \ {0}
  BY WidthAssumption
<1>1. PICK f \in [0 .. Width -> Nat] :
        f[0] = 1 /\ \A n \in 1 .. Width : f[n] = step[n][f[n - 1]]
  <2>1. step \in [1 .. Width -> [Nat -> Nat]]
    OBVIOUS
  <2> HIDE DEF step
  <2>2. \E f : Solution(Width, Nat, 1, step, f)
    BY <1>0, <2>1, Recursion
  <2> QED
    BY <2>2 DEF Solution
<1>2. \A n \in 1 .. Width : f[n] = 2 * f[n - 1]
  <2> SUFFICES ASSUME NEW n \in 1 .. Width PROVE f[n] = 2 * f[n - 1]
    OBVIOUS
  <2>1. n - 1 \in 0 .. Width
    BY <1>0
  <2> QED
    BY <1>1, <2>1
<1>3. f = [n \in 0 .. Width |-> IF n = 0 THEN 1 ELSE 2 * f[n - 1]]
  <2> HIDE DEF step
  <2> QED
    BY <1>0, <1>1, <1>2
<1>4. Power = [n \in 0 .. Width |-> IF n = 0 THEN 1 ELSE 2 * Power[n - 1]]
  <2> HIDE DEF step
  <2> QED
    BY <1>3 DEF Power
<1>5. \A n \in 0 .. Width : Power[n] = IF n = 0 THEN 1 ELSE 2 * Power[n - 1]
  BY <1>4
<1> HIDE DEF step
<1>6. \A n \in 0 .. Width : Power[n] = f[n]
  <2> DEFINE S == {n \in 0 .. Width : Power[n] = f[n]}
  <2>1. 0 \in S
    BY <1>0, <1>1, <1>5
  <2>2. ASSUME NEW n \in 1 .. Width, n - 1 \in S PROVE n \in S
    <3>1. n \in 0 .. Width /\ n - 1 \in 0 .. Width /\ n # 0
      BY <1>0
    <3>2. Power[n - 1] = f[n - 1]
      BY <2>2
    <3>3. Power[n] = 2 * Power[n - 1]
      BY <1>5, <3>1
    <3>4. f[n] = 2 * f[n - 1]
      BY <1>2
    <3> QED
      BY <3>1, <3>2, <3>3, <3>4
  <2> HIDE DEF S
  <2>3. Climbs(S, Width)
    BY <2>1, <2>2 DEF Climbs
  <2>4. 0 .. Width \subseteq S
    BY <1>0, <2>3, Climb
  <2> QED
    BY <2>4 DEF S
<1>7. Power = f
  BY <1>1, <1>4, <1>6
<1> QED
  BY <1>1, <1>2, <1>7

(* Powers are positive, and even from the first on.                        *)
LEMMA PowerFacts ==
  /\ \A n \in 0 .. Width : Power[n] \in Nat \ {0}
  /\ \A n \in 1 .. Width : Power[n] >= 2
  /\ Power[0] = 1 /\ Power[Width] = 2 * Power[Width - 1]
  /\ Power[Width] \in Nat \ {0} /\ Power[Width - 1] \in Nat \ {0}
<1>0. Width \in Nat \ {0}
  BY WidthAssumption
<1> DEFINE S == {n \in 0 .. Width : Power[n] > 0}
<1>1. 0 \in S
  BY <1>0, PowerUnfolds
<1>2. ASSUME NEW n \in 1 .. Width, n - 1 \in S PROVE n \in S
  <2>1. Power[n] = 2 * Power[n - 1] /\ Power[n - 1] \in Nat /\ Power[n - 1] > 0
    BY <1>0, <1>2, PowerUnfolds
  <2> QED
    BY <2>1
<1>3. 0 .. Width \subseteq S
  <2> HIDE DEF S
  <2>1. Climbs(S, Width)
    BY <1>1, <1>2 DEF Climbs
  <2> QED
    BY <1>0, <2>1, Climb
<1>4. \A n \in 0 .. Width : Power[n] \in Nat \ {0}
  BY <1>3, PowerUnfolds
<1>5. ASSUME NEW n \in 1 .. Width PROVE Power[n] >= 2
  <2>1. n - 1 \in 0 .. Width
    BY <1>0
  <2>2. Power[n - 1] \in Nat \ {0} /\ Power[n] = 2 * Power[n - 1]
    BY <1>4, <2>1, PowerUnfolds
  <2> QED
    BY <2>2
<1>6. Width \in 1 .. Width /\ Width - 1 \in 0 .. Width /\ Width \in 0 .. Width
  BY <1>0
<1>7. Power[0] = 1 /\ Power[Width] = 2 * Power[Width - 1]
  BY <1>6, PowerUnfolds
<1>8. Power[Width] \in Nat \ {0} /\ Power[Width - 1] \in Nat \ {0}
  BY <1>4, <1>6
<1> QED
  BY <1>4, <1>5, <1>7, <1>8

(* The bounds of a register, and the integers between them.                *)
LEMMA IntsFacts ==
  /\ IntMin \in Int /\ IntMax \in Int /\ Power[Width] \in Nat \ {0}
  /\ IntMin < 0 /\ IntMax >= 0 /\ IntMax = -IntMin - 1 /\ Power[Width] = -2 * IntMin
  /\ Ints \subseteq Int /\ 0 \in Ints
  /\ \A n \in Int : n \in Ints <=> IntMin <= n /\ n <= IntMax
BY PowerFacts DEF IntMin, IntMax, Ints

(* Wrapping keeps what the register holds, and alters everything else.     *)
LEMMA WrapFacts ==
  ASSUME NEW n \in Int
  PROVE  Wrap(n) \in Ints /\ (Wrap(n) = n <=> n \in Ints)
<1>1. PICK m \in Nat \ {0} : m = Power[Width]
  BY IntsFacts
<1>2. (n - IntMin) % m \in 0 .. m - 1
  BY <1>1, IntsFacts
<1>3. n \in Ints => (n - IntMin) % m = n - IntMin
  BY <1>1, IntsFacts
<1> QED
  BY <1>1, <1>2, <1>3, IntsFacts DEF Wrap

-----------------------------------------------------------------------------
(* Results.                                                                *)

(* What tells the outcomes of nodes apart.                                 *)
LEMMA ResultFacts ==
  /\ \A v : Ok(v).ok = TRUE /\ Ok(v).value = v /\ Ok(v) # Dead
  /\ \A f : Fault(f).ok = FALSE /\ Fault(f).fault = f
  /\ \A f \in Messages : Fault(f) \notin {Dead, WrongShape, Refused}
  /\ Dead.ok = FALSE /\ WrongShape.ok = FALSE /\ Refused.ok = FALSE
  /\ Dead # WrongShape /\ Dead # Refused
<1>1. \A v : Ok(v).ok = TRUE /\ Ok(v).value = v
  BY DEF Ok
<1>2. \A f : Fault(f).ok = FALSE /\ Fault(f).fault = f
  BY DEF Fault
<1>3. /\ Dead.ok = FALSE /\ WrongShape.ok = FALSE /\ Refused.ok = FALSE
      /\ Dead.fault = "aborted" /\ WrongShape.fault = "wrong_shape" /\ Refused.fault = "not_compiled"
  BY DEF Dead, WrongShape, Refused
<1>4. "aborted" \notin Messages /\ "wrong_shape" \notin Messages /\ "not_compiled" \notin Messages
  BY DEF Messages
<1>5. \A f \in Messages : Fault(f) \notin {Dead, WrongShape, Refused}
  BY <1>2, <1>3, <1>4
<1>6. Dead # WrongShape /\ Dead # Refused
  BY <1>3
<1>7. \A v : Ok(v) # Dead
  BY <1>1, <1>3
<1> QED
  BY <1>1, <1>2, <1>3, <1>5, <1>6, <1>7

(* Two outcomes with values are the same when the values are.              *)
LEMMA OkIsOne ==
  ASSUME NEW v, NEW w
  PROVE  Ok(v) = Ok(w) <=> v = w
<1>1. Ok(v).value = v /\ Ok(w).value = w
  BY ResultFacts
<1> QED
  BY <1>1

(* When an outcome is the documented one.                                  *)
LEMMA SameFacts ==
  /\ \A v, w : Same(Ok(v), Ok(w)) <=> v = w
  /\ \A v : ~Same(Ok(v), Dead) /\ ~Same(Dead, Ok(v))
  /\ \A m : ~Same(WrongShape, m) /\ ~Same(Refused, m)
  /\ \A v, f : ~Same(Ok(v), Fault(f)) /\ ~Same(Fault(f), Ok(v))
  /\ \A f, g \in Messages : Same(Fault(f), Fault(g))
  /\ \A f \in Messages : ~Same(Dead, Fault(f)) /\ ~Same(Fault(f), Dead)
  /\ Same(Dead, Dead)
<1>1. \A m : ~Same(WrongShape, m) /\ ~Same(Refused, m)
  BY ResultFacts DEF Same
<1>2. /\ \A v, w : Same(Ok(v), Ok(w)) <=> v = w
      /\ \A v : ~Same(Ok(v), Dead) /\ ~Same(Dead, Ok(v))
      /\ \A v, f : ~Same(Ok(v), Fault(f)) /\ ~Same(Fault(f), Ok(v))
  BY ResultFacts DEF Same
<1>3. \A f, g \in Messages : Same(Fault(f), Fault(g))
  BY ResultFacts DEF Same
<1>4. \A f \in Messages : ~Same(Dead, Fault(f)) /\ ~Same(Fault(f), Dead)
  BY ResultFacts DEF Same
<1>5. Same(Dead, Dead)
  BY ResultFacts DEF Same
<1> QED
  BY <1>1, <1>2, <1>3, <1>4, <1>5

-----------------------------------------------------------------------------
(* Division.                                                               *)

(* Division of naturals: the quotient and remainder there are.             *)
LEMMA NatDivision ==
  ASSUME NEW a \in Nat, NEW b \in Nat \ {0}
  PROVE  /\ a \div b \in Nat
         /\ b * (a \div b) <= a /\ a < b * (a \div b) + b
         /\ a \div b <= a /\ (b >= 2 /\ a > 0 => a \div b < a)
<1>1. b * (a \div b) <= a /\ a < b * (a \div b) + b
  OBVIOUS
<1>2. PICK q \in Int : q = a \div b
  OBVIOUS
<1>4. b * q <= a /\ a < b * q + b
  BY <1>1, <1>2
<1>3. q >= 0
  <2>1. b * (q + 1) > 0
    BY <1>4
  <2> QED
    BY <2>1
<1>5. q <= b * q /\ (b >= 2 => 2 * q <= b * q)
  BY <1>3
<1> QED
  BY <1>2, <1>3, <1>4, <1>5

(* Division that rounds to zero, by the signs of its operands.             *)
LEMMA TruncFacts ==
  ASSUME NEW a \in Int, NEW b \in Int, b # 0
  PROVE  /\ TruncDiv(a, b) \in Int /\ TruncRem(a, b) \in Int
         /\ a = b * TruncDiv(a, b) + TruncRem(a, b)
         /\ Magnitude(TruncDiv(a, b)) <= Magnitude(a)
         /\ Magnitude(b) >= 2 /\ a # 0 => Magnitude(TruncDiv(a, b)) < Magnitude(a)
         /\ b = 1 => TruncDiv(a, b) = a
         /\ b = -1 => TruncDiv(a, b) = -a
         /\ Magnitude(TruncRem(a, b)) < Magnitude(b)
         /\ a >= 0 => TruncRem(a, b) \in 0 .. a
         /\ a <= 0 => -TruncRem(a, b) \in 0 .. -a
<1>1. Magnitude(a) \in Nat /\ Magnitude(b) \in Nat \ {0}
  BY DEF Magnitude
<1>2. PICK q \in Nat : q = Magnitude(a) \div Magnitude(b)
  BY <1>1, NatDivision
<1>3. /\ Magnitude(b) * q <= Magnitude(a) /\ Magnitude(a) < Magnitude(b) * q + Magnitude(b)
      /\ q <= Magnitude(a) /\ (Magnitude(b) >= 2 /\ a # 0 => q < Magnitude(a))
      /\ (Magnitude(b) = 1 => q = Magnitude(a))
  <2>1. a # 0 => Magnitude(a) > 0
    BY DEF Magnitude
  <2>2. Magnitude(b) = 1 => q = Magnitude(a)
    BY <1>1, <1>2
  <2> QED
    BY <1>1, <1>2, <2>1, <2>2, NatDivision
<1>4. TruncDiv(a, b) = IF (a < 0) = (b < 0) THEN q ELSE -q
  BY <1>2 DEF TruncDiv
<1>5. TruncDiv(a, b) \in Int /\ Magnitude(TruncDiv(a, b)) = q
  BY <1>4 DEF Magnitude
<1>6. PICK m \in Int : m = Magnitude(b) * q
  BY <1>1, <1>2
<1>7. b * TruncDiv(a, b) = IF a < 0 THEN -m ELSE m
  BY <1>4, <1>6 DEF Magnitude
<1>8. TruncRem(a, b) = a - (IF a < 0 THEN -m ELSE m)
  BY <1>7 DEF TruncRem
<1>9. m \in 0 .. Magnitude(a) /\ Magnitude(a) - m < Magnitude(b)
  BY <1>1, <1>3, <1>6
<1> QED
  <2>1. TruncRem(a, b) \in Int /\ a = b * TruncDiv(a, b) + TruncRem(a, b)
    BY <1>7, <1>8
  <2>2. Magnitude(TruncRem(a, b)) < Magnitude(b)
    BY <1>8, <1>9 DEF Magnitude
  <2>3. (a >= 0 => TruncRem(a, b) \in 0 .. a) /\ (a <= 0 => -TruncRem(a, b) \in 0 .. -a)
    BY <1>8, <1>9 DEF Magnitude
  <2>4. (b = 1 => TruncDiv(a, b) = a) /\ (b = -1 => TruncDiv(a, b) = -a)
    BY <1>3, <1>4 DEF Magnitude
  <2>5. /\ Magnitude(TruncDiv(a, b)) <= Magnitude(a)
        /\ Magnitude(b) >= 2 /\ a # 0 => Magnitude(TruncDiv(a, b)) < Magnitude(a)
    BY <1>3, <1>5
  <2> QED
    BY <1>5, <2>1, <2>2, <2>3, <2>4, <2>5

(* Quotient and remainder of integers are integers, but for one quotient.   *)
LEMMA DivisionStaysInside ==
  ASSUME NEW x \in Ints, NEW y \in Ints, y # 0, ~(x = IntMin /\ y = -1)
  PROVE  TruncDiv(x, y) \in Ints /\ TruncRem(x, y) \in Ints
<1>1. x \in Int /\ y \in Int /\ IntMin <= x /\ x <= IntMax
  BY IntsFacts
<1>2. Magnitude(y) = 1 \/ Magnitude(y) >= 2
  BY <1>1 DEF Magnitude
<1>3. TruncRem(x, y) \in Ints
  <2>1. TruncRem(x, y) \in Int
    BY <1>1, TruncFacts
  <2>2. (x >= 0 => TruncRem(x, y) \in 0 .. x) /\ (x <= 0 => -TruncRem(x, y) \in 0 .. -x)
    BY <1>1, TruncFacts
  <2> QED
    BY <1>1, <2>1, <2>2, IntsFacts
<1>4. CASE Magnitude(y) = 1
  <2>1. y = 1 \/ y = -1
    BY <1>1, <1>4 DEF Magnitude
  <2>2. TruncDiv(x, y) = x \/ (x # IntMin /\ TruncDiv(x, y) = -x)
    BY <1>1, <2>1, TruncFacts
  <2> QED
    BY <1>1, <1>3, <2>2, IntsFacts
<1>5. CASE Magnitude(y) >= 2
  <2>1. TruncDiv(x, y) \in Int /\ Magnitude(TruncDiv(x, y)) <= Magnitude(x)
        /\ (x # 0 => Magnitude(TruncDiv(x, y)) < Magnitude(x))
    BY <1>1, <1>5, TruncFacts
  <2> QED
    BY <1>1, <1>3, <2>1, IntsFacts DEF Magnitude
<1> QED
  BY <1>2, <1>4, <1>5

-----------------------------------------------------------------------------
(* Integer nodes on every target, for a register of any width.             *)

(* Where a numeric node has no result.                                     *)
Bad(op, x, y) ==
  \/ op \in Dividing /\ (y = 0 \/ (x = IntMin /\ y = -1))
  \/ op \in Overflowing /\ Exact(op, x, y) \notin Ints

(* The node aborts there, or faults there.                                 *)
Aborts(r, bad, v) == r = IF bad THEN Dead ELSE Ok(v)
Faults(r, bad, v) == IF bad THEN \E f \in Messages : r = Fault(f) ELSE r = Ok(v)

(* Where a node faults, and where it does not.                             *)
LEMMA FaultsFacts ==
  ASSUME NEW bad \in BOOLEAN, NEW v
  PROVE  /\ \A f \in Messages : Faults(IF bad THEN Fault(f) ELSE Ok(v), bad, v)
         /\ \A r : Faults(r, bad, v) => Same(r, IF bad THEN Failure(TRUE) ELSE Ok(v))
         /\ \A r : Aborts(r, bad, v) => Same(r, IF bad THEN Failure(FALSE) ELSE Ok(v))
<1>1. Failure(TRUE) = Fault("") /\ Failure(FALSE) = Dead /\ "" \in Messages
  BY DEF Failure, Messages
<1>2. CASE bad
  <2>1. \A f \in Messages : Faults(Fault(f), bad, v)
    BY <1>2 DEF Faults
  <2>2. \A r : Faults(r, bad, v) => Same(r, Failure(TRUE))
    <3> SUFFICES ASSUME NEW r, Faults(r, bad, v) PROVE Same(r, Failure(TRUE))
      OBVIOUS
    <3>1. PICK f \in Messages : r = Fault(f)
      BY <1>2 DEF Faults
    <3>2. Same(Fault(f), Fault(""))
      BY <1>1, SameFacts
    <3> QED
      BY <1>1, <3>1, <3>2
  <2>3. \A r : Aborts(r, bad, v) => Same(r, Failure(FALSE))
    BY <1>1, <1>2, SameFacts DEF Aborts
  <2> QED
    BY <1>2, <2>1, <2>2, <2>3
<1>3. CASE ~bad
  BY <1>3, SameFacts DEF Faults, Aborts
<1> QED
  BY <1>2, <1>3

(* An exact result that is not bad fits the register.                      *)
LEMMA ExactFacts ==
  ASSUME NEW x \in Ints, NEW y \in Ints, NEW op \in Overflowing \cup Dividing
  PROVE  /\ op \in Overflowing =>
              /\ op \notin Dividing /\ Exact(op, x, y) \in Int
              /\ Wrap(Exact(op, x, y)) = Exact(op, x, y) <=> Exact(op, x, y) \in Ints
         /\ op \in Dividing => op \notin Overflowing
         /\ ~Bad(op, x, y) => Exact(op, x, y) \in Ints
<1>1. x \in Int /\ y \in Int
  BY IntsFacts
<1>2. CASE op \in Overflowing
  <2>1. op \notin Dividing
    BY <1>2 DEF Overflowing, Dividing
  <2>2. Exact(op, x, y) \in Int
    BY <1>1, <1>2 DEF Overflowing, Exact
  <2> QED
    BY <1>2, <2>1, <2>2, WrapFacts DEF Bad
<1>3. CASE op \in Dividing
  <2>1. op \notin Overflowing
    BY <1>3 DEF Overflowing, Dividing
  <2>2. Exact(op, x, y) \in {TruncDiv(x, y), TruncRem(x, y)}
    BY <1>3 DEF Dividing, Exact
  <2>3. ~Bad(op, x, y) => Exact(op, x, y) \in Ints
    BY <1>3, <2>2, DivisionStaysInside DEF Bad
  <2> QED
    BY <1>3, <2>1, <2>3
<1> QED
  BY <1>2, <1>3

(* Each checked function aborts where the node has no result, ...          *)
LEMMA CheckedNodes ==
  ASSUME NEW x \in Ints, NEW y \in Ints, NEW op \in Overflowing \cup Dividing
  PROVE  /\ Aborts(CChecked(op, x, y), Bad(op, x, y), Exact(op, x, y))
         /\ Aborts(WasmChecked(op, x, y), Bad(op, x, y), Exact(op, x, y))
         /\ Aborts(TsChecked(op, x, y), Bad(op, x, y), Exact(op, x, y))
         /\ Aborts(WorkerChecked(op, x, y), Bad(op, x, y), Exact(op, x, y))
<1> DEFINE n == Exact(op, x, y)
<1>1. CASE op \in Overflowing
  <2>1. Bad(op, x, y) <=> n \notin Ints
    BY <1>1, ExactFacts DEF Bad
  <2>2. n \in Int /\ (n < IntMin \/ n > IntMax <=> n \notin Ints)
    BY <1>1, ExactFacts, IntsFacts
  <2>3. (Wrap(n) # n <=> n \notin Ints) /\ (n \in Ints => Wrap(n) = n)
    BY <1>1, ExactFacts
  <2> HIDE DEF n
  <2> QED
    BY <1>1, <2>1, <2>2, <2>3
    DEF n, Aborts, CChecked, WasmChecked, WasmCheckedOverflow, TsChecked, WorkerChecked,
        BuiltinOverflow, TrapIf, AssertInt
<1>2. CASE op \in Dividing
  <2>1. /\ op \notin Overflowing
        /\ Bad(op, x, y) <=> y = 0 \/ (x = IntMin /\ y = -1)
    BY <1>2, ExactFacts DEF Bad
  <2> HIDE DEF n
  <2> QED
    BY <2>1
    DEF n, Aborts, CChecked, WasmChecked, WasmCheckedDivRem, TsChecked, WorkerChecked
<1> QED
  BY <1>1, <1>2

(* ... and each Faultable one faults there.                                *)
LEMMA FaultableNodes ==
  ASSUME NEW x \in Ints, NEW y \in Ints, NEW op \in Overflowing \cup Dividing
  PROVE  /\ Faults(CFaultable(op, x, y), Bad(op, x, y), Exact(op, x, y))
         /\ Faults(WasmFaultable(op, x, y), Bad(op, x, y), Exact(op, x, y))
         /\ Faults(TsFaultable(op, x, y), Bad(op, x, y), Exact(op, x, y))
         /\ Faults(WorkerFaultable(op, x, y), Bad(op, x, y), Exact(op, x, y))
<1> DEFINE n == Exact(op, x, y)
<1>0. "" \in Messages /\ "overflow" \in Messages /\ "by_zero" \in Messages
  BY DEF Messages
<1>1. CASE op \in Overflowing
  <2>1. Bad(op, x, y) <=> n \notin Ints
    BY <1>1, ExactFacts DEF Bad
  <2>2. n \in Int /\ (n < IntMin \/ n > IntMax <=> n \notin Ints)
    BY <1>1, ExactFacts, IntsFacts
  <2>3. (Wrap(n) # n <=> n \notin Ints) /\ (n \in Ints => Wrap(n) = n)
    BY <1>1, ExactFacts
  <2> HIDE DEF n
  <2>4. /\ CFaultable(op, x, y) = IF n \notin Ints THEN Fault("overflow") ELSE Ok(n)
        /\ WasmFaultable(op, x, y) = IF n \notin Ints THEN Fault("") ELSE Ok(n)
        /\ TsFaultable(op, x, y) = IF n \notin Ints THEN Fault("overflow") ELSE Ok(n)
        /\ WorkerFaultable(op, x, y) = IF n \notin Ints THEN Fault("overflow") ELSE Ok(n)
    BY <1>1, <2>2, <2>3
    DEF n, CFaultable, WasmFaultable, WasmFaultableOverflow, TsFaultable, WorkerFaultable,
        BuiltinOverflow, FaultIf
  <2> QED
    BY <1>0, <2>1, <2>4 DEF n, Faults
<1>2. CASE op \in Dividing
  <2>1. /\ op \notin Overflowing
        /\ Bad(op, x, y) <=> y = 0 \/ (x = IntMin /\ y = -1)
    BY <1>2, ExactFacts DEF Bad
  <2> HIDE DEF n
  <2>2. /\ WasmFaultable(op, x, y) = IF Bad(op, x, y) THEN Fault("") ELSE Ok(n)
        /\ CFaultable(op, x, y) = TsFaultable(op, x, y)
        /\ WorkerFaultable(op, x, y) = TsFaultable(op, x, y)
        /\ TsFaultable(op, x, y) =
             IF y = 0 THEN Fault("by_zero")
             ELSE IF x = IntMin /\ y = -1 THEN Fault("overflow") ELSE Ok(n)
    BY <2>1
    DEF n, CFaultable, WasmFaultable, WasmFaultableDivRem, TsFaultable, WorkerFaultable
  <2> QED
    BY <1>0, <2>1, <2>2 DEF n, Faults
<1> QED
  BY <1>1, <1>2

(* Negation and magnitude have no result for the smallest integer only.    *)
LEMMA UnaryNodes ==
  ASSUME NEW x \in Ints, NEW op \in {"neg", "abs"}
  PROVE  /\ x # IntMin => Unary(op, x) \in Ints
         /\ Unary(op, x) = IF op = "abs" THEN Magnitude(x) ELSE -x
         /\ Aborts(CCheckedUnary(op, x), x = IntMin, Unary(op, x))
         /\ Aborts(WasmCheckedUnary(op, x), x = IntMin, Unary(op, x))
         /\ Aborts(TsCheckedUnary(op, x), x = IntMin, Unary(op, x))
         /\ Aborts(WorkerCheckedUnary(op, x), x = IntMin, Unary(op, x))
         /\ Faults(CFaultableUnary(op, x), x = IntMin, Unary(op, x))
         /\ Faults(WasmFaultableUnary(op, x), x = IntMin, Unary(op, x))
         /\ Faults(TsFaultableUnary(op, x), x = IntMin, Unary(op, x))
<1>1. x \in Int /\ Unary(op, x) \in Int /\ (x # IntMin => Unary(op, x) \in Ints)
  BY IntsFacts DEF Unary
<1>2. Unary(op, x) = IF op = "abs" THEN Magnitude(x) ELSE -x
  BY <1>1 DEF Unary, Magnitude
<1>3. x # IntMin => WasmUnaryValue(op, x) = Unary(op, x)
  BY <1>1, WrapFacts DEF WasmUnaryValue, Unary
<1>4. "" \in Messages /\ "overflow" \in Messages
  BY DEF Messages
<1>5. /\ Aborts(CCheckedUnary(op, x), x = IntMin, Unary(op, x))
      /\ Aborts(WasmCheckedUnary(op, x), x = IntMin, Unary(op, x))
      /\ Aborts(TsCheckedUnary(op, x), x = IntMin, Unary(op, x))
      /\ Aborts(WorkerCheckedUnary(op, x), x = IntMin, Unary(op, x))
  BY <1>3
     DEF Aborts, CCheckedUnary, WasmCheckedUnary, TsCheckedUnary,
         WorkerCheckedUnary, TrapIf
<1>6. /\ Faults(CFaultableUnary(op, x), x = IntMin, Unary(op, x))
      /\ Faults(WasmFaultableUnary(op, x), x = IntMin, Unary(op, x))
      /\ Faults(TsFaultableUnary(op, x), x = IntMin, Unary(op, x))
  BY <1>3, <1>4
     DEF Faults, CFaultableUnary, WasmFaultableUnary, TsFaultableUnary, FaultIf
<1> QED
  BY <1>1, <1>2, <1>5, <1>6

(* The lesser and the greater integer, on every target.                    *)
LEMMA MinMaxNodes ==
  ASSUME NEW x \in Ints, NEW y \in Ints
  PROVE  /\ CMin(x, y) = Ok(CHOOSE m \in {x, y} : \A o \in {x, y} : m <= o)
         /\ CMax(x, y) = Ok(CHOOSE m \in {x, y} : \A o \in {x, y} : m >= o)
         /\ TsMin(x, y) = CMin(x, y) /\ TsMax(x, y) = CMax(x, y)
         /\ CMin(x, y).value \in Ints /\ CMax(x, y).value \in Ints
<1>1. x \in Int /\ y \in Int
  BY IntsFacts
<1>2. PICK m \in {x, y} : m = (IF x < y THEN x ELSE y)
  OBVIOUS
<1>3. PICK n \in {x, y} : n = (IF x > y THEN x ELSE y)
  OBVIOUS
<1>4. m = CHOOSE k \in {x, y} : \A o \in {x, y} : k <= o
  <2>1. \A o \in {x, y} : m <= o
    BY <1>1, <1>2
  <2>2. \A k \in {x, y} : (\A o \in {x, y} : k <= o) => k = m
    BY <1>1, <1>2
  <2> QED
    BY <2>1, <2>2
<1>5. n = CHOOSE k \in {x, y} : \A o \in {x, y} : k >= o
  <2>1. \A o \in {x, y} : n >= o
    BY <1>1, <1>3
  <2>2. \A k \in {x, y} : (\A o \in {x, y} : k >= o) => k = n
    BY <1>1, <1>3
  <2> QED
    BY <2>1, <2>2
<1>6. m = (IF x <= y THEN x ELSE y) /\ n = (IF x >= y THEN x ELSE y)
  BY <1>1, <1>2, <1>3
<1>7. CMin(x, y) = Ok(m) /\ CMax(x, y) = Ok(n) /\ TsMin(x, y) = Ok(m) /\ TsMax(x, y) = Ok(n)
  BY <1>2, <1>3, <1>6 DEF CMin, CMax, TsMin, TsMax
<1>8. CMin(x, y).value \in Ints /\ CMax(x, y).value \in Ints
  BY <1>7, ResultFacts
<1>9. CMin(x, y) = Ok(CHOOSE k \in {x, y} : \A o \in {x, y} : k <= o)
  BY <1>4, <1>7
<1>10. CMax(x, y) = Ok(CHOOSE k \in {x, y} : \A o \in {x, y} : k >= o)
  BY <1>5, <1>7
<1> QED
  BY <1>7, <1>8, <1>9, <1>10

-----------------------------------------------------------------------------
(* Shifts.                                                                 *)

(* Quotients that round down.                                              *)
LEMMA FloorDivision ==
  ASSUME NEW a \in Int, NEW b \in Nat \ {0}
  PROVE  /\ a \div b \in Int
         /\ b * (a \div b) <= a /\ a < b * (a \div b) + b
         /\ (a >= 0 => a \div b \in 0 .. a) /\ (a < 0 => a \div b \in a .. -1)
         /\ (b >= 2 /\ a >= 0 => 2 * (a \div b) <= a)
<1>1. b * (a \div b) <= a
  OBVIOUS
<1>2. a < b * (a \div b) + b
  OBVIOUS
<1>3. PICK q \in Int : q = a \div b
  OBVIOUS
<1>4. b * q <= a /\ b * (q + 1) > a
  BY <1>1, <1>2, <1>3
<1>5. a >= 0 => q >= 0 /\ q <= b * q /\ (b >= 2 => 2 * q <= b * q)
  BY <1>4
<1>6. a < 0 => q < 0 /\ q + 1 >= b * (q + 1)
  BY <1>4
<1> QED
  BY <1>1, <1>2, <1>3, <1>4, <1>5, <1>6

(* Remainders one divisor up or down.                                      *)
LEMMA Remainders ==
  ASSUME NEW b \in Nat \ {0}, NEW k \in 0 .. b - 1
  PROVE  k % b = k /\ (k + b) % b = k /\ (k - b) % b = k
<1>1. ASSUME NEW a \in Int, NEW s \in Int, a = k + b * s PROVE a % b = k
  <2>1. PICK d \in Int : d = a \div b
    BY FloorDivision
  <2>2. b * d <= a /\ a < b * d + b
    BY <2>1, FloorDivision
  <2>3. b * (d - s) <= k /\ k < b * (d - s) + b
    BY <1>1, <2>2
  <2>4. d = s
    BY <2>3
  <2>5. a % b = a - b * (a \div b)
    BY SMT
  <2> QED
    BY <1>1, <2>1, <2>4, <2>5
<1>2. k + b \in Int /\ k - b \in Int /\ k \in Int
  OBVIOUS
<1>3. k + b = k + b * 1 /\ k - b = k + b * (-1) /\ k = k + b * 0
  OBVIOUS
<1>4. (k + b) % b = k
  BY <1>1, <1>2, <1>3
<1>5. (k - b) % b = k
  BY <1>1, <1>2, <1>3
<1> QED
  BY <1>1, <1>2, <1>3, <1>4, <1>5

(* Shifts by a count below the width, and masked counts.                   *)
LEMMA ShiftNodes ==
  ASSUME NEW x \in Ints, NEW n \in 0 .. Width - 1
  PROVE  /\ \E v \in Ints : CShiftRightBits(x, n) = Ok(v)
         /\ TsShiftRightBits(x, n) = CShiftRightBits(x, n)
         /\ \E v \in Int : /\ LlvmShiftRightBits(x, n) = Ok(v)
                           /\ CShiftRightBits(x, n) = Ok(v) <=> ~(x < 0 /\ n > 0)
         /\ \E v \in Ints : CShiftLeftBits(x, n) = Ok(v)
         /\ LlvmShiftLeftBits(x, n) = CShiftLeftBits(x, n)
         /\ \E v \in Int : /\ TsShiftLeftBits(x, n) = Ok(v)
                           /\ CShiftLeftBits(x, n) = Ok(v) <=> x * Power[n] \in Ints
<1>0. n \in Nat /\ n \in 0 .. Width /\ x \in Int /\ -n \in Int
      /\ (n > 0 => n \in 1 .. Width) /\ Power[0] = 1
      /\ IntMin <= x /\ x <= IntMax
  BY WidthAssumption, IntsFacts, PowerFacts
<1>1. PICK p \in Nat \ {0} : p = Power[n] /\ (n > 0 => p >= 2) /\ (n = 0 => p = 1)
  BY <1>0, PowerFacts
<1>2. PICK w \in Nat \ {0} : w = Power[Width]
  BY IntsFacts
<1>w. w = -2 * IntMin /\ IntMax = -IntMin - 1 /\ IntMin \in Int /\ IntMax \in Int /\ IntMin < 0
  BY <1>2, IntsFacts
<1>3. PICK q \in Int : q = x \div p
  BY <1>0, FloorDivision
<1>4. q \in Ints /\ (x < 0 => q < 0)
  <2>1. (x >= 0 => q \in 0 .. x) /\ (x < 0 => q \in x .. -1)
    BY <1>0, <1>3, FloorDivision
  <2> QED
    BY <1>0, <2>1, IntsFacts
<1>5. CShiftRightBits(x, n) = Ok(q) /\ TsShiftRightBits(x, n) = Ok(q)
  BY <1>0, <1>1, <1>3 DEF CShiftRightBits, TsShiftRightBits
<1>6. PICK u \in Int : u = Unsigned(x) \div p
  <2>1. x % w \in Int
    BY <1>0
  <2> QED
    BY <1>2, <2>1 DEF Unsigned
<1>7. x >= 0 => u = q
  <2> SUFFICES ASSUME x >= 0 PROVE u = q
    OBVIOUS
  <2>1. x \in 0 .. w - 1
    BY <1>0, <1>w
  <2>2. x % w = x
    BY <2>1
  <2> QED
    BY <1>2, <1>3, <1>6, <2>2 DEF Unsigned
<1>8. x < 0 => Unsigned(x) = x + w
  <2> SUFFICES ASSUME x < 0 PROVE x % w = x + w
    BY <1>2 DEF Unsigned
  <2>1. x + w \in 0 .. w - 1
    BY <1>0, <1>w
  <2>2. PICK k \in 0 .. w - 1 : k = x + w
    BY <2>1
  <2>3. x = k - w
    BY <1>0, <2>2
  <2> QED
    BY <2>2, <2>3, Remainders
<1>9. LlvmShiftRightBits(x, n) = Ok(Wrap(u))
  BY <1>1, <1>6 DEF LlvmShiftRightBits
<1>10. Wrap(u) = q <=> ~(x < 0 /\ n > 0)
  <2>1. CASE x >= 0
    BY <1>4, <1>7, <2>1, WrapFacts
  <2>2. CASE x < 0 /\ n > 0
    <3>1. x + w \in Nat /\ x + w < w
      BY <1>0, <1>w, <2>2
    <3>2. u >= 0 /\ 2 * u <= x + w
      BY <1>1, <1>6, <1>8, <2>2, <3>1, FloorDivision
    <3>3. u \in Ints
      BY <1>w, <3>1, <3>2, IntsFacts
    <3> QED
      BY <1>4, <2>2, <3>2, <3>3, WrapFacts
  <2>3. CASE x < 0 /\ n = 0
    <3>1. u = x + w /\ q = x
      BY <1>0, <1>1, <1>3, <1>6, <1>8, <2>3
    <3>2. (x + w - IntMin) % w = x - IntMin
      <4>1. x - IntMin \in 0 .. w - 1
        BY <1>0, <1>w
      <4>2. PICK k \in 0 .. w - 1 : k = x - IntMin
        BY <4>1
      <4>3. (k + w) % w = k
        BY Remainders
      <4>4. x + w - IntMin = k + w
        BY <1>0, <1>w, <4>2
      <4> QED
        BY <4>2, <4>3, <4>4
    <3> QED
      BY <1>2, <1>0, <1>w, <2>3, <3>1, <3>2 DEF Wrap
  <2> QED
    BY <1>0, <2>1, <2>2, <2>3
<1>11. PICK l \in Int : l = x * p
  BY <1>0
<1>12. CShiftLeftBits(x, n) = Ok(Wrap(l)) /\ LlvmShiftLeftBits(x, n) = Ok(Wrap(l))
  BY <1>1, <1>11 DEF CShiftLeftBits, LlvmShiftLeftBits
<1>13. TsShiftLeftBits(x, n) = Ok(l)
  <2>1. CASE n > 0
    <3>1. -n < 0 /\ -(-n) = n
      BY <1>0, <2>1
    <3> QED
      BY <1>1, <1>11, <3>1 DEF TsShiftLeftBits, TsShiftRightBits
  <2>2. CASE n = 0
    <3>1. ~(-n < 0) /\ -n = 0 /\ l = x
      <4>1. p = 1
        BY <1>1, <2>2
      <4>2. x \in Int
        BY <1>0
      <4>3. l = x
        BY <1>11, <4>1, <4>2
      <4>4. n \in Int /\ n <= 0 /\ n >= 0
        BY <2>2
      <4>5. -n = 0 /\ ~(-n < 0)
        BY <4>4
      <4> QED
        BY <4>3, <4>5
    <3>2. x \div 1 = x
      BY <1>0, FloorDivision
    <3> QED
      BY <1>0, <3>1, <3>2 DEF TsShiftLeftBits, TsShiftRightBits
  <2> QED
    BY <1>0, <2>1, <2>2
<1>14. Wrap(l) \in Ints /\ (Wrap(l) = l <=> l \in Ints) /\ Wrap(u) \in Ints
  BY WrapFacts
<1>15. \A v, t : Ok(v) = Ok(t) <=> v = t
  BY ResultFacts
<1> QED
  <2>1. \E v \in Int : LlvmShiftRightBits(x, n) = Ok(v)
                       /\ (CShiftRightBits(x, n) = Ok(v) <=> ~(x < 0 /\ n > 0))
    <3>1. Wrap(u) \in Int
      BY <1>14, IntsFacts
    <3> QED
      BY <1>5, <1>9, <1>10, <1>15, <3>1
  <2>2. \E v \in Int : TsShiftLeftBits(x, n) = Ok(v)
                       /\ (CShiftLeftBits(x, n) = Ok(v) <=> x * Power[n] \in Ints)
    BY <1>1, <1>11, <1>12, <1>13, <1>14, <1>15
  <2> QED
    BY <1>4, <1>5, <1>12, <1>14, <2>1, <2>2

-----------------------------------------------------------------------------
(* Floats.                                                                 *)

Finite == -MaxFloat .. MaxFloat

(* Floats are finite, or one of four other numbers.                        *)
LEMMA FloatFacts ==
  /\ MaxFloat \in Nat /\ MaxFloat < 1000 /\ Finite \subseteq Int
  /\ NegZero = 1000 /\ Infinity = 2000 /\ NegInfinity = -2000 /\ NaN = 3000
  /\ Floats = Finite \cup {1000, 2000, -2000, 3000} /\ Floats \subseteq Int
  /\ \A n \in Int : n \in Finite <=> -MaxFloat <= n /\ n <= MaxFloat
  /\ 1000 \notin Finite /\ 2000 \notin Finite /\ -2000 \notin Finite /\ 3000 \notin Finite
<1>1. MaxFloat \in Nat /\ MaxFloat < 1000
  BY LibraryBounds DEF NegZero
<1> QED
  BY <1>1 DEF Finite, Floats, NegZero, Infinity, NegInfinity, NaN

(* A float is finite, a zero with a sign, infinite, or not a number.       *)
LEMMA FloatKinds ==
  ASSUME NEW x \in Floats
  PROVE  /\ Numeric(x) \in Int /\ SignBit(x) \in BOOLEAN
         /\ Infinite(x) <=> x = 2000 \/ x = -2000
         /\ x # 3000 /\ ~Infinite(x) =>
              Numeric(x) \in Finite /\ (Numeric(x) # 0 => x = Numeric(x))
         /\ x \in Finite => Numeric(x) = x /\ (SignBit(x) <=> x < 0)
         /\ Numeric(1000) = 0 /\ Numeric(2000) = 2000 /\ Numeric(-2000) = -2000
         /\ SignBit(1000) /\ ~SignBit(2000) /\ SignBit(-2000) /\ ~SignBit(0)
         /\ Equal(x, 0) <=> x \in {0, NegZero}
         /\ Numeric(x) = 0 <=> x \in {0, NegZero}
<1>1. x \in Int /\ (x \in Finite \/ x \in {1000, 2000, -2000, 3000})
  BY FloatFacts
<1>2. 0 \in Finite
  BY FloatFacts
<1>3. Numeric(1000) = 0 /\ Numeric(2000) = 2000 /\ Numeric(-2000) = -2000 /\ Numeric(0) = 0
  BY FloatFacts DEF Numeric
<1>4. SignBit(1000) /\ ~SignBit(2000) /\ SignBit(-2000) /\ ~SignBit(0)
  BY FloatFacts DEF SignBit
<1>5. Infinite(x) <=> x = 2000 \/ x = -2000
  BY FloatFacts DEF Infinite
<1>6. x \in Finite => Numeric(x) = x /\ (SignBit(x) <=> x < 0)
  BY FloatFacts DEF Numeric, SignBit
<1>7. Numeric(x) = IF x = 1000 THEN 0 ELSE x
  BY FloatFacts DEF Numeric
<1>8. SignBit(x) \in BOOLEAN
  BY DEF SignBit
<1>9. Equal(x, 0) <=> x \in {0, NegZero}
  BY <1>1, <1>3, <1>7, FloatFacts DEF Equal
<1> QED
  BY <1>1, <1>2, <1>3, <1>4, <1>5, <1>6, <1>7, <1>8, <1>9, FloatFacts

(* Where the remainder of WASM is not that of the others.                  *)
Parts(op, x, y) ==
  /\ op = "rem" /\ NaN \notin {x, y} /\ ~Infinite(x) /\ y \notin {0, NegZero}
  /\ Infinite(y) \/ (SignBit(x) /\ TruncRem(Numeric(x), Numeric(y)) = 0)

(* The operations on floats, with what a sign makes of a zero or infinity.  *)
LEMMA FloatUnfolds ==
  ASSUME NEW x \in Floats, NEW y \in Floats
  PROVE  /\ FTruncQuotient(x, y) =
              IF 3000 \in {x, y} \/ (Infinite(x) /\ Infinite(y)) THEN 3000
              ELSE IF Infinite(x) THEN IF SignBit(x) # SignBit(y) THEN -2000 ELSE 2000
              ELSE IF Infinite(y) \/ TruncDiv(Numeric(x), Numeric(y)) = 0
                   THEN IF SignBit(x) # SignBit(y) THEN 1000 ELSE 0
              ELSE TruncDiv(Numeric(x), Numeric(y))
         /\ FRem(x, y) =
              IF 3000 \in {x, y} \/ Infinite(x) THEN 3000
              ELSE IF Infinite(y) THEN x
              ELSE IF TruncRem(Numeric(x), Numeric(y)) = 0 THEN IF SignBit(x) THEN 1000 ELSE 0
              ELSE TruncRem(Numeric(x), Numeric(y))
         /\ FMul(x, y) =
              IF 3000 \in {x, y} \/ (Infinite(x) /\ Numeric(y) = 0)
                                \/ (Infinite(y) /\ Numeric(x) = 0) THEN 3000
              ELSE IF Infinite(x) \/ Infinite(y)
                   THEN IF SignBit(x) # SignBit(y) THEN -2000 ELSE 2000
              ELSE IF Numeric(x) * Numeric(y) = 0
                   THEN IF SignBit(x) # SignBit(y) THEN 1000 ELSE 0
              ELSE x * y
<1>1. NegZero = 1000 /\ Infinity = 2000 /\ NegInfinity = -2000 /\ NaN = 3000
  BY FloatFacts
<1> QED
  BY <1>1 DEF FTruncQuotient, FRem, FMul, Signed

(* Quotients, and the remainders of fmod, are floats.                      *)
LEMMA FloatValues ==
  ASSUME NEW x \in Floats, NEW y \in Floats, NEW op \in Dividing, y \notin {0, NegZero}
  PROVE  FloatValue(op, x, y) \in Floats
<1>2. SignBit(x) \in BOOLEAN /\ SignBit(y) \in BOOLEAN /\ 0 \in Finite
  BY FloatKinds, FloatFacts
<1>3. CASE 3000 \in {x, y} \/ Infinite(x) \/ Infinite(y)
  <2>1. FRem(x, y) \in {3000, x}
    BY <1>3, FloatUnfolds
  <2>2. FTruncQuotient(x, y) \in {3000, 2000, -2000, 0, 1000}
    BY <1>3, FloatUnfolds
  <2> QED
    BY <1>2, <2>1, <2>2, FloatFacts DEF FloatValue
<1>4. CASE ~(3000 \in {x, y} \/ Infinite(x) \/ Infinite(y))
  <2>1. PICK a \in Finite : a = Numeric(x)
    BY <1>4, FloatKinds
  <2>2. PICK b \in Finite \ {0} : b = Numeric(y)
    BY <1>4, FloatKinds
  <2>3. a \in Int /\ b \in Int /\ b # 0
    BY FloatFacts
  <2>4. TruncDiv(a, b) \in Finite /\ TruncRem(a, b) \in Finite
    <3>1. TruncDiv(a, b) \in Int /\ TruncRem(a, b) \in Int
          /\ Magnitude(TruncDiv(a, b)) <= Magnitude(a)
          /\ (a >= 0 => TruncRem(a, b) \in 0 .. a)
          /\ (a <= 0 => -TruncRem(a, b) \in 0 .. -a)
      BY <2>3, TruncFacts
    <3>2. PICK d \in Int : d = TruncDiv(a, b)
      BY <3>1
    <3>3. PICK r \in Int : r = TruncRem(a, b)
      BY <3>1
    <3>4. d \in Finite
      BY <2>3, <3>1, <3>2, FloatFacts DEF Magnitude
    <3>5. r \in Finite
      BY <2>3, <3>1, <3>3, FloatFacts
    <3> QED
      BY <3>2, <3>3, <3>4, <3>5
  <2>5. FRem(x, y) \in Finite \cup {0, 1000}
    BY <1>4, <2>1, <2>2, <2>4, FloatUnfolds
  <2>6. FTruncQuotient(x, y) \in Finite \cup {0, 1000}
    BY <1>4, <2>1, <2>2, <2>4, FloatUnfolds
  <2> QED
    BY <1>2, <2>5, <2>6, FloatFacts DEF FloatValue
<1> QED
  BY <1>3, <1>4

(* x - trunc(x / y) * y is the remainder but where it parts from it.       *)
LEMMA WasmRemainder ==
  ASSUME NEW x \in Floats, NEW y \in Floats, NEW op \in Dividing, y \notin {0, NegZero}
  PROVE  WasmFloatValue(op, x, y) = FloatValue(op, x, y) <=> ~Parts(op, x, y)
<1>0. op = "rem" \/ op # "rem"
  OBVIOUS
<1>1. CASE op # "rem"
  BY <1>1 DEF WasmFloatValue, FloatValue, Parts
<1> SUFFICES ASSUME op = "rem"
             PROVE  FSub(x, FMul(FTruncQuotient(x, y), y)) = FRem(x, y) <=> ~Parts(op, x, y)
  BY <1>1 DEF WasmFloatValue, FloatValue
<1> DEFINE q == FTruncQuotient(x, y)
           p == FMul(q, y)
<1>3. SignBit(x) \in BOOLEAN /\ SignBit(y) \in BOOLEAN /\ 0 \in Finite
  BY FloatKinds, FloatFacts
<1>2. q \in Floats
  BY FloatValues DEF FloatValue, Dividing
<1>4. CASE 3000 \in {x, y}
  <2>1. ~Parts(op, x, y) /\ FRem(x, y) = 3000 /\ q = 3000
    BY <1>4, FloatFacts, FloatUnfolds DEF Parts
  <2>2. p = 3000
    BY <1>2, <2>1, FloatUnfolds
  <2>3. FSub(x, p) = 3000
    BY <2>2, FloatFacts DEF FSub
  <2> QED
    BY <2>1, <2>3
<1>5. CASE 3000 \notin {x, y} /\ Infinite(x)
  <2>1. ~Parts(op, x, y) /\ FRem(x, y) = 3000
    BY <1>5, FloatFacts, FloatUnfolds DEF Parts
  <2>2. x = IF SignBit(x) THEN -2000 ELSE 2000
    BY <1>5, FloatKinds
  <2>3. CASE Infinite(y)
    <3>1. q = 3000
      BY <1>5, <2>3, FloatUnfolds
    <3>2. p = 3000
      BY <1>2, <3>1, FloatUnfolds
    <3> QED
      BY <2>1, <3>2, FloatFacts DEF FSub
  <2>4. CASE ~Infinite(y)
    <3>2. q = IF SignBit(x) # SignBit(y) THEN -2000 ELSE 2000
      BY <1>5, <2>4, FloatUnfolds
    <3>3. Infinite(q) /\ q # 3000 /\ (SignBit(q) <=> (SignBit(x) # SignBit(y)))
      BY <1>3, <3>2, FloatKinds, FloatFacts DEF Infinite
    <3>4. Numeric(y) # 0
      BY FloatKinds
    <3> HIDE DEF q
    <3>5. p = IF SignBit(q) # SignBit(y) THEN -2000 ELSE 2000
      BY <1>2, <1>5, <2>4, <3>3, <3>4, FloatUnfolds
    <3>6. (SignBit(q) # SignBit(y)) <=> SignBit(x)
      <4>1. SignBit(q) \in BOOLEAN
        BY DEF SignBit
      <4> QED
        BY <1>3, <3>3, <4>1
    <3>7. p = x
      BY <2>2, <3>5, <3>6
    <3> QED
      BY <1>5, <2>1, <3>7, FloatFacts DEF FSub, q
  <2> QED
    BY <2>3, <2>4
<1>6. CASE 3000 \notin {x, y} /\ ~Infinite(x) /\ Infinite(y)
  <2>1. Parts(op, x, y) /\ FRem(x, y) = x
    BY <1>6, FloatFacts, FloatUnfolds DEF Parts
  <2>3. q \in {0, 1000}
    BY <1>6, FloatUnfolds
  <2>4. Numeric(q) = 0
    <3>1. 0 \in Floats
      BY <1>3, FloatFacts
    <3> QED
      BY <2>3, <3>1, FloatKinds
  <2> HIDE DEF q
  <2>5. p = 3000
    BY <1>2, <1>6, <2>4, FloatUnfolds
  <2>6. FSub(x, p) = 3000
    BY <2>5, FloatFacts DEF FSub
  <2> QED
    BY <1>6, <2>1, <2>6 DEF q
<1>7. CASE 3000 \notin {x, y} /\ ~Infinite(x) /\ ~Infinite(y)
  <2>1. PICK a \in Finite : a = Numeric(x)
    BY <1>7, FloatKinds
  <2>2. PICK b \in Finite \ {0} : b = Numeric(y)
    BY <1>7, FloatKinds
  <2>3. a \in Int /\ b \in Int /\ b # 0 /\ y = b /\ (a # 0 => x = a)
    BY <1>7, <2>1, <2>2, FloatFacts, FloatKinds
  <2>4. /\ TruncDiv(a, b) \in Int /\ TruncRem(a, b) \in Int
        /\ a = b * TruncDiv(a, b) + TruncRem(a, b)
        /\ Magnitude(TruncDiv(a, b)) <= Magnitude(a)
        /\ (a >= 0 => TruncRem(a, b) \in 0 .. a)
        /\ (a <= 0 => -TruncRem(a, b) \in 0 .. -a)
    BY <2>3, TruncFacts
  <2>5. PICK d \in Int : d = TruncDiv(a, b)
    BY <2>4
  <2>6. PICK r \in Int : r = TruncRem(a, b)
    BY <2>4
  <2>7. PICK m \in Int : m = d * b
    BY <2>3
  <2>8. a = m + r /\ m \in Finite /\ d \in Finite
    <3>1. d \in Finite
      BY <2>3, <2>4, <2>5, FloatFacts DEF Magnitude
    <3>2. d * b = b * d
      BY <2>3
    <3>3. a = m + r
      BY <2>3, <2>4, <2>5, <2>6, <2>7, <3>2
    <3>4. (a >= 0 => r \in 0 .. a) /\ (a <= 0 => -r \in 0 .. -a)
      BY <2>4, <2>6
    <3> QED
      BY <2>3, <3>1, <3>3, <3>4, FloatFacts
  <2>9. m = 0 <=> d = 0
    BY <2>3, <2>7
  <2>10. FRem(x, y) = IF r = 0 THEN IF SignBit(x) THEN 1000 ELSE 0 ELSE r
    BY <1>7, <2>1, <2>2, <2>6, FloatUnfolds
  <2>11. Parts(op, x, y) <=> SignBit(x) /\ r = 0
    BY <1>7, <2>1, <2>2, <2>6, FloatFacts DEF Parts
  <2>12. q = IF d = 0 THEN IF SignBit(x) # SignBit(y) THEN 1000 ELSE 0 ELSE d
    BY <1>7, <2>1, <2>2, <2>5, FloatUnfolds
  <2>13. q \in Floats /\ q # 3000 /\ ~Infinite(q) /\ Numeric(q) = d
         /\ (d # 0 => q = d) /\ (d = 0 => (SignBit(q) <=> (SignBit(x) # SignBit(y))))
    <3>1. CASE d = 0
      <4>1. q = IF SignBit(x) # SignBit(y) THEN 1000 ELSE 0
        BY <2>12, <3>1
      <4>2. q \in Floats /\ q # 3000 /\ ~Infinite(q)
        BY <1>3, <4>1, FloatFacts DEF Infinite
      <4>3. 0 \in Floats
        BY <1>3, FloatFacts
      <4> QED
        BY <3>1, <4>1, <4>2, <4>3, FloatKinds
    <3>2. CASE d # 0
      <4>1. q = d /\ q \in Floats /\ q # 3000 /\ ~Infinite(q)
        BY <2>8, <2>12, <3>2, FloatFacts DEF Infinite
      <4> QED
        BY <2>8, <3>2, <4>1, FloatKinds
    <3> QED
      BY <3>1, <3>2
  <2> HIDE DEF q
  <2>14. p = IF m = 0 THEN IF SignBit(q) # SignBit(y) THEN 1000 ELSE 0 ELSE m
    <3>1. p = IF Numeric(q) * Numeric(y) = 0 THEN IF SignBit(q) # SignBit(y) THEN 1000 ELSE 0
              ELSE q * y
      BY <1>2, <1>7, <2>13, FloatUnfolds
    <3>2. Numeric(q) * Numeric(y) = m
      BY <2>2, <2>7, <2>13
    <3>3. m # 0 => q * y = m
      BY <2>3, <2>7, <2>9, <2>13
    <3> QED
      BY <3>1, <3>2, <3>3
  <2>15. p \in Floats /\ p # 3000 /\ ~Infinite(p) /\ Numeric(p) = m
         /\ (m = 0 => p = IF SignBit(x) THEN 1000 ELSE 0)
    <3>1. CASE m = 0
      <4>1. SignBit(q) \in BOOLEAN
        BY DEF SignBit
      <4>2. (SignBit(q) # SignBit(y)) <=> SignBit(x)
        BY <1>3, <2>9, <2>13, <3>1, <4>1
      <4>3. p = IF SignBit(x) THEN 1000 ELSE 0
        BY <2>14, <3>1, <4>2
      <4>4. 0 \in Floats
        BY <1>3, FloatFacts
      <4>5. p \in Floats /\ p # 3000 /\ ~Infinite(p)
        BY <1>3, <4>3, FloatFacts DEF Infinite
      <4> QED
        BY <3>1, <4>3, <4>4, <4>5, FloatKinds
    <3>2. CASE m # 0
      <4>1. p = m
        BY <2>14, <3>2
      <4>2. p \in Finite
        BY <2>8, <4>1
      <4> QED
        BY <3>2, <4>1, <4>2, FloatFacts, FloatKinds
    <3> QED
      BY <3>1, <3>2
  <2> HIDE DEF p
  <2>16. FSub(x, p) = IF x = 1000 /\ p = 0 THEN 1000 ELSE a - m
    BY <1>7, <2>1, <2>15, FloatFacts DEF FSub
  <2>17. ~(x = 1000 /\ p = 0)
    <3> SUFFICES ASSUME x = 1000, p = 0 PROVE FALSE
      OBVIOUS
    <3>1. m = 0
      <4>1. 0 \in Floats
        BY <1>3, FloatFacts
      <4> QED
        BY <2>15, <4>1, FloatKinds
    <3>2. SignBit(x)
      BY FloatKinds
    <3> QED
      BY <2>15, <3>1, <3>2
  <2>18. FSub(x, p) = r
    BY <2>3, <2>8, <2>16, <2>17
  <2>19. r # 1000
    BY <2>3, <2>4, <2>6, FloatFacts
  <2> QED
    BY <1>3, <2>10, <2>11, <2>18, <2>19 DEF p, q
<1> QED
  BY <1>4, <1>5, <1>6, <1>7

(* Division of floats: only the test for zero and the remainder of WASM.   *)
LEMMA FloatNodes ==
  ASSUME NEW x \in Floats, NEW y \in Floats, NEW op \in Dividing
  PROVE  /\ Aborts(CCheckedFloat(op, x, y), y \in {0, NegZero}, FloatValue(op, x, y))
         /\ Aborts(TsCheckedFloat(op, x, y), y \in {0, NegZero}, FloatValue(op, x, y))
         /\ Aborts(WorkerCheckedFloat(op, x, y), y \in {0, NegZero}, FloatValue(op, x, y))
         /\ Aborts(WasmCheckedFloat(op, x, y), y \in {0, NegZero}, WasmFloatValue(op, x, y))
         /\ Faults(CFaultableFloat(op, x, y), y \in {0, NegZero}, FloatValue(op, x, y))
         /\ Faults(TsFaultableFloat(op, x, y), y \in {0, NegZero}, FloatValue(op, x, y))
         /\ Faults(WasmFaultableFloat(op, x, y), y \in {0, NegZero}, WasmFloatValue(op, x, y))
<1>1. Equal(y, 0) <=> y \in {0, NegZero}
  BY FloatKinds
<1>2. "" \in Messages /\ "by_zero" \in Messages
  BY DEF Messages
<1> QED
  BY <1>1, <1>2
  DEF Aborts, Faults, CCheckedFloat, TsCheckedFloat, WorkerCheckedFloat, WasmCheckedFloat,
      CFaultableFloat, TsFaultableFloat, WasmFaultableFloat, TrapIf, FaultIf

(* Square roots: where the number is negative there is none.               *)
Negative(x) == x # NaN /\ Numeric(x) < 0

(* Square roots on every target.                                           *)
LEMMA RootNodes ==
  ASSUME NEW x \in Floats
  PROVE  /\ ~Negative(x) => Root(x) \in Floats
         /\ Aborts(CCheckedSqrt(x), Negative(x), Root(x))
         /\ Aborts(WasmCheckedSqrt(x), Negative(x), Root(x))
         /\ Aborts(TsCheckedSqrt(x), Negative(x), Root(x))
         /\ Aborts(WorkerCheckedSqrt(x), Negative(x), Root(x))
         /\ Faults(CFaultableSqrt(x), Negative(x), Root(x))
         /\ Faults(WasmFaultableSqrt(x), Negative(x), Root(x))
         /\ Faults(TsFaultableSqrt(x), Negative(x), Root(x))
<1>1. Less(x, 0) <=> Negative(x)
  BY FloatFacts DEF Less, Negative, Numeric
<1>2. "" \in Messages /\ "negative" \in Messages
  BY DEF Messages
<1>3. ~Negative(x) => Root(x) \in Floats
  <2>1. CASE x \in {NaN, NegZero, Infinity}
    BY <2>1 DEF Root
  <2>2. ASSUME ~Negative(x), x \notin {NaN, NegZero, Infinity} PROVE Root(x) \in Floats
    <3>1. x \in Finite /\ x >= 0 /\ x \in Nat
      BY <2>2, FloatFacts DEF Negative, Numeric
    <3> DEFINE above == {k \in Nat : (k + 1) * (k + 1) > x}
    <3>2. x \in above
      <4>1. (x + 1) * (x + 1) = x * x + x + x + 1 /\ x * x >= 0
        BY <3>1
      <4> QED
        BY <3>1, <4>1
    <3>3. PICK r \in above : \A k \in above : r <= k
      <4> HIDE DEF above
      <4>1. above \in SUBSET Nat
        BY DEF above
      <4> QED
        BY <3>2, <4>1, LeastNatural
    <3>4. r \in Nat /\ (r + 1) * (r + 1) > x /\ r <= x
      BY <3>2, <3>3
    <3>5. r * r <= x
      <4>1. CASE r = 0
        BY <3>1, <4>1
      <4>2. CASE r # 0
        <5>1. r - 1 \in Nat /\ r - 1 \notin above
          BY <3>3, <3>4, <4>2
        <5>2. ((r - 1) + 1) * ((r - 1) + 1) <= x
          BY <3>1, <5>1
        <5>3. (r - 1) + 1 = r
          BY <3>4
        <5> QED
          BY <5>2, <5>3
      <4> QED
        BY <4>1, <4>2
    <3> HIDE DEF above
    <3>6. \E k \in 0 .. x : k * k <= x /\ (k + 1) * (k + 1) > x
      BY <3>1, <3>4, <3>5
    <3>7. Root(x) = CHOOSE k \in 0 .. x : k * k <= x /\ (k + 1) * (k + 1) > x
      BY <2>2 DEF Root
    <3>8. Root(x) \in 0 .. x
      BY <3>6, <3>7
    <3> QED
      BY <3>1, <3>8, FloatFacts
  <2> QED
    BY <2>1, <2>2
<1>4. /\ CCheckedSqrt(x) = (IF Negative(x) THEN Dead ELSE Ok(Root(x)))
      /\ WasmCheckedSqrt(x) = (IF Negative(x) THEN Dead ELSE Ok(Root(x)))
      /\ TsCheckedSqrt(x) = (IF Negative(x) THEN Dead ELSE Ok(Root(x)))
      /\ WorkerCheckedSqrt(x) = (IF Negative(x) THEN Dead ELSE Ok(Root(x)))
      /\ CFaultableSqrt(x) = (IF Negative(x) THEN Fault("negative") ELSE Ok(Root(x)))
      /\ WasmFaultableSqrt(x) = (IF Negative(x) THEN Fault("") ELSE Ok(Root(x)))
      /\ TsFaultableSqrt(x) = (IF Negative(x) THEN Fault("negative") ELSE Ok(Root(x)))
  BY <1>1 DEF CCheckedSqrt, WasmCheckedSqrt, TsCheckedSqrt, WorkerCheckedSqrt,
              CFaultableSqrt, WasmFaultableSqrt, TsFaultableSqrt
<1> QED
  BY <1>2, <1>3, <1>4 DEF Aborts, Faults

(* Magnitudes: LLVM leaves a negative zero.                                *)
LEMMA AbsNodes ==
  ASSUME NEW x \in Floats
  PROVE  /\ CFloatAbs(x) \in Floats
         /\ CFloatAbs(x) = IF x = NegZero THEN 0 ELSE IF x < 0 THEN -x ELSE x
         /\ LlvmFloatAbs(x) = CFloatAbs(x) <=> x # NegZero
<1>1. x \in Int /\ (x \in Finite \/ x \in {1000, 2000, -2000, 3000})
  BY FloatFacts
<1>2. CFloatAbs(x) = IF x = NegZero THEN 0 ELSE IF x < 0 THEN -x ELSE x
  BY <1>1, FloatFacts DEF CFloatAbs, SignBit, FNeg
<1>3. LlvmFloatAbs(x) = IF x < 0 THEN -x ELSE x
  BY <1>1, FloatFacts DEF LlvmFloatAbs, Less, Numeric, FNeg
<1>4. CFloatAbs(x) \in Floats
  BY <1>1, <1>2, FloatFacts
<1> QED
  BY <1>1, <1>2, <1>3, <1>4, FloatFacts

(* Least and greatest: TypeScript keeps the left of two equal zeros.       *)
LEMMA FloatMinMaxNodes ==
  ASSUME NEW x \in Floats, NEW y \in Floats
  PROVE  /\ CFloatMin(x, y) \in Floats /\ CFloatMax(x, y) \in Floats
         /\ TsFloatMin(x, y) = CFloatMin(x, y) <=> ~(x # y /\ Equal(x, y))
         /\ TsFloatMax(x, y) = CFloatMax(x, y) <=> ~(x # y /\ Equal(x, y))
<1>1. Numeric(x) \in Int /\ Numeric(y) \in Int
  BY FloatKinds
<1>2. Equal(x, y) => ~Less(x, y) /\ ~Less(y, x)
  BY <1>1 DEF Equal, Less
<1> QED
  BY <1>2 DEF CFloatMin, CFloatMax, TsFloatMin, TsFloatMax

-----------------------------------------------------------------------------
(* Sequences.                                                              *)

(* A sequence is the function of its positions to its items.               *)
LEMMA SeqFacts ==
  ASSUME NEW S, NEW xs \in Seq(S)
  PROVE  /\ Len(xs) \in Nat /\ DOMAIN xs = 1 .. Len(xs)
         /\ xs = [k \in 1 .. Len(xs) |-> xs[k]]
         /\ \A k \in 1 .. Len(xs) : xs[k] \in S /\ Item(xs, k - 1) = xs[k]
         /\ xs = <<>> <=> Len(xs) = 0
<1>1. Len(xs) \in Nat /\ DOMAIN xs = 1 .. Len(xs) /\ xs \in [1 .. Len(xs) -> S]
  BY LenProperties
<1>2. xs = <<>> <=> Len(xs) = 0
  BY EmptySeq
<1>3. ASSUME NEW k \in 1 .. Len(xs) PROVE xs[k] \in S /\ Item(xs, k - 1) = xs[k]
  <2>1. xs[k] \in S
    BY <1>1
  <2>2. (k - 1) + 1 = k
    BY <1>1
  <2> QED
    BY <1>1, <2>1, <2>2 DEF Item
<1> QED
  BY <1>1, <1>2, <1>3

(* What fills n slots with members of S is a sequence.                     *)
LEMMA Filled ==
  ASSUME NEW S, NEW n \in Nat, NEW f, f = [k \in 1 .. n |-> f[k]],
         \A k \in 1 .. n : f[k] \in S
  PROVE  f \in Seq(S) /\ Len(f) = n
<1>1. f \in [1 .. n -> S]
  OBVIOUS
<1>2. f \in Seq(S)
  BY <1>1, SeqDef
<1> QED
  <2>1. DOMAIN f = 1 .. n
    BY <1>1
  <2>2. DOMAIN f = 1 .. Len(f) /\ Len(f) \in Nat
    BY <1>2, LenProperties
  <2>3. Len(f) = n
    BY <2>1, <2>2
  <2> QED
    BY <1>2, <2>3

(* A sequence of n items that has those of f.                              *)
LEMMA Filling ==
  ASSUME NEW S, NEW s \in Seq(S), NEW n \in Nat, Len(s) = n, NEW f, f = [k \in 1 .. n |-> f[k]],
         \A k \in 1 .. n : s[k] = f[k]
  PROVE  s = f
BY SeqFacts

(* The n items after a position.                                           *)
Cut(xs, from, n) == [k \in 1 .. n |-> xs[from + k]]

(* A cut is a sequence, and is what SubSeq takes.                          *)
LEMMA CutFacts ==
  ASSUME NEW S, NEW xs \in Seq(S), NEW from \in 0 .. Len(xs), NEW n \in 0 .. Len(xs) - from
  PROVE  /\ Cut(xs, from, n) \in Seq(S) /\ Len(Cut(xs, from, n)) = n
         /\ \A k \in 1 .. n : Cut(xs, from, n)[k] = xs[from + k]
         /\ SubSeq(xs, from + 1, from + n) = Cut(xs, from, n)
         /\ CopyRange(xs, from, n) = Cut(xs, from, n)
         /\ \A k \in 1 .. n : Item(xs, from + k - 1) = xs[from + k]
<1>1. Len(xs) \in Nat /\ from \in Nat /\ n \in Nat /\ from + n <= Len(xs)
  BY SeqFacts
<1>2. \A k \in 1 .. n : from + k \in 1 .. Len(xs)
  BY <1>1
<1>3. \A k \in 1 .. n : Item(xs, from + k - 1) = xs[from + k] /\ xs[from + k] \in S
  BY <1>2, SeqFacts
<1>4. PICK f : f = Cut(xs, from, n)
  OBVIOUS
<1>5. f = [k \in 1 .. n |-> f[k]] /\ \A k \in 1 .. n : f[k] = xs[from + k]
  BY <1>4 DEF Cut
<1>6. f \in Seq(S) /\ Len(f) = n
  BY <1>1, <1>3, <1>5, Filled
<1>7. CopyRange(xs, from, n) = f
  BY <1>3, <1>4 DEF Cut, CopyRange
<1>8. SubSeq(xs, from + 1, from + n) = f
  <2> DEFINE s == SubSeq(xs, from + 1, from + n)
  <2>1. \A i \in from + 1 .. from + n : xs[i] \in S
    <3> SUFFICES ASSUME NEW i \in from + 1 .. from + n PROVE xs[i] \in S
      OBVIOUS
    <3>1. i \in 1 .. Len(xs)
      BY <1>1
    <3> QED
      BY <3>1, SeqFacts
  <2>2. from + 1 \in Int /\ from + n \in Int
    BY <1>1
  <2>3. /\ s \in Seq(S)
        /\ Len(s) = IF from + 1 <= from + n THEN (from + n) - (from + 1) + 1 ELSE 0
        /\ \A i \in 1 .. (from + n) - (from + 1) + 1 : s[i] = xs[from + 1 + i - 1]
    BY <2>1, <2>2, SubSeqProperties
  <2>4. (from + n) - (from + 1) + 1 = n
    BY <1>1
  <2>5. Len(s) = n
    BY <1>1, <2>3, <2>4
  <2>6. \A k \in 1 .. n : s[k] = f[k]
    <3> SUFFICES ASSUME NEW k \in 1 .. n PROVE s[k] = f[k]
      OBVIOUS
    <3>1. from + 1 + k - 1 = from + k
      BY <1>1
    <3> QED
      BY <1>5, <2>3, <2>4, <3>1
  <2> HIDE DEF s
  <2>7. s = f
    BY <1>1, <1>5, <2>3, <2>5, <2>6, Filling
  <2> QED
    BY <2>7 DEF s
<1> QED
  BY <1>3, <1>4, <1>5, <1>6, <1>7, <1>8

(* From the start.                                                         *)
LEMMA CutStart ==
  ASSUME NEW S, NEW xs \in Seq(S), NEW n \in 0 .. Len(xs)
  PROVE  /\ Cut(xs, 0, n) \in Seq(S) /\ Len(Cut(xs, 0, n)) = n
         /\ \A k \in 1 .. n : Cut(xs, 0, n)[k] = xs[k]
         /\ SubSeq(xs, 1, n) = Cut(xs, 0, n)
         /\ CopyRange(xs, 0, n) = Cut(xs, 0, n)
<1>1. Len(xs) \in Nat
  BY SeqFacts
<1>2. PICK o \in 0 .. Len(xs) : o = 0
  BY <1>1
<1>3. n \in 0 .. Len(xs) - o /\ o + 1 = 1 /\ o + n = n
  BY <1>1, <1>2
<1>4. /\ Cut(xs, o, n) \in Seq(S) /\ Len(Cut(xs, o, n)) = n
      /\ SubSeq(xs, o + 1, o + n) = Cut(xs, o, n)
      /\ CopyRange(xs, o, n) = Cut(xs, o, n)
  BY <1>3, CutFacts
<1>5. \A k \in 1 .. n : Cut(xs, 0, n)[k] = xs[k]
  <2>1. \A k \in 1 .. n : 0 + k = k
    OBVIOUS
  <2> QED
    BY <2>1 DEF Cut
<1> QED
  BY <1>2, <1>3, <1>4, <1>5

(* A position clamped to a length.                                         *)
Clamp(n, len) == IF n < len THEN n ELSE len

(* Clamping keeps a position within the length.                            *)
LEMMA ClampFacts ==
  ASSUME NEW n \in Nat, NEW len \in Nat
  PROVE  /\ Clamp(n, len) \in 0 .. len
         /\ n <= len => Clamp(n, len) = n
         /\ n >= len => Clamp(n, len) = len
BY DEF Clamp

(* JavaScript's slice between positions that are not negative.             *)
LEMMA JsSliceFacts ==
  ASSUME NEW xs, Len(xs) \in Nat, NEW a \in Nat, NEW b \in Nat
  PROVE  JsSlice(xs, a, b) = SubSeq(xs, Clamp(a, Len(xs)) + 1, Clamp(b, Len(xs)))
<1>1. ~(a < 0) /\ ~(b < 0)
  OBVIOUS
<1> QED
  BY <1>1 DEF JsSlice, Clamp

(* All of it.                                                              *)
LEMMA CutAll ==
  ASSUME NEW S, NEW xs \in Seq(S)
  PROVE  Cut(xs, 0, Len(xs)) = xs
<1>1. \A k \in 1 .. Len(xs) : 0 + k = k
  BY SeqFacts
<1>2. xs = [k \in 1 .. Len(xs) |-> xs[k]]
  BY SeqFacts
<1> QED
  BY <1>1, <1>2 DEF Cut

-----------------------------------------------------------------------------
(* Sequence nodes on every target: each computes what its documentation    *)
(* says, for sequences of any length over any set.                         *)

(* Tails on every target.                                                  *)
LEMMA TailNodes ==
  ASSUME NEW S, NEW xs \in Seq(S)
  PROVE  \E ys \in Seq(S) :
           /\ ys = IF xs = <<>> THEN xs ELSE Tail(xs)
           /\ CTail(xs) = Ok(ys) /\ LlvmTail(xs) = Ok(ys) /\ TsTail(xs) = Ok(ys)
<1>0. Len(xs) \in Nat /\ (xs = <<>> <=> Len(xs) = 0) /\ 0 \in 0 .. Len(xs)
  BY SeqFacts
<1>1. CASE Len(xs) = 0
  <2>1. [k \in 1 .. Len(xs) - 1 |-> Item(xs, k)] = <<>>
    BY <1>1
  <2>2. JsSlice(xs, 1, Len(xs)) = SubSeq(xs, 1, 0)
    <3>1. Clamp(1, Len(xs)) = 0 /\ Clamp(Len(xs), Len(xs)) = 0 /\ 0 + 1 = 1
      BY <1>0, <1>1, ClampFacts
    <3>2. JsSlice(xs, 1, Len(xs)) = SubSeq(xs, Clamp(1, Len(xs)) + 1, Clamp(Len(xs), Len(xs)))
      BY <1>0, JsSliceFacts
    <3> QED
      BY <3>1, <3>2
  <2>3. SubSeq(xs, 1, 0) = <<>>
    BY SubSeqEmpty
  <2> QED
    BY <1>0, <1>1, <2>1, <2>2, <2>3 DEF CTail, LlvmTail, TsTail
<1>2. CASE Len(xs) # 0
  <2>0. 1 \in 0 .. Len(xs) /\ Len(xs) - 1 \in 0 .. Len(xs) - 1 /\ 1 + (Len(xs) - 1) = Len(xs)
        /\ Len(xs) - 1 \in Nat
    BY <1>0, <1>2
  <2> DEFINE t == Cut(xs, 1, Len(xs) - 1)
  <2>1. /\ t \in Seq(S) /\ Len(t) = Len(xs) - 1 /\ CopyRange(xs, 1, Len(xs) - 1) = t
        /\ SubSeq(xs, 1 + 1, 1 + (Len(xs) - 1)) = t
        /\ \A k \in 1 .. Len(xs) - 1 : Item(xs, 1 + k - 1) = xs[1 + k]
    <3>1. PICK b \in 0 .. Len(xs), l \in Nat :
            b = 1 /\ l = Len(xs) - 1 /\ l \in 0 .. Len(xs) - b
      BY <2>0, ZenonT(60)
    <3>2. /\ Cut(xs, b, l) \in Seq(S) /\ Len(Cut(xs, b, l)) = l
          /\ CopyRange(xs, b, l) = Cut(xs, b, l) /\ SubSeq(xs, b + 1, b + l) = Cut(xs, b, l)
          /\ \A k \in 1 .. l : Item(xs, b + k - 1) = xs[b + k]
      BY <3>1, CutFacts, ZenonT(60)
    <3> QED
      BY <3>1, <3>2
  <2>2. Tail(xs) = SubSeq(xs, 2, Len(xs))
    BY <1>0, <1>2, TailIsSubSeq
  <2>3. Tail(xs) = t
    BY <2>0, <2>1, <2>2
  <2>4. [k \in 1 .. Len(xs) - 1 |-> Item(xs, k)] = t
    <3>1. \A k \in 1 .. Len(xs) - 1 : Item(xs, k) = xs[1 + k]
      <4> SUFFICES ASSUME NEW k \in 1 .. Len(xs) - 1 PROVE Item(xs, k) = xs[1 + k]
        OBVIOUS
      <4>1. 1 + k - 1 = k
        BY <1>0
      <4> QED
        BY <2>1, <4>1
    <3> QED
      BY <3>1 DEF Cut
  <2>5. JsSlice(xs, 1, Len(xs)) = SubSeq(xs, 2, Len(xs))
    <3>0. PICK n \in Nat : n = Len(xs)
      BY <1>0
    <3>1. Clamp(1, n) = 1 /\ Clamp(n, n) = n
      BY <1>2, <3>0, ClampFacts
    <3>2. JsSlice(xs, 1, n) = SubSeq(xs, Clamp(1, Len(xs)) + 1, Clamp(n, Len(xs)))
      BY <1>0, <3>0, JsSliceFacts
    <3>3. 1 + 1 = 2
      OBVIOUS
    <3> QED
      BY <3>0, <3>1, <3>2, <3>3
  <2> HIDE DEF t
  <2> QED
    BY <1>0, <1>2, <2>1, <2>2, <2>3, <2>4, <2>5 DEF CTail, LlvmTail, TsTail
<1> QED
  BY <1>1, <1>2

(* Reversals on every target.                                              *)
LEMMA ReverseNodes ==
  ASSUME NEW S, NEW xs \in Seq(S)
  PROVE  \E ys \in Seq(S) :
           /\ ys = Seqs!Reverse(xs) /\ Len(ys) = Len(xs)
           /\ \A k \in 1 .. Len(xs) : ys[k] = xs[Len(xs) + 1 - k]
           /\ CReverse(xs) = Ok(ys) /\ LlvmReverse(xs) = Ok(ys) /\ TsReverse(xs) = Ok(ys)
<1>0. Len(xs) \in Nat
  BY SeqFacts
<1>1. PICK ys : ys = [k \in 1 .. Len(xs) |-> xs[Len(xs) + 1 - k]]
  OBVIOUS
<1>2. \A k \in 1 .. Len(xs) : /\ Len(xs) + 1 - k \in 1 .. Len(xs)
                              /\ Len(xs) - k = (Len(xs) + 1 - k) - 1
                              /\ (Len(xs) - k) + 1 = Len(xs) + 1 - k
  BY <1>0
<1>3. \A k \in 1 .. Len(xs) : Item(xs, Len(xs) - k) = xs[Len(xs) + 1 - k]
                              /\ xs[Len(xs) + 1 - k] \in S
  BY <1>2, SeqFacts
<1>4. ys = [k \in 1 .. Len(xs) |-> ys[k]] /\ \A k \in 1 .. Len(xs) : ys[k] \in S
  BY <1>1, <1>3
<1>5. ys \in Seq(S) /\ Len(ys) = Len(xs)
  BY <1>0, <1>4, Filled
<1>6. Seqs!Reverse(xs) = ys
  BY <1>1, <1>2 DEF Seqs!Reverse
<1>7. [k \in 1 .. Len(xs) |-> Item(xs, Len(xs) - k)] = ys
  BY <1>1, <1>3
<1> QED
  BY <1>1, <1>5, <1>6, <1>7 DEF CReverse, LlvmReverse, TsReverse

(* take on every target.                                                   *)
LEMMA TakeNodes ==
  ASSUME NEW S, NEW xs \in Seq(S), NEW n \in Nat, NEW kept, kept = Clamp(n, Len(xs))
  PROVE  /\ SubSeq(xs, 1, kept) = Cut(xs, 0, kept) /\ Cut(xs, 0, kept) \in Seq(S)
         /\ CTake(xs, n) = Ok(Cut(xs, 0, kept))
         /\ LlvmTake(xs, n) = Ok(Cut(xs, 0, kept))
         /\ TsTake(xs, n) = Ok(Cut(xs, 0, kept))
<1>0. Len(xs) \in Nat /\ kept \in Nat /\ kept <= Len(xs) /\ ~(n < 0)
  BY SeqFacts, ClampFacts
<1>1. 0 \in 0 .. Len(xs) /\ kept \in 0 .. Len(xs) - 0 /\ 0 + 1 = 1 /\ 0 + kept = kept
  BY <1>0
<1>2. /\ SubSeq(xs, 1, kept) = Cut(xs, 0, kept) /\ CopyRange(xs, 0, kept) = Cut(xs, 0, kept)
      /\ Cut(xs, 0, kept) \in Seq(S)
  BY <1>1, CutFacts
<1>3. kept = (IF n < Len(xs) THEN n ELSE Len(xs))
  BY DEF Clamp
<1>4. CTake(xs, n) = Ok([k \in 1 .. kept |-> Item(xs, k - 1)])
  BY <1>0, <1>3 DEF CTake
<1>5. [k \in 1 .. kept |-> Item(xs, k - 1)] = Cut(xs, 0, kept)
  <2>1. \A k \in 1 .. kept : k - 1 = 0 + k - 1
    BY <1>0
  <2> QED
    BY <1>2, <2>1 DEF CopyRange
<1>6. LlvmTake(xs, n) = Ok(CopyRange(xs, 0, kept))
  <2>1. kept = IF n > Len(xs) THEN Len(xs) ELSE n
    BY <1>0, <1>3
  <2> QED
    BY <1>0, <2>1 DEF LlvmTake, DieIf
<1>7. TsTake(xs, n) = Ok(SubSeq(xs, 0 + 1, kept))
  <2>1. Clamp(0, Len(xs)) = 0
    BY <1>0, ClampFacts
  <2>2. JsSlice(xs, 0, n) = SubSeq(xs, Clamp(0, Len(xs)) + 1, kept)
    BY <1>0, JsSliceFacts
  <2> QED
    BY <2>1, <2>2 DEF TsTake
<1> QED
  BY <1>1, <1>2, <1>4, <1>5, <1>6, <1>7

(* drop on every target.                                                   *)
LEMMA DropNodes ==
  ASSUME NEW S, NEW xs \in Seq(S), NEW n \in Nat, NEW kept, kept = Clamp(n, Len(xs))
  PROVE  /\ SubSeq(xs, kept + 1, Len(xs)) = Cut(xs, kept, Len(xs) - kept)
         /\ Cut(xs, kept, Len(xs) - kept) \in Seq(S)
         /\ CDrop(xs, n) = Ok(Cut(xs, kept, Len(xs) - kept))
         /\ LlvmDrop(xs, n) = Ok(Cut(xs, kept, Len(xs) - kept))
         /\ TsDrop(xs, n) = Ok(Cut(xs, kept, Len(xs) - kept))
<1>0. Len(xs) \in Nat /\ kept \in Nat /\ kept <= Len(xs) /\ ~(n < 0)
  BY SeqFacts, ClampFacts
<1>1. PICK l \in Nat : l = Len(xs) - kept
  BY <1>0
<1>11. l \in 0 .. Len(xs) - kept /\ kept + l = Len(xs) /\ kept \in 0 .. Len(xs)
  BY <1>0, <1>1
<1>2. /\ SubSeq(xs, kept + 1, kept + l) = Cut(xs, kept, l)
      /\ CopyRange(xs, kept, l) = Cut(xs, kept, l)
      /\ Cut(xs, kept, l) \in Seq(S)
      /\ \A k \in 1 .. l : Item(xs, kept + k - 1) = xs[kept + k]
  BY <1>11, CutFacts, ZenonT(60)
<1>3. kept = (IF n < Len(xs) THEN n ELSE Len(xs))
  BY DEF Clamp
<1>4. CDrop(xs, n) = Ok([k \in 1 .. l |-> Item(xs, kept + k - 1)])
  BY <1>0, <1>1, <1>3 DEF CDrop
<1>5. [k \in 1 .. l |-> Item(xs, kept + k - 1)] = Cut(xs, kept, l)
  BY <1>2 DEF Cut
<1>6. LlvmDrop(xs, n) = Ok(CopyRange(xs, kept, l))
  <2>1. kept = IF n > Len(xs) THEN Len(xs) ELSE n
    BY <1>0, <1>3
  <2> QED
    BY <1>0, <1>1, <2>1 DEF LlvmDrop, DieIf
<1>7. TsDrop(xs, n) = Ok(SubSeq(xs, kept + 1, Len(xs)))
  <2>1. Clamp(Len(xs), Len(xs)) = Len(xs)
    BY <1>0, ClampFacts
  <2>2. JsSlice(xs, n, Len(xs)) = SubSeq(xs, kept + 1, Clamp(Len(xs), Len(xs)))
    BY <1>0, JsSliceFacts
  <2> QED
    BY <2>1, <2>2 DEF TsDrop
<1> QED
  BY <1>1, <1>11, <1>2, <1>4, <1>5, <1>6, <1>7

(* slice on every target, where it aborts included.                        *)
LEMMA SliceNodes ==
  ASSUME NEW S, NEW xs \in Seq(S), NEW from \in Int, NEW to \in Int
  PROVE  /\ 0 <= from /\ from <= to /\ to <= Len(xs) =>
              /\ SubSeq(xs, from + 1, to) = Cut(xs, from, to - from)
              /\ Cut(xs, from, to - from) \in Seq(S)
              /\ CSlice(xs, from, to) = Ok(Cut(xs, from, to - from))
              /\ LlvmSlice(xs, from, to) = Ok(Cut(xs, from, to - from))
              /\ TsSlice(xs, from, to) = Ok(Cut(xs, from, to - from))
         /\ ~(0 <= from /\ from <= to /\ to <= Len(xs)) =>
              CSlice(xs, from, to) = Dead /\ LlvmSlice(xs, from, to) = Dead
<1>0. Len(xs) \in Nat
  BY SeqFacts
<1>1. ASSUME 0 <= from, from <= to, to <= Len(xs)
      PROVE  /\ SubSeq(xs, from + 1, to) = Cut(xs, from, to - from)
             /\ Cut(xs, from, to - from) \in Seq(S)
             /\ CSlice(xs, from, to) = Ok(Cut(xs, from, to - from))
             /\ LlvmSlice(xs, from, to) = Ok(Cut(xs, from, to - from))
             /\ TsSlice(xs, from, to) = Ok(Cut(xs, from, to - from))
  <2>0. from \in Nat /\ to \in Nat /\ ~(from < 0) /\ ~(to < from) /\ ~(to > Len(xs))
    BY <1>0, <1>1
  <2>1. PICK l \in Nat : l = to - from
    BY <1>1
  <2>2. l \in 0 .. Len(xs) - from /\ from + l = to /\ from \in 0 .. Len(xs)
    BY <1>0, <1>1, <2>1
  <2>3. /\ SubSeq(xs, from + 1, from + l) = Cut(xs, from, l)
        /\ CopyRange(xs, from, l) = Cut(xs, from, l)
        /\ Cut(xs, from, l) \in Seq(S)
        /\ \A k \in 1 .. l : Item(xs, from + k - 1) = xs[from + k]
    BY <2>2, CutFacts
  <2>4. CSlice(xs, from, to) = Ok([k \in 1 .. l |-> Item(xs, from + k - 1)])
    BY <2>0, <2>1 DEF CSlice
  <2>5. [k \in 1 .. l |-> Item(xs, from + k - 1)] = Cut(xs, from, l)
    BY <2>3 DEF Cut
  <2>6. LlvmSlice(xs, from, to) = Ok(CopyRange(xs, from, l))
    BY <2>0, <2>1 DEF LlvmSlice, DieIf
  <2>7. TsSlice(xs, from, to) = Ok(SubSeq(xs, from + 1, to))
    <3>1. Clamp(from, Len(xs)) = from /\ Clamp(to, Len(xs)) = to
      BY <1>0, <1>1, <2>0, ClampFacts
    <3>2. JsSlice(xs, from, to) = SubSeq(xs, Clamp(from, Len(xs)) + 1, Clamp(to, Len(xs)))
      BY <1>0, <2>0, JsSliceFacts
    <3> QED
      BY <3>1, <3>2 DEF TsSlice
  <2> QED
    BY <2>1, <2>2, <2>3, <2>4, <2>5, <2>6, <2>7
<1>2. ~(0 <= from /\ from <= to /\ to <= Len(xs)) =>
         CSlice(xs, from, to) = Dead /\ LlvmSlice(xs, from, to) = Dead
  BY <1>0 DEF CSlice, LlvmSlice, DieIf
<1> QED
  BY <1>1, <1>2

(* fill on every target.                                                   *)
LEMMA FillNodes ==
  ASSUME NEW S, NEW v \in S, NEW n \in Nat
  PROVE  \E ys \in Seq(S) :
           /\ ys = [k \in 1 .. n |-> v] /\ Len(ys) = n
           /\ CFill(v, n) = Ok(ys) /\ LlvmFill(v, n) = Ok(ys)
<1>1. PICK ys : ys = [k \in 1 .. n |-> v]
  OBVIOUS
<1>2. ys = [k \in 1 .. n |-> ys[k]] /\ \A k \in 1 .. n : ys[k] \in S
  BY <1>1
<1>3. ys \in Seq(S) /\ Len(ys) = n
  BY <1>2, Filled
<1>4. ~(n < 0)
  OBVIOUS
<1> QED
  BY <1>1, <1>3, <1>4 DEF CFill, LlvmFill, DieIf

(* Two copies fill a new sequence.                                         *)
LEMMA TwoCopies ==
  ASSUME NEW S, NEW xs \in Seq(S), NEW ys \in Seq(S)
  PROVE  CopyTo(CopyTo(Unset(Len(xs) + Len(ys)), 0, xs), Len(xs), ys) = xs \o ys
<1>0. Len(xs) \in Nat /\ Len(ys) \in Nat
  BY SeqFacts
<1>1. PICK n \in Nat : n = Len(xs) + Len(ys)
  BY <1>0
<1>2. PICK u : u = Unset(n)
  OBVIOUS
<1>3. DOMAIN u = 1 .. n
  BY <1>2 DEF Unset
<1>4. PICK d : d = CopyTo(u, 0, xs)
  OBVIOUS
<1>5. d = [k \in 1 .. n |-> IF k > 0 /\ k <= 0 + Len(xs) THEN xs[k - 0] ELSE u[k]]
  BY <1>3, <1>4 DEF CopyTo
<1>6. DOMAIN d = 1 .. n
  BY <1>5
<1>7. \A k \in 1 .. Len(xs) : d[k] = xs[k]
  <2> SUFFICES ASSUME NEW k \in 1 .. Len(xs) PROVE d[k] = xs[k]
    OBVIOUS
  <2>1. k \in 1 .. n /\ k > 0 /\ k <= 0 + Len(xs) /\ k - 0 = k
    BY <1>0, <1>1
  <2> QED
    BY <1>5, <2>1
<1>8. PICK e : e = CopyTo(d, Len(xs), ys)
  OBVIOUS
<1>9. e = [k \in 1 .. n |-> IF k > Len(xs) /\ k <= Len(xs) + Len(ys) THEN ys[k - Len(xs)] ELSE d[k]]
  BY <1>6, <1>8 DEF CopyTo
<1>10. /\ xs \o ys \in Seq(S) /\ Len(xs \o ys) = n
       /\ \A k \in 1 .. n : (xs \o ys)[k] = IF k <= Len(xs) THEN xs[k] ELSE ys[k - Len(xs)]
  BY <1>1, ConcatProperties
<1>11. \A k \in 1 .. n : (xs \o ys)[k] = e[k]
  <2> SUFFICES ASSUME NEW k \in 1 .. n PROVE (xs \o ys)[k] = e[k]
    OBVIOUS
  <2>1. CASE k <= Len(xs)
    <3>1. k \in 1 .. Len(xs) /\ ~(k > Len(xs))
      BY <1>0, <2>1
    <3> QED
      BY <1>7, <1>9, <1>10, <2>1, <3>1
  <2>2. CASE ~(k <= Len(xs))
    <3>1. k > Len(xs) /\ k <= Len(xs) + Len(ys)
      BY <1>0, <1>1, <2>2
    <3> QED
      BY <1>9, <1>10, <2>2, <3>1
  <2> QED
    BY <2>1, <2>2
<1>12. e = [k \in 1 .. n |-> e[k]]
  BY <1>9
<1>13. xs \o ys = e
  <2>1. PICK s : s = xs \o ys
    OBVIOUS
  <2>2. s \in Seq(S) /\ Len(s) = n /\ \A k \in 1 .. n : s[k] = e[k]
    BY <1>10, <1>11, <2>1
  <2>3. s = e
    BY <1>12, <2>2, Filling
  <2> QED
    BY <2>1, <2>3
<1> QED
  BY <1>1, <1>2, <1>4, <1>8, <1>13

(* concat on every target.                                                 *)
LEMMA ConcatNodes ==
  ASSUME NEW S, NEW xs \in Seq(S), NEW ys \in Seq(S)
  PROVE  /\ xs \o ys \in Seq(S)
         /\ CConcat(xs, ys) = Ok(xs \o ys)
         /\ LlvmConcat(xs, ys) = Ok(xs \o ys) /\ TsConcat(xs, ys) = Ok(xs \o ys)
<1>0. Len(xs) \in Nat /\ Len(ys) \in Nat
  BY SeqFacts
<1>1. PICK n \in Nat : n = Len(xs) + Len(ys)
  BY <1>0
<1>2. PICK f : f = [k \in 1 .. n |->
                      IF k <= Len(xs) THEN Item(xs, k - 1) ELSE Item(ys, k - 1 - Len(xs))]
  OBVIOUS
<1>3. /\ xs \o ys \in Seq(S) /\ Len(xs \o ys) = n
      /\ \A k \in 1 .. n : (xs \o ys)[k] = IF k <= Len(xs) THEN xs[k] ELSE ys[k - Len(xs)]
  BY <1>1, ConcatProperties
<1>4. \A k \in 1 .. n : (xs \o ys)[k] = f[k]
  <2> SUFFICES ASSUME NEW k \in 1 .. n PROVE (xs \o ys)[k] = f[k]
    OBVIOUS
  <2>1. CASE k <= Len(xs)
    <3>1. k \in 1 .. Len(xs)
      BY <1>0, <2>1
    <3>2. Item(xs, k - 1) = xs[k]
      BY <3>1, SeqFacts
    <3> QED
      BY <1>2, <1>3, <2>1, <3>2
  <2>2. CASE ~(k <= Len(xs))
    <3>1. PICK j \in 1 .. Len(ys) : j = k - Len(xs)
      BY <1>0, <1>1, <2>2
    <3>2. Item(ys, j - 1) = ys[j]
      BY <3>1, SeqFacts
    <3>3. k - 1 - Len(xs) = j - 1
      BY <1>0, <3>1
    <3> QED
      BY <1>2, <1>3, <2>2, <3>1, <3>2, <3>3
  <2> QED
    BY <2>1, <2>2
<1>5. f = [k \in 1 .. n |-> f[k]]
  BY <1>2
<1>6. xs \o ys = f
  <2>1. PICK s : s = xs \o ys
    OBVIOUS
  <2>2. s \in Seq(S) /\ Len(s) = n /\ \A k \in 1 .. n : s[k] = f[k]
    BY <1>3, <1>4, <2>1
  <2>3. s = f
    BY <1>5, <2>2, Filling
  <2> QED
    BY <2>1, <2>3
<1>7. CConcat(xs, ys) = Ok(f)
  BY <1>1, <1>2 DEF CConcat
<1>8. LlvmConcat(xs, ys) = Ok(xs \o ys)
  BY TwoCopies DEF LlvmConcat
<1> QED
  BY <1>3, <1>6, <1>7, <1>8 DEF TsConcat

(* append on every target.                                                 *)
LEMMA AppendNodes ==
  ASSUME NEW S, NEW xs \in Seq(S), NEW v \in S
  PROVE  /\ Append(xs, v) \in Seq(S)
         /\ CAppend(xs, v) = Ok(Append(xs, v))
         /\ LlvmAppend(xs, v) = Ok(Append(xs, v)) /\ TsAppend(xs, v) = Ok(Append(xs, v))
<1>0. Len(xs) \in Nat /\ <<v>> \in Seq(S) /\ Len(<<v>>) = 1
  BY SeqFacts
<1>1. PICK n \in Nat : n = Len(xs) + 1
  BY <1>0
<1>2. /\ Append(xs, v) \in Seq(S) /\ Len(Append(xs, v)) = n
      /\ \A k \in 1 .. Len(xs) : Append(xs, v)[k] = xs[k]
      /\ Append(xs, v)[n] = v
  BY <1>1, AppendProperties
<1>3. PICK f : f = [k \in 1 .. n |-> IF k <= Len(xs) THEN Item(xs, k - 1) ELSE v]
  OBVIOUS
<1>4. \A k \in 1 .. n : Append(xs, v)[k] = f[k]
  <2> SUFFICES ASSUME NEW k \in 1 .. n PROVE Append(xs, v)[k] = f[k]
    OBVIOUS
  <2>1. CASE k <= Len(xs)
    <3>1. k \in 1 .. Len(xs)
      BY <1>0, <2>1
    <3>2. Item(xs, k - 1) = xs[k]
      BY <3>1, SeqFacts
    <3> QED
      BY <1>2, <1>3, <2>1, <3>1, <3>2
  <2>2. CASE ~(k <= Len(xs))
    <3>1. k = n
      BY <1>0, <1>1, <2>2
    <3>2. f[k] = v
      BY <1>3, <2>2
    <3> QED
      BY <1>2, <3>1, <3>2
  <2> QED
    BY <2>1, <2>2
<1>5. f = [k \in 1 .. n |-> f[k]]
  BY <1>3
<1>6. Append(xs, v) = f
  <2>1. PICK s : s = Append(xs, v)
    OBVIOUS
  <2>2. s \in Seq(S) /\ Len(s) = n /\ \A k \in 1 .. n : s[k] = f[k]
    BY <1>2, <1>4, <2>1
  <2>3. s = f
    BY <1>5, <2>2, Filling
  <2> QED
    BY <2>1, <2>3
<1>7. CAppend(xs, v) = Ok(f)
  BY <1>1, <1>3 DEF CAppend
<1>8. LlvmAppend(xs, v) = Ok(xs \o <<v>>)
  BY <1>0, TwoCopies DEF LlvmAppend
<1>9. Append(xs, v) = xs \o <<v>>
  BY AppendIsConcat
<1> QED
  BY <1>2, <1>6, <1>7, <1>8, <1>9 DEF TsAppend

(* shift_right on every target.                                            *)
LEMMA ShiftRightNodes ==
  ASSUME NEW S, NEW xs \in Seq(S), NEW v \in S
  PROVE  \E ys \in Seq(S) :
           /\ ys = SubSeq(<<v>> \o xs, 1, Len(xs))
           /\ CShiftRight(xs, v) = Ok(ys) /\ LlvmShiftRight(xs, v) = Ok(ys)
           /\ TsShiftRight(xs, v) = Ok(ys) <=> xs # <<>>
           /\ \E t : TsShiftRight(xs, v) = Ok(t)
<1>0. Len(xs) \in Nat /\ <<v>> \in Seq(S) /\ Len(<<v>>) = 1 /\ <<v>>[1] = v
      /\ (xs = <<>> <=> Len(xs) = 0)
  BY SeqFacts
<1>1. PICK zs : zs = <<v>> \o xs
  OBVIOUS
<1>2. /\ zs \in Seq(S) /\ Len(zs) = 1 + Len(xs)
      /\ \A i \in 1 .. 1 + Len(xs) : zs[i] = IF i <= 1 THEN <<v>>[i] ELSE xs[i - 1]
  BY <1>0, <1>1, ConcatProperties
<1>3. PICK n \in Nat : n = Len(xs)
  BY <1>0
<1>4. PICK ys : ys = SubSeq(zs, 1, n)
  OBVIOUS
<1>5. ys = Cut(zs, 0, n) /\ ys \in Seq(S) /\ Len(ys) = n
      /\ \A k \in 1 .. n : ys[k] = zs[k]
  <2>1. n \in 0 .. Len(zs) /\ zs \in Seq(S)
    BY <1>2, <1>3
  <2>2. /\ Cut(zs, 0, n) \in Seq(S) /\ Len(Cut(zs, 0, n)) = n
        /\ \A k \in 1 .. n : Cut(zs, 0, n)[k] = zs[k]
        /\ SubSeq(zs, 1, n) = Cut(zs, 0, n)
    BY <2>1, CutStart
  <2> QED
    BY <1>4, <2>2
<1>6. \A k \in 1 .. n : ys[k] = IF k = 1 THEN v ELSE xs[k - 1]
  <2> SUFFICES ASSUME NEW k \in 1 .. n PROVE ys[k] = IF k = 1 THEN v ELSE xs[k - 1]
    OBVIOUS
  <2>1. k \in 1 .. 1 + Len(xs) /\ (k <= 1 <=> k = 1)
    BY <1>3
  <2>2. zs[k] = IF k = 1 THEN v ELSE xs[k - 1]
    BY <1>0, <1>2, <2>1
  <2> QED
    BY <1>5, <2>1, <2>2
<1>7. PICK f : f = [k \in 1 .. n |-> IF k = 1 THEN v ELSE Item(xs, k - 2)]
  OBVIOUS
<1>8. ys = f
  <2>1. \A k \in 1 .. n : ys[k] = f[k]
    <3> SUFFICES ASSUME NEW k \in 1 .. n PROVE ys[k] = f[k]
      OBVIOUS
    <3>1. CASE k = 1
      BY <1>6, <1>7, <3>1
    <3>2. CASE k # 1
      <4>1. PICK j \in 1 .. Len(xs) : j = k - 1
        BY <1>3, <3>2
      <4>2. Item(xs, j - 1) = xs[j] /\ k - 2 = j - 1
        BY <4>1, SeqFacts
      <4> QED
        BY <1>6, <1>7, <3>2, <4>1, <4>2
    <3> QED
      BY <3>1, <3>2
  <2>2. f = [k \in 1 .. n |-> f[k]]
    BY <1>7
  <2> QED
    BY <1>5, <2>1, <2>2, Filling
<1>9. CShiftRight(xs, v) = Ok(ys)
  BY <1>3, <1>7, <1>8 DEF CShiftRight
<1>10. LlvmShiftRight(xs, v) = Ok(ys)
  <2>1. Len(xs) = 0 => ys = <<>>
    BY <1>3, <1>5, SeqFacts
  <2> QED
    BY <1>3, <1>7, <1>8, <2>1 DEF LlvmShiftRight
<1>11. PICK t : TsShiftRight(xs, v) = Ok(t) /\ t = <<v>> \o JsSlice(xs, 0, IF 0 > n - 1 THEN 0 ELSE n - 1)
  BY <1>3 DEF TsShiftRight
<1>12. CASE n = 0
  <2>1. t = <<v>> \o JsSlice(xs, 0, 0)
    BY <1>11, <1>12
  <2>2. JsSlice(xs, 0, 0) = <<>>
    <3>1. Clamp(0, Len(xs)) = 0 /\ 0 + 1 = 1
      BY <1>0, ClampFacts
    <3>2. JsSlice(xs, 0, 0) = SubSeq(xs, Clamp(0, Len(xs)) + 1, Clamp(0, Len(xs)))
      BY <1>0, JsSliceFacts
    <3>3. SubSeq(xs, 1, 0) = <<>>
      BY SubSeqEmpty
    <3> QED
      BY <3>1, <3>2, <3>3
  <2>3. t = <<v>>
    BY <1>0, <2>1, <2>2, ConcatEmptySeq
  <2>4. t # ys
    <3>1. Len(ys) = 0 /\ Len(t) = 1
      BY <1>0, <1>5, <1>12, <2>3
    <3>2. t = ys => Len(t) = Len(ys)
      OBVIOUS
    <3>3. Len(t) # Len(ys)
      BY <3>1
    <3> QED
      BY <3>2, <3>3
  <2>5. TsShiftRight(xs, v) # Ok(ys)
    BY <1>11, <2>4, OkIsOne
  <2>6. ys = SubSeq(<<v>> \o xs, 1, Len(xs)) /\ ys \in Seq(S) /\ xs = <<>>
    BY <1>0, <1>1, <1>3, <1>4, <1>5, <1>12
  <2> QED
    BY <1>9, <1>10, <1>11, <2>5, <2>6
<1>13. CASE n # 0
  <2>1. PICK m \in Nat : m = n - 1
    BY <1>13
  <2>2. t = <<v>> \o JsSlice(xs, 0, m)
    <3>1. ~(0 > n - 1)
      BY <1>13
    <3> QED
      BY <1>11, <2>1, <3>1
  <2>3. JsSlice(xs, 0, m) = SubSeq(xs, 0 + 1, 0 + m)
    <3>1. Clamp(0, Len(xs)) = 0 /\ Clamp(m, Len(xs)) = m /\ 0 + m = m
      BY <1>3, <2>1, ClampFacts
    <3>2. JsSlice(xs, 0, m) = SubSeq(xs, Clamp(0, Len(xs)) + 1, Clamp(m, Len(xs)))
      BY <1>0, JsSliceFacts
    <3> QED
      BY <3>1, <3>2
  <2>4. PICK c : c = JsSlice(xs, 0, m)
    OBVIOUS
  <2>5. c \in Seq(S) /\ Len(c) = m /\ \A k \in 1 .. m : c[k] = xs[0 + k]
    <3>1. 0 \in 0 .. Len(xs) /\ m \in 0 .. Len(xs) - 0
      BY <1>3, <2>1
    <3>2. SubSeq(xs, 0 + 1, 0 + m) = Cut(xs, 0, m) /\ Cut(xs, 0, m) \in Seq(S)
          /\ Len(Cut(xs, 0, m)) = m /\ \A k \in 1 .. m : Cut(xs, 0, m)[k] = xs[0 + k]
      BY <3>1, CutFacts
    <3> QED
      BY <2>3, <2>4, <3>2
  <2>6. /\ t \in Seq(S) /\ Len(t) = 1 + m
        /\ \A i \in 1 .. 1 + m : t[i] = IF i <= 1 THEN <<v>>[i] ELSE c[i - 1]
    BY <1>0, <2>2, <2>4, <2>5, ConcatProperties
  <2>7. \A k \in 1 .. n : t[k] = ys[k]
    <3> SUFFICES ASSUME NEW k \in 1 .. n PROVE t[k] = ys[k]
      OBVIOUS
    <3>1. k \in 1 .. 1 + m
      BY <2>1
    <3>2. CASE k = 1
      BY <1>0, <1>6, <2>6, <3>1, <3>2
    <3>3. CASE k # 1
      <4>1. k - 1 \in 1 .. m /\ ~(k <= 1) /\ 0 + (k - 1) = k - 1
        BY <3>1, <3>3
      <4>2. c[k - 1] = xs[k - 1]
        BY <2>5, <4>1
      <4> QED
        BY <1>6, <2>6, <3>1, <3>3, <4>1, <4>2
    <3> QED
      BY <3>2, <3>3
  <2>8. t = ys
    <3>1. Len(t) = Len(ys)
      BY <1>5, <2>1, <2>6
    <3> QED
      BY <1>5, <2>6, <2>7, <3>1, SeqEqual
  <2> QED
    <3>1. ys = SubSeq(<<v>> \o xs, 1, Len(xs)) /\ ys \in Seq(S) /\ xs # <<>>
      BY <1>0, <1>1, <1>3, <1>4, <1>5, <1>13
    <3> QED
      BY <1>9, <1>10, <1>11, <2>8, <3>1
<1> QED
  BY <1>12, <1>13

(* shift_left on every target.                                             *)
LEMMA ShiftLeftNodes ==
  ASSUME NEW S, NEW xs \in Seq(S), NEW v \in S
  PROVE  \E ys \in Seq(S) :
           /\ ys = SubSeq(Append(xs, v), 2, Len(xs) + 1)
           /\ CShiftLeft(xs, v) = Ok(ys)
           /\ TsShiftLeft(xs, v) = Ok(ys) <=> xs # <<>>
           /\ \E t : TsShiftLeft(xs, v) = Ok(t)
<1>0. PICK n \in Nat : n = Len(xs) /\ (xs = <<>> <=> n = 0)
  BY SeqFacts
<1>1. PICK zs : zs = Append(xs, v)
  OBVIOUS
<1>2. zs \in Seq(S) /\ Len(zs) = n + 1 /\ zs[n + 1] = v
      /\ \A i \in 1 .. n : zs[i] = xs[i]
  BY <1>0, <1>1, AppendProperties
<1>3. PICK ys : ys = SubSeq(zs, 2, n + 1)
  OBVIOUS
<1>4. ys \in Seq(S) /\ Len(ys) = n /\ \A k \in 1 .. n : ys[k] = zs[1 + k]
  <2>1. 1 \in 0 .. Len(zs) /\ n \in 0 .. Len(zs) - 1 /\ 1 + 1 = 2 /\ 1 + n = n + 1
    BY <1>2
  <2>2. /\ Cut(zs, 1, n) \in Seq(S) /\ Len(Cut(zs, 1, n)) = n
        /\ \A k \in 1 .. n : Cut(zs, 1, n)[k] = zs[1 + k]
        /\ SubSeq(zs, 1 + 1, 1 + n) = Cut(zs, 1, n)
    <3>1. zs \in Seq(S)
      BY <1>2
    <3> QED
      BY <2>1, <3>1, CutFacts
  <2>3. ys = Cut(zs, 1, n)
    BY <1>3, <2>1, <2>2
  <2> QED
    BY <2>2, <2>3
<1>5. \A k \in 1 .. n : ys[k] = IF k < n THEN xs[k + 1] ELSE v
  <2> SUFFICES ASSUME NEW k \in 1 .. n PROVE ys[k] = IF k < n THEN xs[k + 1] ELSE v
    OBVIOUS
  <2>1. 1 + k = k + 1 /\ (k < n => k + 1 \in 1 .. n) /\ (~(k < n) => k = n)
    OBVIOUS
  <2> QED
    BY <1>2, <1>4, <2>1
<1>6. PICK f : f = [k \in 1 .. n |-> IF k < n THEN Item(xs, k) ELSE v]
  OBVIOUS
<1>7. ys = f
  <2>1. \A k \in 1 .. n : ys[k] = f[k]
    <3> SUFFICES ASSUME NEW k \in 1 .. n PROVE ys[k] = f[k]
      OBVIOUS
    <3>1. CASE k < n
      <4>1. PICK j \in 1 .. Len(xs) : j = k + 1 /\ k = j - 1
        BY <1>0, <3>1
      <4>2. Item(xs, j - 1) = xs[j]
        BY <4>1, SeqFacts
      <4> QED
        BY <1>5, <1>6, <3>1, <4>1, <4>2
    <3>2. CASE ~(k < n)
      BY <1>5, <1>6, <3>2
    <3> QED
      BY <3>1, <3>2
  <2>2. f = [k \in 1 .. n |-> f[k]]
    BY <1>6
  <2> QED
    BY <1>4, <2>1, <2>2, Filling
<1>8. CShiftLeft(xs, v) = Ok(ys)
  BY <1>0, <1>6, <1>7 DEF CShiftLeft
<1>9. PICK c : c = JsSlice(xs, 1, n)
  OBVIOUS
<1>10. TsShiftLeft(xs, v) = Ok(Append(c, v))
  BY <1>0, <1>9 DEF TsShiftLeft
<1>11. \E s \in Seq(S) : /\ s = c /\ Len(s) = IF n = 0 THEN 0 ELSE n - 1
                         /\ \A k \in 1 .. n - 1 : s[k] = xs[k + 1]
  <2>1. PICK s \in Seq(S) : s = (IF xs = <<>> THEN xs ELSE Tail(xs)) /\ TsTail(xs) = Ok(s)
    BY TailNodes
  <2>2. c = s
    <3>1. TsTail(xs) = Ok(c)
      BY <1>0, <1>9 DEF TsTail
    <3> QED
      BY <2>1, <3>1, OkIsOne
  <2>3. CASE n = 0
    <3>1. s = xs /\ Len(s) = 0 /\ 1 .. n - 1 = {}
      BY <1>0, <2>1, <2>3
    <3> QED
      BY <2>2, <2>3, <3>1
  <2>4. CASE n # 0
    <3>1. s = Tail(xs) /\ Len(s) = n - 1 /\ \A k \in 1 .. Len(s) : s[k] = xs[k + 1]
      BY <1>0, <2>1, <2>4, HeadTailProperties
    <3> QED
      BY <2>2, <2>4, <3>1
  <2> QED
    BY <2>3, <2>4
<1>12. PICK m \in Nat : Len(c) = m /\ m = (IF n = 0 THEN 0 ELSE n - 1)
  BY <1>11
<1>13. PICK t : t = Append(c, v)
  OBVIOUS
<1>14. /\ t \in Seq(S) /\ Len(t) = m + 1 /\ t[m + 1] = v
       /\ \A k \in 1 .. m : t[k] = c[k]
  BY <1>11, <1>12, <1>13, AppendProperties
<1>15. t = ys <=> n # 0
  <2>1. CASE n = 0
    <3>1. Len(t) = m + 1 /\ m = 0 /\ Len(ys) = 0
      BY <1>4, <1>12, <1>14, <2>1
    <3> QED
      BY <2>1, <3>1
  <2>2. CASE n # 0
    <3>1. m = n - 1 /\ m + 1 = n
      BY <1>12, <2>2
    <3>2. \A k \in 1 .. n : t[k] = ys[k]
      <4> SUFFICES ASSUME NEW k \in 1 .. n PROVE t[k] = ys[k]
        OBVIOUS
      <4>1. CASE k < n
        <5>1. k \in 1 .. m /\ k \in 1 .. n - 1
          BY <3>1, <4>1
        <5> QED
          BY <1>5, <1>11, <1>14, <4>1, <5>1
      <4>2. CASE ~(k < n)
        BY <1>5, <1>14, <3>1, <4>2
      <4> QED
        BY <4>1, <4>2
    <3> QED
      BY <1>4, <1>14, <2>2, <3>1, <3>2, SeqEqual
  <2> QED
    BY <2>1, <2>2
<1> QED
  <2>1. ys = SubSeq(Append(xs, v), 2, Len(xs) + 1) /\ ys \in Seq(S)
    BY <1>0, <1>1, <1>3, <1>4
  <2>2. TsShiftLeft(xs, v) = Ok(t)
    BY <1>10, <1>13
  <2>3. TsShiftLeft(xs, v) = Ok(ys) <=> xs # <<>>
    BY <1>0, <1>15, <2>2, OkIsOne
  <2> QED
    BY <1>8, <2>1, <2>2, <2>3

(* Items taken out of a sequence.                                          *)
LEMMA HeadNodes ==
  ASSUME NEW S, NEW xs \in Seq(S)
  PROVE  /\ xs = <<>> => /\ CHead(xs) = Fault("empty") /\ LlvmHead(xs) = Fault("empty")
                         /\ TsHead(xs) = Fault("empty")
                         /\ CLast(xs) = Fault("empty") /\ LlvmLast(xs) = Fault("empty")
                         /\ TsLast(xs) = Fault("empty")
         /\ xs # <<>> =>
              /\ Head(xs) \in S /\ Seqs!Last(xs) \in S /\ Seqs!Last(xs) = xs[Len(xs)]
              /\ CHead(xs) = Ok(Head(xs)) /\ LlvmHead(xs) = Ok(Head(xs))
              /\ TsHead(xs) = Ok(Head(xs))
              /\ CLast(xs) = Ok(Seqs!Last(xs)) /\ LlvmLast(xs) = Ok(Seqs!Last(xs))
              /\ TsLast(xs) = Ok(Seqs!Last(xs))
<1>0. PICK n \in Nat : n = Len(xs) /\ (xs = <<>> <=> n = 0)
  BY SeqFacts
<1>1. CASE n = 0
  <2>1. SeqIndexInvalid(xs, Len(xs) - 1)
    BY <1>0, <1>1 DEF SeqIndexInvalid
  <2> QED
    BY <1>0, <1>1, <2>1
    DEF CHead, LlvmHead, TsHead, CLast, LlvmLast, TsLast, FaultableSeqIndex
<1>2. CASE n # 0
  <2>1. 1 \in 1 .. Len(xs) /\ n \in 1 .. Len(xs) /\ 1 - 1 = 0
    BY <1>0, <1>2
  <2>2. Item(xs, 0) = xs[1] /\ Item(xs, n - 1) = xs[n] /\ xs[1] \in S /\ xs[n] \in S
    <3>1. Item(xs, 1 - 1) = xs[1] /\ xs[1] \in S
      BY <2>1, SeqFacts
    <3>2. Item(xs, n - 1) = xs[n] /\ xs[n] \in S
      BY <2>1, SeqFacts
    <3> QED
      BY <2>1, <3>1, <3>2
  <2>3. ~SeqIndexInvalid(xs, Len(xs) - 1)
    BY <1>0, <1>2 DEF SeqIndexInvalid
  <2>4. Seqs!Last(xs) = xs[n]
    BY <1>0 DEF Seqs!Last
  <2>5. Head(xs) = xs[1]
    BY <1>0, <1>2
  <2> QED
    BY <1>0, <1>2, <2>2, <2>3, <2>4, <2>5
    DEF CHead, LlvmHead, TsHead, CLast, LlvmLast, TsLast, FaultableSeqIndex
<1> QED
  BY <1>1, <1>2

(* at, get and get_or on every target.                                     *)
LEMMA IndexNodes ==
  ASSUME NEW S, NEW xs \in Seq(S), NEW i \in Int, NEW v
  PROVE  /\ i + 1 \in DOMAIN xs =>
              /\ xs[i + 1] \in S /\ CAt(xs, i) = Ok(xs[i + 1])
              /\ LlvmAt(xs, i) = Ok(xs[i + 1]) /\ TsAt(xs, i) = WrongShape
              /\ CGet(xs, i) = Ok(xs[i + 1]) /\ LlvmGet(xs, i) = Ok(xs[i + 1])
              /\ CGetOr(xs, i, v) = Ok(xs[i + 1]) /\ LlvmGetOr(xs, i, v) = Ok(xs[i + 1])
              /\ TsGetOr(xs, i, v) = Ok(xs[i + 1])
         /\ i + 1 \notin DOMAIN xs =>
              /\ CAt(xs, i) = Fault("range") /\ LlvmAt(xs, i) = Fault("range")
              /\ TsAt(xs, i) = Dead /\ CGet(xs, i) = Dead /\ LlvmGet(xs, i) = Dead
              /\ CGetOr(xs, i, v) = Ok(v) /\ LlvmGetOr(xs, i, v) = Ok(v)
              /\ TsGetOr(xs, i, v) = Ok(v)
<1>0. Len(xs) \in Nat /\ DOMAIN xs = 1 .. Len(xs)
  BY SeqFacts
<1>1. /\ CInRange(xs, i) <=> i + 1 \in DOMAIN xs
      /\ SeqIndexInvalid(xs, i) <=> i + 1 \notin DOMAIN xs
      /\ JsOutside(xs, i) <=> i + 1 \notin DOMAIN xs
  BY <1>0 DEF CInRange, SeqIndexInvalid, JsOutside
<1>2. i + 1 \in DOMAIN xs => xs[i + 1] \in S /\ Item(xs, i) = xs[i + 1]
  BY <1>0, SeqFacts DEF Item
<1> QED
  BY <1>1, <1>2
     DEF CAt, LlvmAt, TsAt, CGet, LlvmGet, CGetOr, LlvmGetOr, TsGetOr,
                    FaultableSeqIndex, DieIf

(* set on every target, where it aborts included.                          *)
LEMMA SetNodes ==
  ASSUME NEW S, NEW xs \in Seq(S), NEW i \in Int, NEW v \in S
  PROVE  /\ i + 1 \in DOMAIN xs =>
              /\ [xs EXCEPT ![i + 1] = v] \in Seq(S) /\ Len([xs EXCEPT ![i + 1] = v]) = Len(xs)
              /\ CSet(xs, i, v) = Ok([xs EXCEPT ![i + 1] = v])
              /\ LlvmSet(xs, i, v) = Ok([xs EXCEPT ![i + 1] = v])
         /\ i + 1 \notin DOMAIN xs => CSet(xs, i, v) = Dead /\ LlvmSet(xs, i, v) = Dead
<1>0. PICK n \in Nat : n = Len(xs) /\ DOMAIN xs = 1 .. n /\ xs = [k \in 1 .. n |-> xs[k]]
  BY SeqFacts
<1>1. /\ CInRange(xs, i) <=> i + 1 \in DOMAIN xs
      /\ SeqIndexInvalid(xs, i) <=> i + 1 \notin DOMAIN xs
  BY <1>0 DEF CInRange, SeqIndexInvalid
<1>2. ASSUME i + 1 \in DOMAIN xs
      PROVE  /\ [xs EXCEPT ![i + 1] = v] \in Seq(S) /\ Len([xs EXCEPT ![i + 1] = v]) = Len(xs)
             /\ CSet(xs, i, v) = Ok([xs EXCEPT ![i + 1] = v])
             /\ LlvmSet(xs, i, v) = Ok([xs EXCEPT ![i + 1] = v])
  <2>1. [xs EXCEPT ![i + 1] = v] \in Seq(S) /\ Len([xs EXCEPT ![i + 1] = v]) = Len(xs)
    BY <1>0, <1>2, ExceptSeq
  <2>2. [k \in 1 .. n |-> Item(xs, k - 1)] = xs
    <3>1. \A k \in 1 .. n : Item(xs, k - 1) = xs[k]
      BY <1>0, SeqFacts
    <3> QED
      BY <1>0, <3>1
  <2>3. CSet(xs, i, v) = Ok([xs EXCEPT ![i + 1] = v])
    BY <1>0, <1>1, <1>2, <2>2 DEF CSet
  <2>4. CopyRange(xs, 0, n) = xs
    <3>1. CopyRange(xs, 0, n) = Cut(xs, 0, n)
      <4>1. 0 \in 0 .. Len(xs) /\ n \in 0 .. Len(xs) - 0
        BY <1>0
      <4> QED
        BY <4>1, CutFacts
    <3> QED
      BY <1>0, <3>1, CutAll
  <2>5. CopyTo(xs, i, <<v>>) = [xs EXCEPT ![i + 1] = v]
    <3>1. PICK f : f = [xs EXCEPT ![i + 1] = v]
      OBVIOUS
    <3>2. f = [k \in 1 .. n |-> IF k = i + 1 THEN v ELSE xs[k]]
      BY <1>0, <3>1
    <3>3. PICK g : g = CopyTo(xs, i, <<v>>)
      OBVIOUS
    <3>4. g = [k \in 1 .. n |-> IF k > i /\ k <= i + Len(<<v>>) THEN <<v>>[k - i] ELSE xs[k]]
      BY <1>0, <3>3 DEF CopyTo
    <3>5. \A k \in 1 .. n : g[k] = f[k]
      <4> SUFFICES ASSUME NEW k \in 1 .. n PROVE g[k] = f[k]
        OBVIOUS
      <4>1. Len(<<v>>) = 1 /\ <<v>>[1] = v
        OBVIOUS
      <4>2. CASE k = i + 1
        <5>1. k > i /\ k <= i + Len(<<v>>) /\ k - i = 1
          BY <4>1, <4>2
        <5> QED
          BY <3>2, <3>4, <4>1, <4>2, <5>1
      <4>3. CASE k # i + 1
        <5>1. ~(k > i /\ k <= i + Len(<<v>>))
          BY <4>1, <4>3
        <5> QED
          BY <3>2, <3>4, <4>3, <5>1
      <4> QED
        BY <4>2, <4>3
    <3>6. f = g
      BY <3>2, <3>4, <3>5
    <3> QED
      BY <3>1, <3>3, <3>6
  <2>6. LlvmSet(xs, i, v) = Ok([xs EXCEPT ![i + 1] = v])
    BY <1>0, <1>1, <1>2, <2>4, <2>5 DEF LlvmSet, DieIf
  <2> QED
    BY <2>1, <2>3, <2>6
<1>3. i + 1 \notin DOMAIN xs => CSet(xs, i, v) = Dead /\ LlvmSet(xs, i, v) = Dead
  BY <1>1 DEF CSet, LlvmSet, DieIf
<1> QED
  BY <1>2, <1>3

-----------------------------------------------------------------------------
(* Pairs, and nested sequences of one length.                              *)

(* Pairs.                                                                  *)
LEMMA ZipNodes ==
  ASSUME NEW S, NEW xs \in Seq(S), NEW T, NEW ys \in Seq(T)
  PROVE  /\ Len(xs) # Len(ys) =>
              CZip(xs, ys) = Dead /\ LlvmZip(xs, ys) = Dead /\ TsZip(xs, ys) = Dead
         /\ Len(xs) = Len(ys) =>
              /\ CZip(xs, ys) = Ok(Seqs!Zip(xs, ys))
              /\ LlvmZip(xs, ys) = Ok(Seqs!Zip(xs, ys))
              /\ TsZip(xs, ys) = Ok(Seqs!Zip(xs, ys))
<1>1. Len(xs) # Len(ys) =>
         CZip(xs, ys) = Dead /\ LlvmZip(xs, ys) = Dead /\ TsZip(xs, ys) = Dead
  BY DEF CZip, LlvmZip, TsZip, DieIf
<1>2. ASSUME Len(xs) = Len(ys)
      PROVE  /\ CZip(xs, ys) = Ok(Seqs!Zip(xs, ys))
             /\ LlvmZip(xs, ys) = Ok(Seqs!Zip(xs, ys))
             /\ TsZip(xs, ys) = Ok(Seqs!Zip(xs, ys))
  <2>1. PICK n \in Nat : n = Len(xs) /\ n = Len(ys) /\ DOMAIN xs = 1 .. n
    BY <1>2, SeqFacts
  <2>2. \A k \in 1 .. n : Item(xs, k - 1) = xs[k] /\ Item(ys, k - 1) = ys[k]
    BY <2>1, SeqFacts
  <2>3. PICK f : f = [k \in 1 .. n |-> <<xs[k], ys[k]>>]
    OBVIOUS
  <2>4. [k \in 1 .. n |-> <<Item(xs, k - 1), Item(ys, k - 1)>>] = f
    BY <2>2, <2>3
  <2>5. Seqs!Zip(xs, ys) = f
    BY <2>1, <2>3 DEF Seqs!Zip
  <2> QED
    BY <2>1, <2>3, <2>4, <2>5 DEF CZip, LlvmZip, TsZip, DieIf
<1> QED
  BY <1>1, <1>2

(* Pairs with one value on either side are sequences.                      *)
LEMMA BroadcastFacts ==
  ASSUME NEW S, NEW xs \in Seq(S), NEW v, NEW vs, vs = [k \in DOMAIN xs |-> v]
  PROVE  /\ CBroadcastRight(xs, v) = Ok(Seqs!Zip(xs, vs))
         /\ LlvmBroadcastRight(xs, v) = Ok(Seqs!Zip(xs, vs))
         /\ TsBroadcastRight(xs, v) = Ok(Seqs!Zip(xs, vs))
         /\ CBroadcastLeft(v, xs) = Ok(Seqs!Zip(vs, xs))
         /\ LlvmBroadcastLeft(v, xs) = Ok(Seqs!Zip(vs, xs))
         /\ TsBroadcastLeft(v, xs) = Ok(Seqs!Zip(vs, xs))
<1>1. PICK n \in Nat : n = Len(xs) /\ DOMAIN xs = 1 .. n
  BY SeqFacts
<1>2. \A k \in 1 .. n : Item(xs, k - 1) = xs[k]
  BY <1>1, SeqFacts
<1>3. vs = [k \in 1 .. n |-> v]
  BY <1>1
<1>4. Len(vs) = n
  <2>1. vs = [k \in 1 .. n |-> vs[k]] /\ \A k \in 1 .. n : vs[k] \in {v}
    BY <1>3
  <2> QED
    BY <2>1, Filled
<1>5. \A k \in 1 .. n : vs[k] = v
  BY <1>3
<1>6. Seqs!Zip(xs, vs) = [k \in 1 .. n |-> <<xs[k], v>>]
  BY <1>1, <1>4, <1>5 DEF Seqs!Zip
<1>7. Seqs!Zip(vs, xs) = [k \in 1 .. n |-> <<v, xs[k]>>]
  BY <1>1, <1>4, <1>5 DEF Seqs!Zip
<1>8. /\ [k \in 1 .. n |-> <<Item(xs, k - 1), v>>] = [k \in 1 .. n |-> <<xs[k], v>>]
      /\ [k \in 1 .. n |-> <<v, Item(xs, k - 1)>>] = [k \in 1 .. n |-> <<v, xs[k]>>]
  BY <1>2
<1>10. /\ CBroadcastRight(xs, v) = Ok(Seqs!Zip(xs, vs))
       /\ LlvmBroadcastRight(xs, v) = Ok(Seqs!Zip(xs, vs))
       /\ TsBroadcastRight(xs, v) = Ok(Seqs!Zip(xs, vs))
  BY <1>1, <1>6, <1>8 DEF CBroadcastRight, LlvmBroadcastRight, TsBroadcastRight
<1>11. /\ CBroadcastLeft(v, xs) = Ok(Seqs!Zip(vs, xs))
       /\ LlvmBroadcastLeft(v, xs) = Ok(Seqs!Zip(vs, xs))
       /\ TsBroadcastLeft(v, xs) = Ok(Seqs!Zip(vs, xs))
  BY <1>1, <1>7, <1>8 DEF CBroadcastLeft, LlvmBroadcastLeft, TsBroadcastLeft
<1> QED
  BY <1>10, <1>11

(* One value paired with every item, on either side.                       *)
LEMMA BroadcastRightNodes ==
  ASSUME NEW S, NEW xs \in Seq(S), NEW v
  PROVE  \E t : /\ t = Seqs!Zip(xs, [k \in DOMAIN xs |-> v])
               /\ CBroadcastRight(xs, v) = Ok(t) /\ LlvmBroadcastRight(xs, v) = Ok(t)
               /\ TsBroadcastRight(xs, v) = Ok(t)
<1>1. PICK vs : vs = [k \in DOMAIN xs |-> v]
  OBVIOUS
<1>2. /\ CBroadcastRight(xs, v) = Ok(Seqs!Zip(xs, vs))
      /\ LlvmBroadcastRight(xs, v) = Ok(Seqs!Zip(xs, vs))
      /\ TsBroadcastRight(xs, v) = Ok(Seqs!Zip(xs, vs))
  BY <1>1, BroadcastFacts
<1> QED
  BY <1>1, <1>2

(* The same for the value on the left.                                     *)
LEMMA BroadcastLeftNodes ==
  ASSUME NEW S, NEW xs \in Seq(S), NEW v
  PROVE  \E t : /\ t = Seqs!Zip([k \in DOMAIN xs |-> v], xs)
               /\ CBroadcastLeft(v, xs) = Ok(t) /\ LlvmBroadcastLeft(v, xs) = Ok(t)
               /\ TsBroadcastLeft(v, xs) = Ok(t)
<1>1. PICK vs : vs = [k \in DOMAIN xs |-> v]
  OBVIOUS
<1>2. /\ CBroadcastLeft(v, xs) = Ok(Seqs!Zip(vs, xs))
      /\ LlvmBroadcastLeft(v, xs) = Ok(Seqs!Zip(vs, xs))
      /\ TsBroadcastLeft(v, xs) = Ok(Seqs!Zip(vs, xs))
  BY <1>1, BroadcastFacts
<1> QED
  BY <1>1, <1>2

(* Nested sequences.                                                       *)
LEMMA InnerLengthNodes ==
  ASSUME NEW S, NEW rows \in Seq(Seq(S))
  PROVE  \E n : /\ n = IF rows = <<>> THEN 0 ELSE Len(Head(rows))
                /\ n = IF rows = <<>> THEN 0 ELSE Len(rows[1])
                /\ CInnerLength(rows) = Ok(n) /\ LlvmInnerLength(rows) = Ok(n)
                /\ TsInnerLength(rows) = Ok(n)
<1>1. PICK l \in Nat : l = Len(rows) /\ (rows = <<>> <=> l = 0)
  BY SeqFacts
<1>2. CASE l = 0
  BY <1>1, <1>2 DEF CInnerLength, LlvmInnerLength, TsInnerLength
<1>3. CASE l # 0
  <2>1. 1 \in 1 .. Len(rows) /\ 1 - 1 = 0
    BY <1>1, <1>3
  <2>2. Item(rows, 1 - 1) = rows[1]
    <3>1. PICK one \in 1 .. Len(rows) : one = 1
      BY <2>1
    <3>2. Item(rows, one - 1) = rows[one]
      BY SeqFacts
    <3> QED
      BY <3>1, <3>2
  <2>3. Item(rows, 0) = rows[1]
    BY <2>1, <2>2
  <2>4. Head(rows) = rows[1]
    BY <1>1, <1>3
  <2> QED
    BY <1>1, <1>3, <2>3, <2>4 DEF CInnerLength, LlvmInnerLength, TsInnerLength
<1> QED
  BY <1>2, <1>3

(* Rows of one length.                                                     *)
LEMMA RaggedRows ==
  ASSUME NEW S, NEW rows \in Seq(Seq(S)), NEW c \in Nat,
         c = IF rows = <<>> THEN 0 ELSE Len(rows[1])
  PROVE  Cardinality({Len(rows[r]) : r \in DOMAIN rows}) > 1
           <=> \E r \in DOMAIN rows : Len(rows[r]) # c
<1>1. PICK n \in Nat : n = Len(rows) /\ DOMAIN rows = 1 .. n /\ (rows = <<>> <=> n = 0)
  BY SeqFacts
<1>2. \A r \in 1 .. n : Len(rows[r]) \in Nat
  <2> SUFFICES ASSUME NEW r \in 1 .. n PROVE Len(rows[r]) \in Nat
    OBVIOUS
  <2>1. rows[r] \in Seq(S)
    BY <1>1, SeqFacts
  <2> QED
    BY <2>1, SeqFacts
<1>3. PICK T : T = {Len(rows[r]) : r \in 1 .. n}
  OBVIOUS
<1>4. IsFiniteSet(T)
  <2>1. PICK f : f = [r \in 1 .. n |-> Len(rows[r])]
    OBVIOUS
  <2>2. f \in Surjection(1 .. n, T)
    BY <1>3, <2>1 DEF Surjection
  <2>3. IsFiniteSet(1 .. n)
    BY FS_Interval
  <2> QED
    BY <2>2, <2>3, FS_Surjection
<1>5. CASE \E r \in 1 .. n : Len(rows[r]) # c
  <2>1. PICK r \in 1 .. n : Len(rows[r]) # c
    BY <1>5
  <2>2. 1 \in 1 .. n /\ c = Len(rows[1]) /\ c \in T /\ Len(rows[r]) \in T
    BY <1>1, <1>3, <2>1
  <2>3. PICK d : d = Len(rows[r])
    OBVIOUS
  <2>4. {c} \in SUBSET T /\ {c} # T
    BY <2>1, <2>2, <2>3
  <2>5. Cardinality({c}) = 1 /\ Cardinality({c}) <= Cardinality(T)
        /\ (Cardinality(T) = Cardinality({c}) => T = {c})
    BY <1>4, <2>4, FS_Subset, FS_Singleton
  <2>6. Cardinality(T) \in Nat
    BY <1>4, FS_CardinalityType
  <2>7. Cardinality(T) > 1
    BY <2>4, <2>5, <2>6
  <2> QED
    BY <1>1, <1>3, <1>5, <2>7
<1>6. CASE ~(\E r \in 1 .. n : Len(rows[r]) # c)
  <2>1. T = {} \/ T = {c}
    BY <1>3, <1>6
  <2>2. ~(Cardinality(T) > 1)
    <3>1. Cardinality({}) = 0 /\ Cardinality({c}) = 1
      BY FS_EmptySet, FS_Singleton
    <3>2. Cardinality(T) = 0 \/ Cardinality(T) = 1
      BY <2>1, <3>1
    <3> QED
      BY <3>2
  <2> QED
    BY <1>1, <1>3, <1>6, <2>2
<1> QED
  BY <1>5, <1>6

(* The columns of rows, as rows.                                           *)
Columns(rows, c) == [k \in 1 .. c |-> [r \in 1 .. Len(rows) |-> rows[r][k]]]

(* Columns of rows of one length are rows again.                           *)
LEMMA ColumnsFacts ==
  ASSUME NEW S, NEW rows \in Seq(Seq(S)), NEW c \in Nat,
         \A r \in DOMAIN rows : Len(rows[r]) = c
  PROVE  /\ Columns(rows, c) \in Seq(Seq(S)) /\ Len(Columns(rows, c)) = c
         /\ \A k \in 1 .. c : /\ Len(Columns(rows, c)[k]) = Len(rows)
                              /\ \A r \in 1 .. Len(rows) : Columns(rows, c)[k][r] = rows[r][k]
<1>1. PICK n \in Nat : n = Len(rows) /\ DOMAIN rows = 1 .. n
  BY SeqFacts
<1>2. PICK f : f = Columns(rows, c)
  OBVIOUS
<1>3. f = [k \in 1 .. c |-> [r \in 1 .. n |-> rows[r][k]]]
  BY <1>1, <1>2 DEF Columns
<1>4. ASSUME NEW k \in 1 .. c
      PROVE  /\ f[k] \in Seq(S) /\ Len(f[k]) = n
             /\ \A r \in 1 .. n : f[k][r] = rows[r][k]
  <2>1. PICK g : g = f[k]
    OBVIOUS
  <2>2. g = [r \in 1 .. n |-> rows[r][k]]
    BY <1>3, <2>1
  <2>3. \A r \in 1 .. n : g[r] = rows[r][k] /\ g[r] \in S
    <3> SUFFICES ASSUME NEW r \in 1 .. n PROVE g[r] = rows[r][k] /\ rows[r][k] \in S
      BY <2>2
    <3>1. rows[r] \in Seq(S) /\ Len(rows[r]) = c
      BY <1>1, SeqFacts
    <3>2. rows[r][k] \in S
      BY <3>1, SeqFacts
    <3> QED
      BY <2>2, <3>2
  <2>4. g = [r \in 1 .. n |-> g[r]]
    BY <2>2
  <2>5. g \in Seq(S) /\ Len(g) = n
    BY <2>3, <2>4, Filled
  <2> QED
    BY <2>1, <2>3, <2>5
<1>5. f = [k \in 1 .. c |-> f[k]] /\ \A k \in 1 .. c : f[k] \in Seq(S)
  BY <1>3, <1>4
<1>6. f \in Seq(Seq(S)) /\ Len(f) = c
  BY <1>5, Filled
<1> QED
  BY <1>1, <1>2, <1>4, <1>6

(* transpose on every target, where it aborts included.                    *)
LEMMA TransposeNodes ==
  ASSUME NEW S, NEW rows \in Seq(Seq(S)), NEW c \in Nat,
         c = IF rows = <<>> THEN 0 ELSE Len(rows[1])
  PROVE  /\ (\E r \in DOMAIN rows : Len(rows[r]) # c) =>
              CTranspose(rows) = Dead /\ LlvmTranspose(rows) = Dead /\ TsTranspose(rows) = Dead
         /\ ~(\E r \in DOMAIN rows : Len(rows[r]) # c) =>
              /\ CTranspose(rows) = Ok(Columns(rows, c))
              /\ LlvmTranspose(rows) = Ok(Columns(rows, c))
              /\ TsTranspose(rows) = Ok(Columns(rows, c))
              /\ Columns(rows, c) = [k \in 1 .. c |-> [r \in DOMAIN rows |-> rows[r][k]]]
<1>1. PICK n \in Nat : n = Len(rows) /\ DOMAIN rows = 1 .. n /\ (rows = <<>> <=> n = 0)
  BY SeqFacts
<1>2. /\ c = IF n = 0 THEN 0 ELSE Len(Item(rows, 0))
      /\ n # 0 => Len(Item(rows, 0)) = c /\ Len(rows[1]) = c
  <2>1. CASE n = 0
    BY <1>1, <2>1
  <2>2. CASE n # 0
    <3>1. 1 \in 1 .. Len(rows) /\ 1 - 1 = 0
      BY <1>1, <2>2
    <3>2. Item(rows, 1 - 1) = rows[1]
      BY <3>1, SeqFacts
    <3>3. Item(rows, 0) = rows[1]
      BY <3>1, <3>2
    <3> QED
      BY <1>1, <2>2, <3>3
  <2> QED
    BY <2>1, <2>2
<1>3. ASSUME \E r \in DOMAIN rows : Len(rows[r]) # c
      PROVE  CTranspose(rows) = Dead /\ LlvmTranspose(rows) = Dead /\ TsTranspose(rows) = Dead
  <2>1. n # 0
    BY <1>1, <1>3
  <2> QED
    BY <1>1, <1>2, <1>3, <2>1 DEF CTranspose, LlvmTranspose, TsTranspose, DieIf
<1>4. ASSUME ~(\E r \in DOMAIN rows : Len(rows[r]) # c)
      PROVE  /\ CTranspose(rows) = Ok(Columns(rows, c))
             /\ LlvmTranspose(rows) = Ok(Columns(rows, c))
             /\ TsTranspose(rows) = Ok(Columns(rows, c))
             /\ Columns(rows, c) = [k \in 1 .. c |-> [r \in DOMAIN rows |-> rows[r][k]]]
  <2>1. \A k \in 1 .. c : \A r \in 1 .. n : Item(rows[r], k - 1) = rows[r][k]
    <3> SUFFICES ASSUME NEW k \in 1 .. c, NEW r \in 1 .. n
                 PROVE  Item(rows[r], k - 1) = rows[r][k]
      OBVIOUS
    <3>1. rows[r] \in Seq(S) /\ Len(rows[r]) = c
      BY <1>1, <1>4, SeqFacts
    <3> QED
      BY <3>1, SeqFacts
  <2>2. PICK f : f = Columns(rows, c)
    OBVIOUS
  <2>3. f = [k \in 1 .. c |-> [r \in 1 .. n |-> rows[r][k]]]
    BY <1>1, <2>2 DEF Columns
  <2>4. [k \in 1 .. c |-> [r \in 1 .. n |-> Item(rows[r], k - 1)]] = f
    BY <2>1, <2>3
  <2>5. CTranspose(rows) = Ok(f)
    BY <1>1, <1>2, <1>4, <2>4 DEF CTranspose
  <2>6. CASE n = 0
    <3>1. f = <<>> /\ rows = <<>>
      BY <1>1, <1>2, <2>3, <2>6
    <3> QED
      BY <1>1, <2>2, <2>3, <2>5, <2>6, <3>1 DEF LlvmTranspose, TsTranspose
  <2>7. CASE n # 0
    <3>1. LlvmTranspose(rows) = Ok(f)
      BY <1>1, <1>2, <1>4, <2>4, <2>7 DEF LlvmTranspose, DieIf
    <3>2. TsTranspose(rows) = Ok(f)
      BY <1>1, <1>2, <1>4, <2>3, <2>7 DEF TsTranspose
    <3> QED
      BY <1>1, <2>2, <2>3, <2>5, <3>1, <3>2
  <2> QED
    BY <2>6, <2>7
<1> QED
  BY <1>3, <1>4

-----------------------------------------------------------------------------
(* Sequences of bits and of Faultables.                                    *)

(* The first member of a set of positions.                                 *)
LEMMA FirstFacts ==
  ASSUME NEW T \in SUBSET Nat, T # {}
  PROVE  FirstOf(T) \in T /\ \A l \in T : FirstOf(T) <= l
<1>1. \E k \in T : \A l \in T : k <= l
  BY LeastNatural
<1> QED
  BY <1>1 DEF FirstOf

(* Folding a sequence of Bools with `and` or `or`.                         *)
LEMMA Folded ==
  ASSUME NEW n \in Nat, NEW bits \in [1 .. n -> Bits], NEW all \in BOOLEAN,
         NEW folded,
         folded = CHOOSE f : f =
           [k \in 0 .. n |->
              IF k = 0 THEN IF all THEN 1 ELSE 0
              ELSE IF all THEN (IF f[k - 1] < bits[k] THEN f[k - 1] ELSE bits[k])
                   ELSE (IF f[k - 1] > bits[k] THEN f[k - 1] ELSE bits[k])]
  PROVE  folded[n] = IF all THEN IF \E k \in 1 .. n : bits[k] = 0 THEN 0 ELSE 1
                     ELSE IF \E k \in 1 .. n : bits[k] = 1 THEN 1 ELSE 0
<1> DEFINE stop == IF all THEN 0 ELSE 1
           Hit(k) == \E j \in 1 .. k : bits[j] = stop
           g == [k \in 0 .. n |-> IF Hit(k) THEN stop ELSE 1 - stop]
<1>1. ASSUME NEW k \in 1 .. n
      PROVE  /\ k - 1 \in 0 .. n
             /\ Hit(k) <=> Hit(k - 1) \/ bits[k] = stop
             /\ bits[k] \in {0, 1}
  <2>1. 1 .. k = (1 .. k - 1) \cup {k} /\ k - 1 \in 0 .. n
    OBVIOUS
  <2> QED
    BY <2>1 DEF Bits
<1>2. ~Hit(0)
  OBVIOUS
<1>3. g = [k \in 0 .. n |->
              IF k = 0 THEN IF all THEN 1 ELSE 0
              ELSE IF all THEN (IF g[k - 1] < bits[k] THEN g[k - 1] ELSE bits[k])
                   ELSE (IF g[k - 1] > bits[k] THEN g[k - 1] ELSE bits[k])]
  <2> SUFFICES ASSUME NEW k \in 0 .. n
               PROVE  g[k] = IF k = 0 THEN IF all THEN 1 ELSE 0
                 ELSE IF all THEN (IF g[k - 1] < bits[k] THEN g[k - 1] ELSE bits[k])
                      ELSE (IF g[k - 1] > bits[k] THEN g[k - 1] ELSE bits[k])
    OBVIOUS
  <2>1. CASE k = 0
    <3>1. g[0] = 1 - stop
      BY <1>2
    <3> QED
      BY <2>1, <3>1
  <2>2. CASE k # 0
    <3>1. k \in 1 .. n
      BY <2>2
    <3>2. g[k] = (IF Hit(k) THEN stop ELSE 1 - stop)
          /\ g[k - 1] = (IF Hit(k - 1) THEN stop ELSE 1 - stop)
      <4>1. k - 1 \in 0 .. n
        BY <3>1
      <4> HIDE DEF Hit, stop
      <4> QED
        BY <4>1
    <3>3. (Hit(k) <=> Hit(k - 1) \/ bits[k] = stop) /\ bits[k] \in {0, 1}
      BY <1>1, <3>1
    <3> HIDE DEF Hit, g
    <3> QED
      BY <2>2, <3>2, <3>3
  <2> QED
    BY <2>1, <2>2
<1>4. folded = [k \in 0 .. n |->
                  IF k = 0 THEN IF all THEN 1 ELSE 0
                  ELSE IF all THEN (IF folded[k - 1] < bits[k] THEN folded[k - 1] ELSE bits[k])
                       ELSE (IF folded[k - 1] > bits[k] THEN folded[k - 1] ELSE bits[k])]
  <2> HIDE DEF g
  <2> QED
    BY <1>3
<1>5. \A k \in 0 .. n : folded[k] = g[k]
  <2> HIDE DEF g
  <2> DEFINE T == {k \in 0 .. n : folded[k] = g[k]}
  <2>1. 0 \in T
    <3>1. 0 \in 0 .. n
      OBVIOUS
    <3>2. folded[0] = (IF all THEN 1 ELSE 0)
      BY <1>4, <3>1
    <3>3. g[0] = (IF all THEN 1 ELSE 0)
      BY <1>3, <3>1
    <3> QED
      BY <3>1, <3>2, <3>3
  <2>2. ASSUME NEW k \in 1 .. n, k - 1 \in T PROVE k \in T
    <3>1. k \in 0 .. n /\ k # 0 /\ folded[k - 1] = g[k - 1]
      BY <2>2
    <3>2. folded[k] = IF all THEN (IF folded[k - 1] < bits[k] THEN folded[k - 1] ELSE bits[k])
                      ELSE (IF folded[k - 1] > bits[k] THEN folded[k - 1] ELSE bits[k])
      BY <1>4, <3>1
    <3>3. g[k] = IF all THEN (IF g[k - 1] < bits[k] THEN g[k - 1] ELSE bits[k])
                 ELSE (IF g[k - 1] > bits[k] THEN g[k - 1] ELSE bits[k])
      BY <1>3, <3>1
    <3> QED
      BY <3>1, <3>2, <3>3
  <2> HIDE DEF T
  <2>3. Climbs(T, n)
    BY <2>1, <2>2 DEF Climbs
  <2>4. 0 .. n \subseteq T
    BY <2>3, Climb
  <2> QED
    BY <2>4 DEF T
<1>6. folded[n] = IF Hit(n) THEN stop ELSE 1 - stop
  <2>1. n \in 0 .. n
    OBVIOUS
  <2> QED
    BY <1>5, <2>1
<1> QED
  BY <1>6

(* all and any on every target.                                            *)
LEMMA AllAnyNodes ==
  ASSUME NEW bits \in Seq(Bits), NEW all \in BOOLEAN
  PROVE  \E v \in Bits :
           /\ v = IF all THEN IF 0 \in Seqs!ToSet(bits) THEN 0 ELSE 1
                  ELSE IF 1 \in Seqs!ToSet(bits) THEN 1 ELSE 0
           /\ CAllAny(bits, all) = Ok(v) /\ LlvmAllAny(bits, all) = Ok(v)
           /\ TsAllAny(bits, all) = Ok(v)
<1>1. PICK n \in Nat : n = Len(bits) /\ DOMAIN bits = 1 .. n /\ bits \in [1 .. n -> Bits]
  BY LenProperties
<1>2. PICK stop : stop = IF all THEN 0 ELSE 1
  OBVIOUS
<1>3. PICK T : T = {k \in 1 .. n : bits[k] = stop}
  OBVIOUS
<1>4. PICK v \in Bits : v = IF T = {} THEN 1 - stop ELSE stop
  BY <1>2 DEF Bits
<1>5. v = IF all THEN IF \E k \in 1 .. n : bits[k] = 0 THEN 0 ELSE 1
          ELSE IF \E k \in 1 .. n : bits[k] = 1 THEN 1 ELSE 0
  BY <1>2, <1>3, <1>4
<1>6. v = IF all THEN IF 0 \in Seqs!ToSet(bits) THEN 0 ELSE 1
          ELSE IF 1 \in Seqs!ToSet(bits) THEN 1 ELSE 0
  <2>1. \A b : b \in Seqs!ToSet(bits) <=> \E k \in 1 .. n : bits[k] = b
    BY <1>1 DEF Seqs!ToSet
  <2> QED
    BY <1>5, <2>1
<1>7. CAllAny(bits, all) = Ok(v)
  <2>1. T # {} => bits[FirstOf(T)] = stop
    <3> SUFFICES ASSUME T # {} PROVE bits[FirstOf(T)] = stop
      OBVIOUS
    <3>1. T \in SUBSET Nat
      BY <1>3
    <3>2. FirstOf(T) \in T
      BY <3>1, FirstFacts
    <3> QED
      BY <1>3, <3>2
  <2>2. T = {k \in DOMAIN bits : bits[k] = IF all THEN 0 ELSE 1}
    BY <1>1, <1>2, <1>3
  <2>3. CAllAny(bits, all) = Ok(IF T = {} THEN IF all THEN 1 ELSE 0 ELSE bits[FirstOf(T)])
    BY <2>2 DEF CAllAny
  <2>4. v = IF T = {} THEN IF all THEN 1 ELSE 0 ELSE bits[FirstOf(T)]
    BY <1>2, <1>4, <2>1
  <2> QED
    BY <2>3, <2>4
<1>8. LlvmAllAny(bits, all) = Ok(v)
  <2>1. PICK folded : folded = CHOOSE f : f =
           [k \in 0 .. n |->
              IF k = 0 THEN IF all THEN 1 ELSE 0
              ELSE IF all THEN (IF f[k - 1] < bits[k] THEN f[k - 1] ELSE bits[k])
                   ELSE (IF f[k - 1] > bits[k] THEN f[k - 1] ELSE bits[k])]
    OBVIOUS
  <2>2. LlvmAllAny(bits, all) = Ok(folded[n])
    BY <1>1, <2>1 DEF LlvmAllAny
  <2>3. folded[n] = v
    BY <1>1, <1>5, <2>1, Folded
  <2> QED
    BY <2>2, <2>3
<1>9. TsAllAny(bits, all) = Ok(v)
  <2>1. (\A k \in 1 .. n : bits[k] = 1) <=> ~(\E k \in 1 .. n : bits[k] = 0)
    <3>1. \A k \in 1 .. n : bits[k] = 0 \/ bits[k] = 1
      BY <1>1 DEF Bits
    <3> QED
      BY <3>1
  <2> QED
    BY <1>1, <1>5, <2>1 DEF TsAllAny
<1> QED
  BY <1>6, <1>7, <1>8, <1>9

(* The items of a sequence of Faultables up to a position.                 *)
Values(items, k) == [j \in 1 .. k |-> items[j].value]

(* Collecting into a new list, one item after the other.                   *)
LEMMA Kept ==
  ASSUME NEW n \in Nat, NEW items, NEW S,
         \A k \in 1 .. n : items[k].ok \in BOOLEAN /\ (items[k].ok => items[k].value \in S),
         NEW kept,
         kept = CHOOSE f : f =
           [k \in 0 .. n |->
              IF k = 0 THEN Ok(<<>>)
              ELSE IF ~f[k - 1].ok THEN f[k - 1]
              ELSE IF ~items[k].ok THEN items[k]
              ELSE Ok(Append(f[k - 1].value, items[k].value))]
  PROVE  kept[n] = IF \E k \in 1 .. n : ~items[k].ok
                   THEN items[FirstOf({k \in 1 .. n : ~items[k].ok})]
                   ELSE Ok(Values(items, n))
<1> DEFINE Failing(k) == {j \in 1 .. k : ~items[j].ok}
           g == [k \in 0 .. n |-> IF Failing(k) = {} THEN Ok(Values(items, k))
                                  ELSE items[FirstOf(Failing(k))]]
<1>0. ASSUME NEW k \in 0 .. n
      PROVE  Failing(k) # {} => FirstOf(Failing(k)) \in Failing(k)
                                /\ \A l \in Failing(k) : FirstOf(Failing(k)) <= l
  <2>1. PICK T : T = Failing(k)
    OBVIOUS
  <2>2. T \in SUBSET Nat
    BY <2>1
  <2>3. T # {} => FirstOf(T) \in T /\ \A l \in T : FirstOf(T) <= l
    BY <2>2, FirstFacts
  <2> QED
    BY <2>1, <2>3
<1>1. ASSUME NEW k \in 1 .. n
      PROVE  /\ Failing(k) = Failing(k - 1) \cup (IF items[k].ok THEN {} ELSE {k})
             /\ k - 1 \in 0 .. n /\ k \in 0 .. n
  <2>1. 1 .. k = (1 .. k - 1) \cup {k} /\ k - 1 \in 0 .. n /\ k \in 0 .. n
    OBVIOUS
  <2> QED
    BY <2>1
<1>2. ASSUME NEW k \in 0 .. n, Failing(k) = {}
      PROVE  Values(items, k) \in Seq(S) /\ Len(Values(items, k)) = k
  <2>1. PICK f : f = Values(items, k)
    OBVIOUS
  <2>2. \A j \in 1 .. k : j \in 1 .. n
    OBVIOUS
  <2>3. f = [j \in 1 .. k |-> f[j]] /\ \A j \in 1 .. k : f[j] \in S
    BY <1>2, <2>1, <2>2 DEF Values
  <2>4. k \in Nat
    OBVIOUS
  <2> QED
    BY <2>1, <2>3, <2>4, Filled
<1>3. ASSUME NEW k \in 1 .. n, Failing(k) = {}
      PROVE  Append(Values(items, k - 1), items[k].value) = Values(items, k)
  <2>1. Failing(k - 1) = {} /\ items[k].ok /\ k - 1 \in 0 .. n /\ k \in 0 .. n
    BY <1>1, <1>3
  <2>2. PICK s \in Seq(S) : s = Values(items, k - 1) /\ Len(s) = k - 1
    BY <1>2, <2>1
  <2>3. PICK v \in S : v = items[k].value
    BY <2>1
  <2>4. PICK t : t = Append(s, v)
    OBVIOUS
  <2>5. /\ t \in Seq(S) /\ Len(t) = k /\ t[k] = v
        /\ \A j \in 1 .. k - 1 : t[j] = s[j]
    BY <2>2, <2>4, AppendProperties
  <2>6. PICK f : f = Values(items, k)
    OBVIOUS
  <2>7. f = [j \in 1 .. k |-> items[j].value]
    BY <2>6 DEF Values
  <2>8. \A j \in 1 .. k : t[j] = f[j]
    <3> SUFFICES ASSUME NEW j \in 1 .. k PROVE t[j] = f[j]
      OBVIOUS
    <3>1. CASE j = k
      BY <2>3, <2>5, <2>7, <3>1
    <3>2. CASE j # k
      <4>1. j \in 1 .. k - 1
        BY <3>2
      <4>2. s[j] = items[j].value
        BY <2>2, <4>1 DEF Values
      <4> QED
        BY <2>5, <2>7, <4>1, <4>2
    <3> QED
      BY <3>1, <3>2
  <2>9. f = [j \in 1 .. k |-> f[j]] /\ k \in Nat
    BY <2>7
  <2>10. t = f
    BY <2>5, <2>8, <2>9, Filling
  <2> QED
    BY <2>2, <2>3, <2>4, <2>6, <2>10
<1>4. g = [k \in 0 .. n |->
              IF k = 0 THEN Ok(<<>>)
              ELSE IF ~g[k - 1].ok THEN g[k - 1]
              ELSE IF ~items[k].ok THEN items[k]
              ELSE Ok(Append(g[k - 1].value, items[k].value))]
  <2> SUFFICES ASSUME NEW k \in 0 .. n
               PROVE  g[k] = IF k = 0 THEN Ok(<<>>)
                             ELSE IF ~g[k - 1].ok THEN g[k - 1]
                             ELSE IF ~items[k].ok THEN items[k]
                             ELSE Ok(Append(g[k - 1].value, items[k].value))
    OBVIOUS
  <2>1. CASE k = 0
    <3>1. Failing(0) = {} /\ Values(items, 0) = <<>>
      BY DEF Values
    <3> QED
      BY <2>1, <3>1
  <2>2. CASE k # 0
    <3>1. k \in 1 .. n /\ k - 1 \in 0 .. n
      BY <2>2
    <3>2. Failing(k) = Failing(k - 1) \cup (IF items[k].ok THEN {} ELSE {k})
      BY <1>1, <3>1
    <3>3. g[k] = (IF Failing(k) = {} THEN Ok(Values(items, k)) ELSE items[FirstOf(Failing(k))])
          /\ g[k - 1] = (IF Failing(k - 1) = {} THEN Ok(Values(items, k - 1))
                         ELSE items[FirstOf(Failing(k - 1))])
      <4> HIDE DEF Failing
      <4> QED
        BY <3>1
    <3>4. CASE Failing(k - 1) # {}
      <4>1. FirstOf(Failing(k - 1)) \in Failing(k - 1)
        BY <1>0, <3>1, <3>4
      <4>2. ~g[k - 1].ok
        BY <3>3, <3>4, <4>1
      <4>3. FirstOf(Failing(k)) = FirstOf(Failing(k - 1))
        <5>1. PICK a \in Nat : a = FirstOf(Failing(k - 1)) /\ a \in Failing(k - 1)
                               /\ \A l \in Failing(k - 1) : a <= l
          BY <1>0, <3>1, <3>4, <4>1
        <5>2. PICK b \in Nat : b = FirstOf(Failing(k)) /\ b \in Failing(k)
                               /\ \A l \in Failing(k) : b <= l
          <6>1. Failing(k) # {}
            BY <3>2, <3>4
          <6>2. FirstOf(Failing(k)) \in Failing(k)
                /\ \A l \in Failing(k) : FirstOf(Failing(k)) <= l
            BY <1>0, <3>1, <6>1
          <6>3. FirstOf(Failing(k)) \in Nat
            BY <3>1, <6>2
          <6> HIDE DEF Failing
          <6> QED
            BY <6>2, <6>3
        <5>3. a < k /\ b <= a
          BY <3>1, <3>2, <5>1, <5>2
        <5>4. b \in Failing(k - 1)
          BY <3>1, <5>2, <5>3
        <5>5. a <= b
          BY <5>1, <5>4
        <5> QED
          BY <5>1, <5>2, <5>3, <5>5
      <4>4. Failing(k) # {}
        BY <3>2, <3>4
      <4> HIDE DEF Failing, g
      <4> QED
        BY <2>2, <3>3, <3>4, <4>2, <4>3, <4>4
    <3>5. CASE Failing(k - 1) = {} /\ ~items[k].ok
      <4>1. Failing(k) = {k}
        BY <3>2, <3>5
      <4>2. FirstOf(Failing(k)) = k
        BY <1>0, <4>1
      <4>3. g[k - 1].ok
        BY <3>3, <3>5, ResultFacts
      <4> HIDE DEF Failing, g
      <4> QED
        BY <2>2, <3>3, <3>5, <4>1, <4>2, <4>3
    <3>6. CASE Failing(k - 1) = {} /\ items[k].ok
      <4>1. Failing(k) = {}
        BY <3>2, <3>6
      <4>2. g[k - 1].ok /\ g[k - 1].value = Values(items, k - 1)
        BY <3>3, <3>6, ResultFacts
      <4>3. Append(Values(items, k - 1), items[k].value) = Values(items, k)
        BY <1>3, <3>1, <4>1
      <4> HIDE DEF Failing, g
      <4> QED
        BY <2>2, <3>3, <3>6, <4>1, <4>2, <4>3
    <3> QED
      BY <3>4, <3>5, <3>6
  <2> QED
    BY <2>1, <2>2
<1>5. kept = [k \in 0 .. n |->
                IF k = 0 THEN Ok(<<>>)
                ELSE IF ~kept[k - 1].ok THEN kept[k - 1]
                ELSE IF ~items[k].ok THEN items[k]
                ELSE Ok(Append(kept[k - 1].value, items[k].value))]
  <2> HIDE DEF g
  <2> QED
    BY <1>4
<1>6. \A k \in 0 .. n : kept[k] = g[k]
  <2> HIDE DEF g
  <2> DEFINE T == {k \in 0 .. n : kept[k] = g[k]}
  <2>1. 0 \in T
    <3>1. 0 \in 0 .. n
      OBVIOUS
    <3> QED
      BY <1>4, <1>5, <3>1
  <2>2. ASSUME NEW k \in 1 .. n, k - 1 \in T PROVE k \in T
    <3>1. k \in 0 .. n /\ k # 0 /\ kept[k - 1] = g[k - 1]
      BY <2>2
    <3>2. kept[k] = IF ~kept[k - 1].ok THEN kept[k - 1]
                    ELSE IF ~items[k].ok THEN items[k]
                    ELSE Ok(Append(kept[k - 1].value, items[k].value))
      BY <1>5, <3>1
    <3>3. g[k] = IF ~g[k - 1].ok THEN g[k - 1]
                 ELSE IF ~items[k].ok THEN items[k]
                 ELSE Ok(Append(g[k - 1].value, items[k].value))
      BY <1>4, <3>1
    <3> QED
      BY <3>1, <3>2, <3>3
  <2> HIDE DEF T
  <2>3. Climbs(T, n)
    BY <2>1, <2>2 DEF Climbs
  <2>4. 0 .. n \subseteq T
    BY <2>3, Climb
  <2> QED
    BY <2>4 DEF T
<1>7. g[n] = IF Failing(n) = {} THEN Ok(Values(items, n)) ELSE items[FirstOf(Failing(n))]
  <2>1. n \in 0 .. n
    OBVIOUS
  <2> HIDE DEF Failing
  <2> QED
    BY <2>1
<1>8. kept[n] = g[n]
  <2>1. n \in 0 .. n
    OBVIOUS
  <2> HIDE DEF g
  <2> QED
    BY <1>6, <2>1
<1> HIDE DEF g
<1> QED
  BY <1>7, <1>8

(* A Faultable is a value or a fault.                                      *)
LEMMA FaultablesFacts ==
  ASSUME NEW r \in Faultables
  PROVE  /\ r.ok \in BOOLEAN /\ (r.ok => r.value \in Bits)
         /\ ~r.ok => \E f \in Messages : r = Fault(f)
<1>1. "first" \in Messages /\ "second" \in Messages
  BY DEF Messages
<1> QED
  BY <1>1, ResultFacts DEF Faultables

(* collect on every target.                                                *)
LEMMA CollectNodes ==
  ASSUME NEW items \in Seq(Faultables)
  PROVE  /\ (\E k \in DOMAIN items : ~items[k].ok) =>
              \E f \in Messages : /\ CCollect(items) = Fault(f) /\ LlvmCollect(items) = Fault(f)
                                  /\ TsCollect(items) = Fault(f)
         /\ ~(\E k \in DOMAIN items : ~items[k].ok) =>
              \E ys \in Seq(Bits) :
                /\ ys = [k \in DOMAIN items |-> items[k].value] /\ Len(ys) = Len(items)
                /\ CCollect(items) = Ok(ys) /\ LlvmCollect(items) = Ok(ys)
                /\ TsCollect(items) = Ok(ys)
<1>1. PICK n \in Nat : n = Len(items) /\ DOMAIN items = 1 .. n
  BY SeqFacts
<1>2. \A k \in 1 .. n : /\ items[k].ok \in BOOLEAN /\ (items[k].ok => items[k].value \in Bits)
                        /\ ~items[k].ok => \E f \in Messages : items[k] = Fault(f)
                        /\ Item(items, k - 1) = items[k]
  <2> SUFFICES ASSUME NEW k \in 1 .. n
               PROVE  /\ items[k].ok \in BOOLEAN /\ (items[k].ok => items[k].value \in Bits)
                      /\ ~items[k].ok => \E f \in Messages : items[k] = Fault(f)
                      /\ Item(items, k - 1) = items[k]
    OBVIOUS
  <2>1. items[k] \in Faultables /\ Item(items, k - 1) = items[k]
    BY <1>1, SeqFacts
  <2> QED
    BY <2>1, FaultablesFacts
<1>3. PICK T : T = {k \in 1 .. n : ~items[k].ok}
  OBVIOUS
<1>4. Faulted(items) = T /\ T \in SUBSET Nat
  BY <1>1, <1>3 DEF Faulted
<1>5. TsCollect(items) = IF T # {} THEN items[FirstOf(T)] ELSE Ok(Values(items, n))
  <2>1. PICK kept : kept = CHOOSE f : f =
           [k \in 0 .. n |->
              IF k = 0 THEN Ok(<<>>)
              ELSE IF ~f[k - 1].ok THEN f[k - 1]
              ELSE IF ~items[k].ok THEN items[k]
              ELSE Ok(Append(f[k - 1].value, items[k].value))]
    OBVIOUS
  <2>2. TsCollect(items) = kept[n]
    BY <1>1, <2>1 DEF TsCollect
  <2>3. \A k \in 1 .. n : items[k].ok \in BOOLEAN /\ (items[k].ok => items[k].value \in Bits)
    BY <1>2
  <2>4. kept[n] = IF \E k \in 1 .. n : ~items[k].ok
                  THEN items[FirstOf({k \in 1 .. n : ~items[k].ok})]
                  ELSE Ok(Values(items, n))
    BY <2>1, <2>3, Kept
  <2> QED
    BY <1>3, <2>2, <2>4
<1>6. [k \in 1 .. n |-> Item(items, k - 1).value] = Values(items, n)
  BY <1>2 DEF Values
<1>7. /\ CCollect(items) = IF T # {} THEN items[FirstOf(T)] ELSE Ok(Values(items, n))
      /\ LlvmCollect(items) = IF T # {} THEN items[FirstOf(T)] ELSE Ok(Values(items, n))
  BY <1>1, <1>4, <1>6 DEF CCollect, LlvmCollect
<1>8. CASE T # {}
  <2>1. FirstOf(T) \in T
    BY <1>4, <1>8, FirstFacts
  <2>2. PICK f \in Messages : items[FirstOf(T)] = Fault(f)
    BY <1>2, <1>3, <2>1
  <2> QED
    BY <1>1, <1>3, <1>5, <1>7, <1>8, <2>2
<1>9. CASE T = {}
  <2>1. PICK ys : ys = Values(items, n)
    OBVIOUS
  <2>2. ys = [k \in 1 .. n |-> ys[k]] /\ \A k \in 1 .. n : ys[k] \in Bits
    BY <1>2, <1>3, <1>9, <2>1 DEF Values
  <2>3. ys \in Seq(Bits) /\ Len(ys) = n
    BY <2>2, Filled
  <2>4. ys = [k \in DOMAIN items |-> items[k].value]
    BY <1>1, <2>1 DEF Values
  <2> QED
    BY <1>1, <1>3, <1>5, <1>7, <1>9, <2>1, <2>3, <2>4
<1> QED
  BY <1>8, <1>9

-----------------------------------------------------------------------------
(* Ranges.                                                                 *)

(* The steps of a stride that stay short of a distance.                    *)
Strides(d, t) == IF d <= 0 THEN 0 ELSE (d + t - 1) \div t

(* They are the least number that reaches the distance.                    *)
LEMMA StridesFacts ==
  ASSUME NEW d \in Int, NEW t \in Nat \ {0}
  PROVE  /\ Strides(d, t) \in Nat
         /\ \A k \in Nat : k * t < d <=> k < Strides(d, t)
         /\ (d > 0 => Strides(d, t) <= d)
<1>1. CASE d <= 0
  <2>1. Strides(d, t) = 0
    BY <1>1 DEF Strides
  <2>2. \A k \in Nat : k * t >= 0
    OBVIOUS
  <2>3. \A k \in Nat : k * t \in Int
    OBVIOUS
  <2> QED
    BY <1>1, <2>1, <2>2, <2>3
<1>2. CASE d > 0
  <2>1. PICK a \in Nat : a = d + t - 1
    BY <1>2
  <2>2. PICK c \in Nat : c = a \div t /\ t * c <= a /\ a < t * c + t
    BY <2>1, NatDivision
  <2>3. Strides(d, t) = c
    BY <1>2, <2>1, <2>2 DEF Strides
  <2>4. ASSUME NEW k \in Nat PROVE k * t < d <=> k < c
    <3>1. PICK m \in Nat : m = t * k /\ m = k * t
      OBVIOUS
    <3>2. PICK p \in Nat : p = t * c
      OBVIOUS
    <3>3. CASE k < c
      <4>1. c - k - 1 \in Nat
        BY <3>3
      <4>2. t * (c - k - 1) >= 0
        BY <4>1
      <4>3. t * (c - k - 1) = p - m - t
        BY <3>1, <3>2
      <4> QED
        BY <2>1, <2>2, <3>1, <3>2, <3>3, <4>2, <4>3
    <3>4. CASE k >= c
      <4>1. t * (k - c) >= 0
        BY <3>4
      <4>2. t * (k - c) = m - p
        BY <3>1, <3>2
      <4> QED
        BY <2>1, <2>2, <3>1, <3>2, <3>4, <4>1, <4>2
    <3> QED
      BY <3>3, <3>4
  <2>5. d * t >= d /\ d \in Nat
    <3>1. d * (t - 1) >= 0 /\ d * (t - 1) = d * t - d
      BY <1>2
    <3>2. d * t \in Int
      OBVIOUS
    <3> QED
      BY <1>2, <3>1, <3>2
  <2>6. ~(d < c)
    <3>1. d * t \in Int
      OBVIOUS
    <3> QED
      BY <2>4, <2>5, <3>1
  <2> QED
    BY <2>2, <2>3, <2>4, <2>6
<1> QED
  BY <1>1, <1>2

(* How many steps of a range stay short of its end.                        *)
StepsTaken(start, stop, step) ==
  CHOOSE k \in 0 .. Power[Width] :
    /\ IF step > 0 THEN start + k * step >= stop ELSE start + k * step <= stop
    /\ \A j \in 0 .. k - 1 :
         ~(IF step > 0 THEN start + j * step >= stop ELSE start + j * step <= stop)

(* The sequence of a range with a step, whatever counts its items.         *)
LEMMA RangeStepNodes ==
  ASSUME NEW start \in Ints, NEW stop \in Ints, NEW step \in Ints, step # 0, NEW n,
         n = StepsTaken(start, stop, step)
  PROVE  \E ys \in Seq(Ints) :
           /\ ys = [k \in 1 .. n |-> start + (k - 1) * step] /\ n \in Nat /\ Len(ys) = n
           /\ CRangeStep(start, stop, step) = Ok(ys)
           /\ LlvmRangeStep(start, stop, step) = Ok(ys)
           /\ TsRangeStep(start, stop, step) = Ok(ys)
<1>1. start \in Int /\ stop \in Int /\ step \in Int /\ -step \in Int
  BY IntsFacts
<1>2. PICK d \in Int : d = IF step > 0 THEN stop - start ELSE start - stop
  <2>1. stop - start \in Int /\ start - stop \in Int
    BY <1>1
  <2> QED
    BY <2>1
<1>3. PICK t \in Nat \ {0} : t = IF step > 0 THEN step ELSE -step
  <2>1. CASE step > 0
    BY <1>1, <2>1
  <2>2. CASE ~(step > 0)
    <3>1. -step \in Nat \ {0}
      BY <1>1, <2>2
    <3> QED
      BY <2>2, <3>1
  <2> QED
    BY <2>1, <2>2
<1>4. PICK c \in Nat : c = Strides(d, t) /\ (\A k \in Nat : k * t < d <=> k < c)
                       /\ (d > 0 => c <= d)
  BY StridesFacts
<1>5. ASSUME NEW k \in Nat
      PROVE  /\ (IF step > 0 THEN start + k * step >= stop ELSE start + k * step <= stop) <=> ~(k < c)
             /\ (IF step > 0 THEN start + k * step < stop ELSE start + k * step > stop) <=> k < c
             /\ start + k * step \in Int
  <2>1. PICK m \in Int : m = k * step
    BY <1>1
  <2>2. step > 0 => k * t = m
    BY <1>3, <2>1
  <2>3. ~(step > 0) => k * t = -m
    BY <1>1, <1>3, <2>1
  <2>4. k * t < d <=> k < c
    BY <1>4
  <2> QED
    BY <1>1, <1>2, <2>1, <2>2, <2>3, <2>4
<1>6. c <= Power[Width] /\ Power[Width] \in Nat
  BY <1>1, <1>2, <1>4, IntsFacts DEF Strides
<1>7. n = c
  <2>1. PICK U : U = {k \in 0 .. Power[Width] :
               /\ IF step > 0 THEN start + k * step >= stop ELSE start + k * step <= stop
               /\ \A j \in 0 .. k - 1 :
                    ~(IF step > 0 THEN start + j * step >= stop ELSE start + j * step <= stop)}
    OBVIOUS
  <2>2. c \in U
    <3>1. c \in 0 .. Power[Width]
      BY <1>6
    <3>2. IF step > 0 THEN start + c * step >= stop ELSE start + c * step <= stop
      BY <1>5
    <3>3. \A j \in 0 .. c - 1 :
                    ~(IF step > 0 THEN start + j * step >= stop ELSE start + j * step <= stop)
      BY <1>5
    <3> QED
      BY <2>1, <3>1, <3>2, <3>3
  <2>3. ASSUME NEW k \in U PROVE k = c
    <3>1. k \in Nat /\ k \in 0 .. Power[Width]
      BY <1>6, <2>1
    <3>2. ~(k < c)
      BY <1>5, <2>1, <3>1
    <3>3. ASSUME c < k PROVE FALSE
      <4>1. c \in 0 .. k - 1
        BY <3>1, <3>3
      <4>2. ~(IF step > 0 THEN start + c * step >= stop ELSE start + c * step <= stop)
        BY <2>1, <4>1
      <4> QED
        BY <1>5, <4>2
    <3> QED
      BY <3>1, <3>2, <3>3
  <2>4. n = CHOOSE k \in 0 .. Power[Width] : k \in U
    BY <2>1 DEF StepsTaken
  <2>5. U \subseteq 0 .. Power[Width]
    BY <2>1
  <2> QED
    BY <2>2, <2>3, <2>4, <2>5
<1>8. PICK ys : ys = [k \in 1 .. c |-> start + (k - 1) * step]
  OBVIOUS
<1>9. \A k \in 1 .. c : ys[k] \in Ints
  <2> SUFFICES ASSUME NEW k \in 1 .. c PROVE ys[k] \in Ints
    OBVIOUS
  <2>1. k - 1 \in Nat /\ k - 1 < c
    OBVIOUS
  <2>2. PICK j \in Nat : j = k - 1
    BY <2>1
  <2>3. PICK m \in Int : m = start + j * step
    BY <1>1
  <2>4. IF step > 0 THEN m < stop ELSE m > stop
    BY <1>5, <2>1, <2>2, <2>3
  <2>5. IF step > 0 THEN j * step >= 0 ELSE j * step <= 0
    BY <1>1
  <2>6. j * step \in Int
    BY <1>1
  <2>7. IntMin <= m /\ m <= IntMax
    BY <1>1, <2>3, <2>4, <2>5, <2>6, IntsFacts
  <2> QED
    BY <1>8, <2>2, <2>3, <2>7, IntsFacts
<1>10. ys \in Seq(Ints) /\ Len(ys) = c
  <2>1. ys = [k \in 1 .. c |-> ys[k]]
    BY <1>8
  <2> QED
    BY <1>9, <2>1, Filled
<1>11. CRangeStep(start, stop, step) = Ok(ys)
  <2>1. CASE d <= 0
    <3>1. c = 0
      BY <1>4, <2>1 DEF Strides
    <3>2. ys = <<>>
      BY <1>8, <3>1
    <3> QED
      BY <1>2, <2>1, <3>2 DEF CRangeStep
  <2>2. CASE ~(d <= 0)
    <3>1. c = (d + t - 1) \div t
      BY <1>4, <2>2 DEF Strides
    <3> QED
      BY <1>2, <1>3, <1>8, <2>2, <3>1 DEF CRangeStep
  <2> QED
    BY <2>1, <2>2
<1>12. TsRangeStep(start, stop, step) = Ok(ys)
  <2>1. PICK g \in Int : g = 2 * (IF stop - start > start - stop THEN stop - start ELSE start - stop)
    BY <1>1
  <2>2. PICK U : U = {k \in 0 .. g : IF step > 0 THEN start + k * step < stop
                                     ELSE start + k * step > stop}
    OBVIOUS
  <2>3. g >= 0 /\ (d > 0 => d <= g)
    BY <1>1, <1>2, <2>1
  <2>4. U = 0 .. c - 1
    <3>1. \A k \in U : k \in 0 .. c - 1
      BY <1>5, <2>1, <2>2
    <3>2. ASSUME NEW k \in 0 .. c - 1 PROVE k \in U
      <4>1. c > 0 /\ d > 0
        BY <1>4, <3>2 DEF Strides
      <4>2. k \in 0 .. g
        BY <1>4, <2>1, <2>3, <4>1
      <4> QED
        BY <1>5, <2>2, <4>2
    <3> QED
      BY <3>1, <3>2
  <2>5. Cardinality(U) = c
    <3>1. PICK b \in Int : b = c - 1
      OBVIOUS
    <3>2. Cardinality(0 .. b) = IF 0 > b THEN 0 ELSE b - 0 + 1
      BY FS_Interval
    <3> QED
      BY <2>4, <3>1, <3>2
  <2>6. TsRangeStep(start, stop, step) = Ok([k \in 1 .. Cardinality(U) |-> start + (k - 1) * step])
    BY <2>1, <2>2 DEF TsRangeStep
  <2> QED
    BY <1>8, <2>5, <2>6
<1> QED
  BY <1>7, <1>8, <1>10, <1>11, <1>12 DEF LlvmRangeStep

-----------------------------------------------------------------------------
(* Flattening: every slot of the result belongs to one row.                *)

(* The slots filled before each row, as a function of the row.             *)
Offsets(rows, G) ==
  /\ G \in [0 .. Len(rows) -> Nat] /\ G[0] = 0
  /\ \A k \in 1 .. Len(rows) : G[k] = G[k - 1] + Len(rows[k])
  /\ \A r \in 0 .. Len(rows) : RowOffset(rows, r) = G[r]

(* Rows are sequences, and have lengths.                                   *)
LEMMA RowLengths ==
  ASSUME NEW S, NEW rows \in Seq(Seq(S))
  PROVE  /\ Len(rows) \in Nat /\ DOMAIN rows = 1 .. Len(rows)
         /\ \A k \in 1 .. Len(rows) : rows[k] \in Seq(S) /\ Len(rows[k]) \in Nat
<1>1. Len(rows) \in Nat /\ DOMAIN rows = 1 .. Len(rows)
  BY SeqFacts
<1>2. ASSUME NEW k \in 1 .. Len(rows) PROVE rows[k] \in Seq(S) /\ Len(rows[k]) \in Nat
  <2>1. rows[k] \in Seq(S)
    BY SeqFacts
  <2> QED
    BY <2>1, SeqFacts
<1> QED
  BY <1>1, <1>2

(* There are such offsets.                                                 *)
LEMMA OffsetsExist ==
  ASSUME NEW S, NEW rows \in Seq(Seq(S))
  PROVE  \E G : Offsets(rows, G)
<1>1. PICK n \in Nat : n = Len(rows) /\ \A k \in 1 .. n : Len(rows[k]) \in Nat
  BY RowLengths
<1>2. PICK step : step = [k \in 1 .. n |-> [x \in Nat |-> x + Len(rows[k])]]
  OBVIOUS
<1>3. step \in [1 .. n -> [Nat -> Nat]]
  BY <1>1, <1>2
<1>4. PICK G : Solution(n, Nat, 0, step, G)
  BY <1>3, Recursion
<1>5. /\ G \in [0 .. n -> Nat] /\ G[0] = 0
      /\ \A k \in 1 .. n : G[k] = step[k][G[k - 1]]
  BY <1>4 DEF Solution
<1>6. ASSUME NEW k \in 1 .. n
      PROVE  k - 1 \in 0 .. n /\ k \in 0 .. n /\ G[k] = G[k - 1] + Len(rows[k])
  <2>1. k - 1 \in 0 .. n /\ k \in 0 .. n
    OBVIOUS
  <2>2. G[k - 1] \in Nat
    BY <1>5, <2>1
  <2> QED
    BY <1>2, <1>5, <2>1, <2>2
<1>7. ASSUME NEW r \in 0 .. n PROVE RowOffset(rows, r) = G[r]
  <2>1. PICK before : before = CHOOSE f : f =
          [k \in 0 .. r |-> IF k = 0 THEN 0 ELSE f[k - 1] + Len(rows[k])]
    OBVIOUS
  <2>2. RowOffset(rows, r) = before[r]
    BY <2>1 DEF RowOffset
  <2>3. PICK g : g = [k \in 0 .. r |-> G[k]]
    OBVIOUS
  <2>4. g = [k \in 0 .. r |-> IF k = 0 THEN 0 ELSE g[k - 1] + Len(rows[k])]
    <3> SUFFICES ASSUME NEW k \in 0 .. r
                 PROVE  G[k] = IF k = 0 THEN 0 ELSE g[k - 1] + Len(rows[k])
      BY <2>3
    <3>1. CASE k = 0
      BY <1>5, <3>1
    <3>2. CASE k # 0
      <4>1. k \in 1 .. n /\ k - 1 \in 0 .. r
        BY <3>2
      <4>2. g[k - 1] = G[k - 1]
        BY <2>3, <4>1
      <4> QED
        BY <1>6, <3>2, <4>1, <4>2
    <3> QED
      BY <3>1, <3>2
  <2>5. before = [k \in 0 .. r |-> IF k = 0 THEN 0 ELSE before[k - 1] + Len(rows[k])]
    BY <2>1, <2>4
  <2> DEFINE T == {k \in 0 .. r : before[k] = G[k]}
  <2>6. 0 \in T
    <3>1. 0 \in 0 .. r
      OBVIOUS
    <3> QED
      BY <1>5, <2>5, <3>1
  <2>7. ASSUME NEW k \in 1 .. r, k - 1 \in T PROVE k \in T
    <3>1. k \in 0 .. r /\ k # 0 /\ before[k - 1] = G[k - 1] /\ k \in 1 .. n
      BY <2>7
    <3> QED
      BY <1>6, <2>5, <3>1
  <2> HIDE DEF T
  <2>8. Climbs(T, r)
    BY <2>6, <2>7 DEF Climbs
  <2>9. 0 .. r \subseteq T
    BY <2>8, Climb
  <2>10. r \in 0 .. r
    OBVIOUS
  <2>11. r \in T
    BY <2>9, <2>10
  <2> QED
    BY <2>2, <2>11 DEF T
<1>8. \A k \in 1 .. n : G[k] = G[k - 1] + Len(rows[k])
  BY <1>6
<1>9. \A r \in 0 .. n : RowOffset(rows, r) = G[r]
  BY <1>7
<1> QED
  BY <1>1, <1>5, <1>8, <1>9 DEF Offsets

(* Every slot is in exactly one row.                                       *)
LEMMA OffsetsOrder ==
  ASSUME NEW S, NEW rows \in Seq(Seq(S)), NEW G, Offsets(rows, G)
  PROVE  /\ \A a, b \in 0 .. Len(rows) : a <= b => G[a] <= G[b]
         /\ \A k \in 1 .. G[Len(rows)] :
              \E r \in 1 .. Len(rows) : G[r - 1] < k /\ k <= G[r]
<1>1. PICK n \in Nat : n = Len(rows) /\ \A k \in 1 .. n : Len(rows[k]) \in Nat
  BY RowLengths
<1>2. /\ G \in [0 .. n -> Nat] /\ G[0] = 0
      /\ \A k \in 1 .. n : G[k] = G[k - 1] + Len(rows[k])
  BY <1>1 DEF Offsets
<1>3. ASSUME NEW k \in 1 .. n
      PROVE  k - 1 \in 0 .. n /\ k \in 0 .. n /\ G[k - 1] \in Nat /\ G[k] \in Nat
             /\ G[k - 1] <= G[k]
  <2>1. k - 1 \in 0 .. n /\ k \in 0 .. n
    OBVIOUS
  <2>2. G[k - 1] \in Nat /\ G[k] \in Nat /\ Len(rows[k]) \in Nat
    BY <1>1, <1>2, <2>1
  <2> QED
    BY <1>2, <2>1, <2>2
<1> DEFINE T == {b \in 0 .. n : \A a \in 0 .. b : G[a] <= G[b]}
           U == {b \in 0 .. n : \A k \in 1 .. G[b] :
                                  \E r \in 1 .. b : G[r - 1] < k /\ k <= G[r]}
<1>4. 0 \in T /\ 0 \in U
  <2>1. \A a \in 0 .. 0 : G[a] <= G[0]
    BY <1>2
  <2>2. \A k \in 1 .. G[0] : FALSE
    BY <1>2
  <2> QED
    BY <2>1, <2>2
<1>5. ASSUME NEW b \in 1 .. n, b - 1 \in T PROVE b \in T
  <2>1. ASSUME NEW a \in 0 .. b PROVE G[a] <= G[b]
    <3>1. G[b] \in Nat /\ G[b - 1] \in Nat /\ G[b - 1] <= G[b]
      BY <1>3
    <3>2. CASE a = b
      BY <3>1, <3>2
    <3>3. CASE a # b
      <4>1. a \in 0 .. b - 1 /\ a \in 0 .. n
        BY <3>3
      <4>2. G[a] <= G[b - 1] /\ G[a] \in Nat
        BY <1>2, <1>5, <4>1
      <4> QED
        BY <3>1, <4>2
    <3> QED
      BY <3>2, <3>3
  <2> QED
    BY <2>1, <1>3
<1>6. ASSUME NEW b \in 1 .. n, b - 1 \in U PROVE b \in U
  <2>1. ASSUME NEW k \in 1 .. G[b] PROVE \E r \in 1 .. b : G[r - 1] < k /\ k <= G[r]
    <3>1. G[b] \in Nat /\ G[b - 1] \in Nat /\ G[b - 1] <= G[b]
      BY <1>3
    <3>2. CASE k <= G[b - 1]
      <4>1. k \in 1 .. G[b - 1]
        BY <3>1, <3>2
      <4>2. PICK r \in 1 .. b - 1 : G[r - 1] < k /\ k <= G[r]
        BY <1>6, <4>1
      <4>3. r \in 1 .. b
        OBVIOUS
      <4> QED
        BY <4>2, <4>3
    <3>3. CASE ~(k <= G[b - 1])
      <4>1. b \in 1 .. b /\ G[b - 1] < k /\ k <= G[b]
        BY <3>1, <3>3
      <4> QED
        BY <4>1
    <3> QED
      BY <3>2, <3>3
  <2> QED
    BY <2>1, <1>3
<1> HIDE DEF T, U
<1>7. Climbs(T, n) /\ Climbs(U, n)
  BY <1>4, <1>5, <1>6 DEF Climbs
<1>8. 0 .. n \subseteq T /\ 0 .. n \subseteq U
  BY <1>7, Climb
<1>9. n \in U
  <2>1. n \in 0 .. n
    OBVIOUS
  <2> QED
    BY <1>8, <2>1
<1>10. ASSUME NEW a \in 0 .. n, NEW b \in 0 .. n, a <= b PROVE G[a] <= G[b]
  <2>1. a \in 0 .. b
    BY <1>10
  <2>2. b \in T
    BY <1>8
  <2> QED
    BY <2>1, <2>2 DEF T
<1>11. \A k \in 1 .. G[n] : \E r \in 1 .. n : G[r - 1] < k /\ k <= G[r]
  BY <1>9 DEF U
<1> QED
  BY <1>1, <1>10, <1>11

(* The rows joined up to each row.                                         *)
Joins(S, rows, F) ==
  /\ F \in [0 .. Len(rows) -> Seq(S)] /\ F[0] = <<>>
  /\ \A k \in 1 .. Len(rows) : F[k] = F[k - 1] \o rows[k]

(* There are such joins, and the last is what flattening means.            *)
LEMMA JoinsExist ==
  ASSUME NEW S, NEW rows \in Seq(Seq(S))
  PROVE  \E F : Joins(S, rows, F)
<1>1. PICK n \in Nat : n = Len(rows) /\ \A k \in 1 .. n : rows[k] \in Seq(S)
  BY RowLengths
<1>2. PICK step : step = [k \in 1 .. n |-> [x \in Seq(S) |-> x \o rows[k]]]
  OBVIOUS
<1>3. step \in [1 .. n -> [Seq(S) -> Seq(S)]]
  BY <1>1, <1>2, ConcatProperties
<1>4. PICK E : E = Seq(S)
  OBVIOUS
<1>5. PICK e : e = <<>>
  OBVIOUS
<1>6. e \in E
  BY <1>4, <1>5
<1>7. PICK F : Solution(n, E, e, step, F)
  BY <1>3, <1>4, <1>6, Recursion
<1>8. F \in [0 .. n -> E] /\ F[0] = e /\ \A k \in 1 .. n : F[k] = step[k][F[k - 1]]
  BY <1>7 DEF Solution
<1>9. ASSUME NEW k \in 1 .. n PROVE F[k] = F[k - 1] \o rows[k]
  <2>1. k - 1 \in 0 .. n
    OBVIOUS
  <2>2. F[k - 1] \in Seq(S)
    BY <1>4, <1>8, <2>1
  <2> QED
    BY <1>2, <1>8, <2>2
<1> QED
  BY <1>1, <1>4, <1>5, <1>8, <1>9 DEF Joins

(* A sequence that holds the rows one after the other.                     *)
Flat(rows, G, ys) ==
  /\ Len(ys) = G[Len(rows)]
  /\ \A q \in 1 .. Len(rows) : \A i \in 1 .. Len(rows[q]) : ys[G[q - 1] + i] = rows[q][i]

(* The last of the joins holds the rows one after the other.               *)
LEMMA JoinsAreFlat ==
  ASSUME NEW S, NEW rows \in Seq(Seq(S)), NEW G, Offsets(rows, G), NEW F, Joins(S, rows, F)
  PROVE  F[Len(rows)] \in Seq(S) /\ Flat(rows, G, F[Len(rows)])
<1>1. PICK n \in Nat :
        n = Len(rows) /\ \A k \in 1 .. n : rows[k] \in Seq(S) /\ Len(rows[k]) \in Nat
  BY RowLengths
<1>2. /\ G \in [0 .. n -> Nat] /\ G[0] = 0
      /\ \A k \in 1 .. n : G[k] = G[k - 1] + Len(rows[k])
  BY <1>1 DEF Offsets
<1>3. \A a, b \in 0 .. n : a <= b => G[a] <= G[b]
  BY <1>1, OffsetsOrder
<1>4. /\ F \in [0 .. n -> Seq(S)] /\ F[0] = <<>>
      /\ \A k \in 1 .. n : F[k] = F[k - 1] \o rows[k]
  BY <1>1 DEF Joins
<1> DEFINE T == {r \in 0 .. n :
                   /\ Len(F[r]) = G[r]
                   /\ \A q \in 1 .. r : \A i \in 1 .. Len(rows[q]) :
                        F[r][G[q - 1] + i] = rows[q][i]}
<1>5. 0 \in T
  BY <1>2, <1>4
<1>6. ASSUME NEW r \in 1 .. n, r - 1 \in T PROVE r \in T
  <2>1. r \in 0 .. n /\ r - 1 \in 0 .. n /\ r - 1 \in Nat
    OBVIOUS
  <2>2. PICK s \in Seq(S) : s = F[r - 1]
    BY <1>4, <2>1
  <2>3. PICK t \in Seq(S) : t = rows[r] /\ Len(t) \in Nat
    BY <1>1
  <2>4. F[r] = s \o t
    BY <1>4, <2>2, <2>3
  <2>5. Len(s) = G[r - 1] /\ Len(s) \in Nat
    BY <1>2, <1>6, <2>1, <2>2
  <2>6. PICK u : u = s \o t
    OBVIOUS
  <2>7. Len(u) = Len(s) + Len(t)
        /\ \A k \in 1 .. Len(s) + Len(t) : u[k] = IF k <= Len(s) THEN s[k] ELSE t[k - Len(s)]
    BY <2>6, ConcatProperties
  <2>8. Len(u) = G[r]
    BY <1>2, <2>3, <2>5, <2>7
  <2>9. ASSUME NEW q \in 1 .. r, NEW i \in 1 .. Len(rows[q])
        PROVE  u[G[q - 1] + i] = rows[q][i]
    <3>1. q \in 1 .. n /\ q - 1 \in 0 .. n /\ q \in 0 .. n
      OBVIOUS
    <3>2. G[q - 1] \in Nat /\ G[q] \in Nat /\ G[q] = G[q - 1] + Len(rows[q]) /\ Len(rows[q]) \in Nat
      BY <1>1, <1>2, <3>1
    <3>3. CASE q = r
      <4>1. PICK k : k = G[r - 1] + i
        OBVIOUS
      <4>2. k \in 1 .. Len(s) + Len(t) /\ ~(k <= Len(s)) /\ k - Len(s) = i
        <5>1. PICK a \in Nat, l \in Nat : a = Len(s) /\ l = Len(t)
          BY <2>3, <2>5
        <5>2. i \in 1 .. l /\ k = a + i
          BY <2>3, <2>5, <3>3, <4>1, <5>1
        <5>3. k \in 1 .. a + l /\ ~(k <= a) /\ k - a = i
          BY <5>1, <5>2
        <5> QED
          BY <5>1, <5>3
      <4>3. u[k] = t[i]
        BY <2>7, <4>2
      <4> QED
        BY <2>3, <3>3, <4>1, <4>3
    <3>4. CASE q # r
      <4>1. q \in 1 .. r - 1 /\ q <= r - 1
        BY <3>4
      <4>2. G[q] <= G[r - 1]
        BY <1>3, <2>1, <3>1, <4>1
      <4>3. PICK k : k = G[q - 1] + i
        OBVIOUS
      <4>4. k \in 1 .. Len(s) + Len(t) /\ k <= Len(s)
        <5>1. PICK a \in Nat, l \in Nat :
                a = G[q - 1] /\ l = Len(rows[q]) /\ G[q] = a + l
          BY <3>2
        <5>2. i \in 1 .. l /\ k = a + i /\ a + l <= Len(s)
          BY <2>5, <4>2, <4>3, <5>1
        <5> QED
          BY <2>3, <2>5, <5>2, SMTT(30)
      <4>5. u[k] = s[k]
        BY <2>7, <4>4
      <4>6. s[k] = rows[q][i]
        BY <1>6, <2>2, <4>1, <4>3
      <4> QED
        BY <4>3, <4>5, <4>6
    <3> QED
      BY <3>3, <3>4
  <2> QED
    BY <2>1, <2>4, <2>6, <2>8, <2>9
<1> HIDE DEF T
<1>7. Climbs(T, n)
  BY <1>5, <1>6 DEF Climbs
<1>8. 0 .. n \subseteq T
  BY <1>7, Climb
<1>9. n \in 0 .. n
  OBVIOUS
<1>10. n \in T
  BY <1>8, <1>9
<1> QED
  BY <1>1, <1>4, <1>9, <1>10 DEF T, Flat

(* The row a slot is in, and what the slot holds.                          *)
Slot(rows, G, ys, k, r) ==
  /\ G[r - 1] < k /\ k <= G[r] /\ G[r - 1] \in Nat
  /\ k - G[r - 1] \in 1 .. Len(rows[r]) /\ ys[k] = rows[r][k - G[r - 1]]
  /\ \A q \in 1 .. Len(rows) : G[q - 1] < k /\ k <= G[q] => q = r

(* Such a sequence is determined by its slots.                             *)
LEMMA FlatSlots ==
  ASSUME NEW S, NEW rows \in Seq(Seq(S)), NEW G, Offsets(rows, G), NEW ys, Flat(rows, G, ys),
         NEW k \in 1 .. G[Len(rows)]
  PROVE  \E r \in 1 .. Len(rows) : Slot(rows, G, ys, k, r)
<1>1. PICK n \in Nat : n = Len(rows) /\ \A q \in 1 .. n : Len(rows[q]) \in Nat
  BY RowLengths
<1>2. /\ G \in [0 .. n -> Nat] /\ G[0] = 0
      /\ \A q \in 1 .. n : G[q] = G[q - 1] + Len(rows[q])
  BY <1>1 DEF Offsets
<1>3. \A a, b \in 0 .. n : a <= b => G[a] <= G[b]
  BY <1>1, OffsetsOrder
<1>4. PICK r \in 1 .. n : G[r - 1] < k /\ k <= G[r]
  BY <1>1, OffsetsOrder
<1>5. r - 1 \in 0 .. n /\ r \in 0 .. n
  OBVIOUS
<1>6. G[r - 1] \in Nat /\ G[r] \in Nat /\ G[r] = G[r - 1] + Len(rows[r]) /\ Len(rows[r]) \in Nat
      /\ k \in Nat
  <2>1. n \in 0 .. n
    OBVIOUS
  <2>2. G[n] \in Nat
    BY <1>2, <2>1
  <2>3. k \in 1 .. G[n]
    BY <1>1
  <2>4. k \in Nat
    BY <2>2, <2>3
  <2> QED
    BY <1>1, <1>2, <1>5, <2>4
<1>7. PICK i \in 1 .. Len(rows[r]) : i = k - G[r - 1]
  BY <1>4, <1>6
<1>8. k = G[r - 1] + i
  BY <1>6, <1>7
<1>9. ys[k] = rows[r][i]
  BY <1>1, <1>8 DEF Flat
<1>10. ASSUME NEW q \in 1 .. n, G[q - 1] < k /\ k <= G[q] PROVE q = r
  <2>1. q - 1 \in 0 .. n /\ q \in 0 .. n
    OBVIOUS
  <2>2. G[q - 1] \in Nat /\ G[q] \in Nat
    BY <1>2, <2>1
  <2>3. ~(q < r)
    <3>1. SUFFICES ASSUME q < r PROVE FALSE
      OBVIOUS
    <3>2. q <= r - 1
      BY <3>1
    <3>3. G[q] <= G[r - 1]
      BY <1>3, <1>5, <2>1, <3>2
    <3> QED
      BY <1>4, <1>6, <1>10, <2>2, <3>3, SMTT(30)
  <2>4. ~(r < q)
    <3>1. SUFFICES ASSUME r < q PROVE FALSE
      OBVIOUS
    <3>2. r <= q - 1
      BY <3>1
    <3>3. G[r] <= G[q - 1]
      BY <1>3, <1>5, <2>1, <3>2
    <3> QED
      BY <1>4, <1>6, <1>10, <2>2, <3>3
  <2> QED
    BY <2>3, <2>4
<1> QED
  BY <1>1, <1>4, <1>6, <1>7, <1>9, <1>10 DEF Slot

(* Copying the rows one by one into an unwritten sequence.                 *)
LEMMA CopiedRows ==
  ASSUME NEW S, NEW rows \in Seq(Seq(S)), NEW G, Offsets(rows, G),
         NEW ys \in Seq(S), Flat(rows, G, ys),
         NEW copied,
         copied = CHOOSE f : f =
           [r \in 0 .. Len(rows) |->
              IF r = 0 THEN Unset(Len(ys))
              ELSE CopyTo(f[r - 1], RowOffset(rows, r - 1), rows[r])]
  PROVE  copied[Len(rows)] = ys
<1>1. PICK n \in Nat : n = Len(rows) /\ \A q \in 1 .. n : Len(rows[q]) \in Nat
  BY RowLengths
<1>2. /\ G \in [0 .. n -> Nat] /\ G[0] = 0
      /\ \A q \in 1 .. n : G[q] = G[q - 1] + Len(rows[q])
      /\ \A q \in 0 .. n : RowOffset(rows, q) = G[q]
  BY <1>1 DEF Offsets
<1>3. \A a, b \in 0 .. n : a <= b => G[a] <= G[b]
  BY <1>1, OffsetsOrder
<1>4. PICK m \in Nat : m = Len(ys) /\ m = G[n]
  BY <1>1, SeqFacts DEF Flat
<1>5. PICK h : h = [r \in 0 .. n |-> [k \in 1 .. m |-> IF k <= G[r] THEN ys[k] ELSE Garbage]]
  OBVIOUS
<1>6. h[0] = Unset(m)
  BY <1>2, <1>5 DEF Unset
<1>7. ASSUME NEW r \in 1 .. n
      PROVE  h[r] = CopyTo(h[r - 1], RowOffset(rows, r - 1), rows[r])
  <2>1. r - 1 \in 0 .. n /\ r \in 0 .. n /\ n \in 0 .. n
    OBVIOUS
  <2>2. PICK a \in Nat, l \in Nat : a = G[r - 1] /\ l = Len(rows[r]) /\ G[r] = a + l
    BY <1>1, <1>2, <2>1
  <2>3. a + l <= m
    BY <1>3, <1>4, <2>1, <2>2
  <2>4. PICK d : d = h[r - 1]
    OBVIOUS
  <2>5. d = [k \in 1 .. m |-> IF k <= a THEN ys[k] ELSE Garbage]
    BY <1>5, <2>1, <2>2, <2>4
  <2>6. DOMAIN d = 1 .. m
    BY <2>5
  <2>7. PICK e : e = CopyTo(d, a, rows[r])
    OBVIOUS
  <2>8. e = [k \in 1 .. m |-> IF k > a /\ k <= a + l THEN rows[r][k - a] ELSE d[k]]
    BY <2>2, <2>6, <2>7 DEF CopyTo
  <2>9. ASSUME NEW k \in 1 .. m PROVE e[k] = IF k <= a + l THEN ys[k] ELSE Garbage
    <3>1. CASE k <= a
      BY <2>5, <2>8, <3>1
    <3>2. CASE k > a /\ k <= a + l
      <4>1. PICK i \in 1 .. l : i = k - a /\ a + i = k
        BY <3>2
      <4>2. ys[a + i] = rows[r][i]
        BY <1>1, <2>2, <4>1 DEF Flat
      <4>3. e[k] = rows[r][k - a]
        BY <2>8, <3>2
      <4> QED
        BY <3>2, <4>1, <4>2, <4>3
    <3>3. CASE k > a + l
      <4>1. ~(k <= a + l) /\ ~(k <= a)
        BY <3>3
      <4> QED
        BY <2>5, <2>8, <4>1
    <3> QED
      BY <3>1, <3>2, <3>3
  <2>10. e = [k \in 1 .. m |-> IF k <= a + l THEN ys[k] ELSE Garbage]
    BY <2>8, <2>9
  <2>11. h[r] = [k \in 1 .. m |-> IF k <= a + l THEN ys[k] ELSE Garbage]
    BY <1>5, <2>1, <2>2
  <2> QED
    BY <1>2, <2>1, <2>2, <2>4, <2>7, <2>10, <2>11
<1>8. h = [r \in 0 .. n |->
             IF r = 0 THEN Unset(m)
             ELSE CopyTo(h[r - 1], RowOffset(rows, r - 1), rows[r])]
  <2>1. h = [r \in 0 .. n |-> h[r]]
    BY <1>5
  <2>2. ASSUME NEW r \in 0 .. n
        PROVE  h[r] = IF r = 0 THEN Unset(m)
                      ELSE CopyTo(h[r - 1], RowOffset(rows, r - 1), rows[r])
    <3>1. CASE r = 0
      BY <1>6, <3>1
    <3>2. CASE r # 0
      <4>1. r \in 1 .. n
        BY <3>2
      <4> QED
        BY <1>7, <3>2, <4>1
    <3> QED
      BY <3>1, <3>2
  <2> QED
    BY <2>1, <2>2
<1>9. copied = [r \in 0 .. n |->
                  IF r = 0 THEN Unset(m)
                  ELSE CopyTo(copied[r - 1], RowOffset(rows, r - 1), rows[r])]
  BY <1>1, <1>4, <1>8
<1> DEFINE T == {r \in 0 .. n : copied[r] = h[r]}
<1>10. 0 \in T
  <2>1. 0 \in 0 .. n
    OBVIOUS
  <2> QED
    BY <1>6, <1>9, <2>1
<1>11. ASSUME NEW r \in 1 .. n, r - 1 \in T PROVE r \in T
  <2>1. r \in 0 .. n /\ r # 0 /\ copied[r - 1] = h[r - 1]
    BY <1>11
  <2>2. copied[r] = CopyTo(copied[r - 1], RowOffset(rows, r - 1), rows[r])
    BY <1>9, <2>1
  <2> QED
    BY <1>7, <2>1, <2>2
<1> HIDE DEF T
<1>12. Climbs(T, n)
  BY <1>10, <1>11 DEF Climbs
<1>13. 0 .. n \subseteq T
  BY <1>12, Climb
<1>14. n \in 0 .. n
  OBVIOUS
<1>15. copied[n] = h[n]
  BY <1>13, <1>14 DEF T
<1>16. h[n] = [k \in 1 .. m |-> ys[k]]
  <2>1. h[n] = [k \in 1 .. m |-> IF k <= m THEN ys[k] ELSE Garbage]
    BY <1>4, <1>5, <1>14
  <2> QED
    BY <2>1
<1>17. ys = [k \in 1 .. m |-> ys[k]]
  BY <1>4, SeqFacts
<1> QED
  BY <1>1, <1>15, <1>16, <1>17

(* Joining the rows one after the other, from an empty sequence or from    *)
(* the first row.                                                          *)
LEMMA JoinedRows ==
  ASSUME NEW S, NEW rows \in Seq(Seq(S)), NEW F, Joins(S, rows, F)
  PROVE  /\ TsFlatten(rows) = Ok(F[Len(rows)])
         /\ Seqs!FlattenSeq(rows) = F[Len(rows)]
<1>1. PICK n \in Nat : n = Len(rows) /\ (rows = <<>> <=> n = 0)
                       /\ \A k \in 1 .. n : rows[k] \in Seq(S)
  BY RowLengths, SeqFacts
<1>2. /\ F \in [0 .. n -> Seq(S)] /\ F[0] = <<>>
      /\ \A k \in 1 .. n : F[k] = F[k - 1] \o rows[k]
  BY <1>1 DEF Joins
<1>3. n \in 0 .. n
  OBVIOUS
<1>4. TsFlatten(rows) = Ok(F[n])
  <2>1. PICK flat : flat = CHOOSE f : f =
          [r \in 0 .. n |-> IF r = 0 THEN <<>> ELSE f[r - 1] \o rows[r]]
    OBVIOUS
  <2>2. TsFlatten(rows) = Ok(flat[n])
    BY <1>1, <2>1 DEF TsFlatten
  <2>3. F = [r \in 0 .. n |-> IF r = 0 THEN <<>> ELSE F[r - 1] \o rows[r]]
    <3>1. F = [r \in 0 .. n |-> F[r]]
      BY <1>2
    <3>2. ASSUME NEW r \in 0 .. n PROVE F[r] = IF r = 0 THEN <<>> ELSE F[r - 1] \o rows[r]
      <4>1. r # 0 => r \in 1 .. n
        OBVIOUS
      <4> QED
        BY <1>2, <4>1
    <3> QED
      BY <3>1, <3>2
  <2>4. flat = [r \in 0 .. n |-> IF r = 0 THEN <<>> ELSE flat[r - 1] \o rows[r]]
    BY <2>1, <2>3
  <2> DEFINE T == {r \in 0 .. n : flat[r] = F[r]}
  <2>5. 0 \in T
    <3>1. 0 \in 0 .. n
      OBVIOUS
    <3> QED
      BY <1>2, <2>4, <3>1
  <2>6. ASSUME NEW r \in 1 .. n, r - 1 \in T PROVE r \in T
    <3>1. r \in 0 .. n /\ r # 0 /\ flat[r - 1] = F[r - 1]
      BY <2>6
    <3>2. flat[r] = flat[r - 1] \o rows[r]
      BY <2>4, <3>1
    <3> QED
      BY <1>2, <3>1, <3>2
  <2> HIDE DEF T
  <2>7. Climbs(T, n)
    BY <2>5, <2>6 DEF Climbs
  <2>8. 0 .. n \subseteq T
    BY <2>7, Climb
  <2>9. flat[n] = F[n]
    BY <1>3, <2>8 DEF T
  <2> QED
    BY <2>2, <2>9
<1>5. CASE n = 0
  <2>1. Seqs!FlattenSeq(rows) = <<>>
    BY <1>1, <1>5 DEF Seqs!FlattenSeq
  <2> QED
    BY <1>1, <1>2, <1>4, <1>5, <2>1
<1>6. CASE n # 0
  <2>1. PICK flat : flat = CHOOSE f : f =
          [i \in 1 .. n |-> IF i = 1 THEN rows[i] ELSE f[i - 1] \o rows[i]]
    OBVIOUS
  <2>2. Seqs!FlattenSeq(rows) = flat[n]
    BY <1>1, <1>6, <2>1 DEF Seqs!FlattenSeq
  <2>3. PICK g : g = [i \in 1 .. n |-> F[i]]
    OBVIOUS
  <2>4. F[1] = rows[1]
    <3>1. 1 \in 1 .. n
      BY <1>6
    <3>2. rows[1] \in Seq(S)
      BY <1>1, <3>1
    <3>3. F[1] = F[0] \o rows[1]
      <4>1. PICK k \in 1 .. n : k = 1 /\ k - 1 = 0
        BY <3>1
      <4>2. F[k] = F[k - 1] \o rows[k]
        BY <1>2
      <4> QED
        BY <4>1, <4>2
    <3>4. <<>> \o rows[1] = rows[1]
      BY <3>2, ConcatEmptySeq
    <3> QED
      BY <1>2, <3>3, <3>4
  <2>5. ASSUME NEW i \in 1 .. n PROVE g[i] = IF i = 1 THEN rows[i] ELSE g[i - 1] \o rows[i]
    <3>1. CASE i = 1
      BY <2>3, <2>4, <3>1
    <3>2. CASE i # 1
      <4>1. i - 1 \in 1 .. n
        BY <3>2
      <4> QED
        BY <1>2, <2>3, <3>2, <4>1
    <3> QED
      BY <3>1, <3>2
  <2>6. g = [i \in 1 .. n |-> IF i = 1 THEN rows[i] ELSE g[i - 1] \o rows[i]]
    BY <2>3, <2>5
  <2>7. flat = [i \in 1 .. n |-> IF i = 1 THEN rows[i] ELSE flat[i - 1] \o rows[i]]
    BY <2>1, <2>6
  <2> DEFINE T == {r \in 0 .. n : r = 0 \/ flat[r] = F[r]}
  <2>8. 0 \in T
    OBVIOUS
  <2>9. ASSUME NEW r \in 1 .. n, r - 1 \in T PROVE r \in T
    <3>1. r \in 0 .. n /\ (r = 1 \/ flat[r - 1] = F[r - 1])
      BY <2>9
    <3>2. flat[r] = IF r = 1 THEN rows[r] ELSE flat[r - 1] \o rows[r]
      BY <2>7
    <3> QED
      BY <1>2, <2>4, <3>1, <3>2
  <2> HIDE DEF T
  <2>10. Climbs(T, n)
    BY <2>8, <2>9 DEF Climbs
  <2>11. 0 .. n \subseteq T
    BY <2>10, Climb
  <2>12. flat[n] = F[n]
    BY <1>3, <1>6, <2>11 DEF T
  <2> QED
    BY <1>1, <1>4, <2>2, <2>12
<1> QED
  BY <1>5, <1>6

(* flatten on every target: the back ends copy, and fill one sequence.     *)
LEMMA FlattenNodes ==
  ASSUME NEW S, NEW rows \in Seq(Seq(S))
  PROVE  \E ys \in Seq(S) :
           /\ ys = Seqs!FlattenSeq(rows)
           /\ CFlatten(rows) = Ok(ys) /\ LlvmFlatten(rows) = Ok(ys) /\ TsFlatten(rows) = Ok(ys)
           /\ \E G : Offsets(rows, G) /\ Flat(rows, G, ys)
<1>1. PICK n \in Nat : n = Len(rows) /\ DOMAIN rows = 1 .. n
                       /\ \A q \in 1 .. n : rows[q] \in Seq(S) /\ Len(rows[q]) \in Nat
  BY RowLengths
<1>2. PICK G : Offsets(rows, G)
  BY OffsetsExist
<1>3. PICK F : Joins(S, rows, F)
  BY JoinsExist
<1>4. PICK ys \in Seq(S) : ys = F[n] /\ Flat(rows, G, ys)
  BY <1>1, <1>2, <1>3, JoinsAreFlat
<1>5. TsFlatten(rows) = Ok(ys) /\ Seqs!FlattenSeq(rows) = ys
  BY <1>1, <1>3, <1>4, JoinedRows
<1>6. /\ G \in [0 .. n -> Nat] /\ G[0] = 0
      /\ \A q \in 1 .. n : G[q] = G[q - 1] + Len(rows[q])
      /\ \A q \in 0 .. n : RowOffset(rows, q) = G[q]
  BY <1>1, <1>2 DEF Offsets
<1>7. PICK m \in Nat : m = Len(ys) /\ m = G[n] /\ m = RowOffset(rows, n)
  <2>1. n \in 0 .. n
    OBVIOUS
  <2> QED
    BY <1>1, <1>4, <1>6, <2>1, SeqFacts DEF Flat
<1>8. LlvmFlatten(rows) = Ok(ys)
  <2>1. PICK copied : copied = CHOOSE f : f =
           [r \in 0 .. n |->
              IF r = 0 THEN Unset(m)
              ELSE CopyTo(f[r - 1], RowOffset(rows, r - 1), rows[r])]
    OBVIOUS
  <2>2. LlvmFlatten(rows) = Ok(copied[n])
    BY <1>1, <1>7, <2>1 DEF LlvmFlatten
  <2>3. copied[n] = ys
    <3>1. copied = CHOOSE f : f =
           [r \in 0 .. Len(rows) |->
              IF r = 0 THEN Unset(Len(ys))
              ELSE CopyTo(f[r - 1], RowOffset(rows, r - 1), rows[r])]
      BY <1>1, <1>7, <2>1
    <3>2. copied[Len(rows)] = ys
      BY <1>2, <1>4, <3>1, CopiedRows
    <3> QED
      BY <1>1, <3>2
  <2> QED
    BY <2>2, <2>3
<1>9. CFlatten(rows) = Ok(ys)
  <2> DEFINE Row(k) == CHOOSE r \in DOMAIN rows :
                         RowOffset(rows, r - 1) <= k /\ k < RowOffset(rows, r)
  <2>1. ASSUME NEW k \in 1 .. m
        PROVE  Item(rows[Row(k - 1)], k - 1 - RowOffset(rows, Row(k - 1) - 1)) = ys[k]
    <3>0. k \in 1 .. G[Len(rows)]
      BY <1>1, <1>7
    <3>9. PICK r \in 1 .. Len(rows) : Slot(rows, G, ys, k, r)
      BY <1>2, <1>4, <3>0, FlatSlots
    <3>1. /\ G[r - 1] < k /\ k <= G[r] /\ G[r - 1] \in Nat
          /\ k - G[r - 1] \in 1 .. Len(rows[r]) /\ ys[k] = rows[r][k - G[r - 1]]
          /\ \A q \in 1 .. Len(rows) : G[q - 1] < k /\ k <= G[q] => q = r
      BY <3>9 DEF Slot
    <3>2. ASSUME NEW q \in 1 .. n
          PROVE  RowOffset(rows, q - 1) <= k - 1 /\ k - 1 < RowOffset(rows, q) <=> q = r
      <4>1. q - 1 \in 0 .. n /\ q \in 0 .. n
        OBVIOUS
      <4>2. PICK a \in Nat, b \in Nat : a = G[q - 1] /\ b = G[q]
        BY <1>6, <4>1
      <4>3. RowOffset(rows, q - 1) = a /\ RowOffset(rows, q) = b
        BY <1>6, <4>1, <4>2
      <4>4. a <= k - 1 /\ k - 1 < b <=> a < k /\ k <= b
        OBVIOUS
      <4>5. a < k /\ k <= b <=> q = r
        BY <1>1, <3>1, <4>2
      <4> QED
        BY <4>3, <4>4, <4>5
    <3>3. Row(k - 1) = r
      <4>1. r \in 1 .. n
        BY <1>1
      <4> QED
        BY <1>1, <3>2, <4>1
    <3> HIDE DEF Row
    <3>4. r \in 1 .. n /\ r - 1 \in 0 .. n
      BY <1>1
    <3>5. PICK a \in Nat : a = G[r - 1] /\ RowOffset(rows, r - 1) = a
      BY <1>6, <3>1, <3>4
    <3>6. PICK i \in 1 .. Len(rows[r]) : i = k - a
      BY <3>1, <3>5
    <3>7. Item(rows[r], i - 1) = rows[r][i]
      <4>1. rows[r] \in Seq(S)
        BY <1>1, <3>4
      <4> QED
        BY <4>1, SeqFacts
    <3>8. k - 1 - a = i - 1
      BY <1>1, <3>4, <3>6
    <3> QED
      BY <3>1, <3>3, <3>5, <3>6, <3>7, <3>8
  <2>2. CFlatten(rows) = Ok([k \in 1 .. m |->
             Item(rows[Row(k - 1)], k - 1 - RowOffset(rows, Row(k - 1) - 1))])
    BY <1>1, <1>7 DEF CFlatten
  <2> HIDE DEF Row
  <2>3. ys = [k \in 1 .. m |-> ys[k]]
    BY <1>7, SeqFacts
  <2>4. [k \in 1 .. m |->
             Item(rows[Row(k - 1)], k - 1 - RowOffset(rows, Row(k - 1) - 1))] = ys
    BY <2>1, <2>3
  <2> QED
    BY <2>2, <2>4
<1> QED
  BY <1>2, <1>4, <1>5, <1>8, <1>9

-----------------------------------------------------------------------------
(* Grouping by id: the runs of sorted ids.                                 *)

(* How many of a set of numbers are smaller than one.                      *)
Rank(T, s) == Cardinality({t \in T : t < s})

(* Every rank below the size of a finite set is that of one member.        *)
LEMMA Ranks ==
  ASSUME NEW T \in SUBSET Nat, IsFiniteSet(T)
  PROVE  /\ Cardinality(T) \in Nat
         /\ \A s \in T : Rank(T, s) \in 0 .. Cardinality(T) - 1
         /\ \A s, u \in T : s < u => Rank(T, s) < Rank(T, u)
         /\ \A g \in 1 .. Cardinality(T) : \E s \in T : Rank(T, s) = g - 1
<1>1. PICK c \in Nat : c = Cardinality(T)
  BY FS_CardinalityType
<1>2. ASSUME NEW s \in T, NEW U, U = {t \in T : t < s}
      PROVE  /\ IsFiniteSet(U) /\ Rank(T, s) = Cardinality(U) /\ Rank(T, s) \in Nat
             /\ IsFiniteSet(U \cup {s}) /\ Cardinality(U \cup {s}) = Rank(T, s) + 1
  <2>1. U \in SUBSET T /\ s \notin U
    BY <1>2
  <2>2. IsFiniteSet(U)
    BY <2>1, FS_Subset
  <2>3. Cardinality(U) \in Nat
    BY <2>2, FS_CardinalityType
  <2>4. Rank(T, s) = Cardinality(U)
    BY <1>2 DEF Rank
  <2>5. IsFiniteSet(U \cup {s}) /\ Cardinality(U \cup {s}) = Cardinality(U) + 1
    BY <2>1, <2>2, FS_AddElement
  <2> QED
    BY <2>2, <2>3, <2>4, <2>5
<1>3. ASSUME NEW s \in T PROVE Rank(T, s) \in 0 .. c - 1
  <2>1. PICK U : U = {t \in T : t < s}
    OBVIOUS
  <2>2. PICK V : V = U \cup {s}
    OBVIOUS
  <2>3. V \in SUBSET T /\ Cardinality(V) = Rank(T, s) + 1 /\ Rank(T, s) \in Nat
    BY <1>2, <2>1, <2>2
  <2>4. Cardinality(V) <= c
    BY <1>1, <2>3, FS_Subset
  <2> QED
    BY <1>1, <2>3, <2>4
<1>4. ASSUME NEW s \in T, NEW u \in T, s < u PROVE Rank(T, s) < Rank(T, u)
  <2>1. PICK U : U = {t \in T : t < s}
    OBVIOUS
  <2>2. PICK V : V = U \cup {s}
    OBVIOUS
  <2>3. PICK W : W = {t \in T : t < u}
    OBVIOUS
  <2>4. V \in SUBSET W
    <3>1. \A t \in T : t < s => t < u
      BY <1>4
    <3> QED
      BY <1>4, <2>1, <2>2, <2>3, <3>1
  <2>5. Cardinality(V) = Rank(T, s) + 1 /\ Rank(T, s) \in Nat
    BY <1>2, <2>1, <2>2
  <2>6. IsFiniteSet(W) /\ Rank(T, u) = Cardinality(W) /\ Rank(T, u) \in Nat
    BY <1>2, <2>3
  <2>7. Cardinality(V) <= Cardinality(W)
    BY <2>4, <2>6, FS_Subset
  <2> QED
    BY <2>5, <2>6, <2>7
<1>5. \A g \in 1 .. c : \E s \in T : Rank(T, s) = g - 1
  <2>1. PICK h : h = [s \in T |-> Rank(T, s)]
    OBVIOUS
  <2>2. PICK R : R = 0 .. c - 1
    OBVIOUS
  <2>3. IsFiniteSet(R) /\ Cardinality(R) = c
    <3>1. PICK b \in Int : b = c - 1
      OBVIOUS
    <3>2. IsFiniteSet(0 .. b) /\ Cardinality(0 .. b) = IF 0 > b THEN 0 ELSE b - 0 + 1
      BY FS_Interval
    <3> QED
      BY <2>2, <3>1, <3>2
  <2>4. h \in Injection(T, R)
    <3>1. h \in [T -> R]
      BY <1>3, <2>1, <2>2
    <3>2. ASSUME NEW s \in T, NEW u \in T, h[s] = h[u] PROVE s = u
      <4>1. Rank(T, s) = Rank(T, u) /\ Rank(T, s) \in Int /\ Rank(T, u) \in Int
        BY <1>3, <2>1, <3>2
      <4>2. ~(s < u) /\ ~(u < s)
        BY <1>4, <4>1
      <4>3. s \in Nat /\ u \in Nat
        OBVIOUS
      <4> QED
        BY <4>2, <4>3
    <3> QED
      BY <3>1, <3>2 DEF Injection, IsInjective
  <2>5. h \in Surjection(T, R)
    BY <1>1, <2>3, <2>4, FS_Injection
  <2>6. ASSUME NEW g \in 1 .. c PROVE \E s \in T : Rank(T, s) = g - 1
    <3>1. g - 1 \in R
      BY <2>2
    <3>2. PICK s \in T : h[s] = g - 1
      BY <2>5, <3>1 DEF Surjection
    <3> QED
      BY <2>1, <3>2
  <2> QED
    BY <2>6
<1> QED
  BY <1>1, <1>3, <1>4, <1>5

(* Ids that never decrease, told by neighbours or by any two positions.    *)
Sorted(ids) == \A j, k \in DOMAIN ids : j <= k => ids[j] <= ids[k]

(* The two ways of telling agree.                                          *)
LEMMA SortedByNeighbours ==
  ASSUME NEW ids \in Seq(Nat)
  PROVE  Sorted(ids) <=> ~(\E k \in DOMAIN ids : k > 1 /\ ids[k] < ids[k - 1])
<1>1. PICK n \in Nat : n = Len(ids) /\ DOMAIN ids = 1 .. n /\ \A k \in 1 .. n : ids[k] \in Nat
  BY SeqFacts
<1>2. ASSUME Sorted(ids), NEW k \in 1 .. n, k > 1 PROVE ~(ids[k] < ids[k - 1])
  <2>1. k - 1 \in 1 .. n /\ k - 1 <= k
    BY <1>2
  <2>2. ids[k - 1] <= ids[k] /\ ids[k - 1] \in Nat /\ ids[k] \in Nat
    BY <1>1, <1>2, <2>1 DEF Sorted
  <2> QED
    BY <2>2
<1>3. ASSUME ~(\E k \in DOMAIN ids : k > 1 /\ ids[k] < ids[k - 1]) PROVE Sorted(ids)
  <2> DEFINE T == {k \in 0 .. n : \A j \in 1 .. k : ids[j] <= ids[k]}
  <2>1. 0 \in T
    OBVIOUS
  <2>2. ASSUME NEW k \in 1 .. n, k - 1 \in T PROVE k \in T
    <3>1. ids[k] \in Nat
      BY <1>1
    <3>2. ASSUME NEW j \in 1 .. k PROVE ids[j] <= ids[k]
      <4>1. CASE j = k
        BY <3>1, <4>1
      <4>2. CASE j # k
        <5>1. j \in 1 .. k - 1 /\ k - 1 \in 1 .. n /\ j \in 1 .. n /\ k > 1
          BY <4>2
        <5>2. ids[j] <= ids[k - 1] /\ ids[j] \in Nat /\ ids[k - 1] \in Nat
          BY <1>1, <2>2, <5>1
        <5>3. ~(ids[k] < ids[k - 1])
          BY <1>1, <1>3, <5>1
        <5> QED
          BY <3>1, <5>2, <5>3
      <4> QED
        BY <4>1, <4>2
    <3>3. k \in 0 .. n
      OBVIOUS
    <3> QED
      BY <3>2, <3>3
  <2> HIDE DEF T
  <2>3. Climbs(T, n)
    BY <2>1, <2>2 DEF Climbs
  <2>4. 0 .. n \subseteq T
    BY <2>3, Climb
  <2>5. ASSUME NEW j \in 1 .. n, NEW k \in 1 .. n, j <= k PROVE ids[j] <= ids[k]
    <3>1. k \in T /\ j \in 1 .. k
      BY <2>4, <2>5
    <3> QED
      BY <3>1 DEF T
  <2> QED
    BY <1>1, <2>5 DEF Sorted
<1> QED
  BY <1>1, <1>2, <1>3

(* A one-to-one map onto a set gives it the size of its source.            *)
LEMMA SameSize ==
  ASSUME NEW V, IsFiniteSet(V), NEW W, NEW h \in [V -> W],
         \A v, w \in V : h[v] = h[w] => v = w,
         \A w \in W : \E v \in V : h[v] = w
  PROVE  IsFiniteSet(W) /\ Cardinality(W) = Cardinality(V)
<1>1. h \in Surjection(V, W)
  BY DEF Surjection
<1>2. h \in Injection(V, W)
  BY DEF Injection, IsInjective
<1> QED
  BY <1>1, <1>2, FS_Surjection

(* The starts of the runs of sorted ids, and the ids used, go together.    *)
LEMMA StartsFacts ==
  ASSUME NEW ids \in Seq(Nat), Sorted(ids),
         NEW T, T = RunStarts(ids), NEW U, U = Seqs!ToSet(ids)
  PROVE  /\ T \in SUBSET Nat /\ IsFiniteSet(T) /\ T \subseteq 1 .. Len(ids)
         /\ U \in SUBSET Nat /\ IsFiniteSet(U)
         /\ \A s \in T : ids[s] \in U /\ Rank(U, ids[s]) = Rank(T, s)
         /\ Cardinality(U) = Cardinality(T)
         /\ \A s, t \in T : s < t => ids[s] < ids[t]
<1>1. PICK n \in Nat : n = Len(ids) /\ DOMAIN ids = 1 .. n /\ \A k \in 1 .. n : ids[k] \in Nat
  BY SeqFacts
<1>2. T = {k \in 1 .. n : k = 1 \/ ids[k] # ids[k - 1]}
  BY <1>1 DEF RunStarts
<1>3. U = {ids[k] : k \in 1 .. n}
  BY <1>1 DEF Seqs!ToSet
<1>4. T \in SUBSET Nat /\ IsFiniteSet(T) /\ T \subseteq 1 .. n
  <2>1. T \in SUBSET (1 .. n)
    BY <1>2
  <2>2. IsFiniteSet(1 .. n)
    BY FS_Interval
  <2>3. IsFiniteSet(T)
    BY <2>1, <2>2, FS_Subset
  <2> QED
    BY <2>1, <2>3
<1>5. \A s \in T : ids[s] \in U /\ ids[s] \in Nat
  BY <1>1, <1>3, <1>4
<1>6. ASSUME NEW s \in T, NEW t \in T, s < t PROVE ids[s] < ids[t]
  <2>1. s \in 1 .. n /\ t \in 1 .. n /\ t - 1 \in 1 .. n /\ s <= t - 1 /\ t - 1 <= t /\ t # 1
    BY <1>4, <1>6
  <2>2. ids[s] <= ids[t - 1] /\ ids[t - 1] <= ids[t] /\ ids[t] # ids[t - 1]
    BY <1>1, <1>2, <2>1 DEF Sorted
  <2>3. ids[s] \in Nat /\ ids[t] \in Nat /\ ids[t - 1] \in Nat
    BY <1>1, <2>1
  <2> QED
    BY <2>2, <2>3
<1>7. ASSUME NEW s \in T, NEW t \in T, ids[s] = ids[t] PROVE s = t
  <2>1. ~(s < t) /\ ~(t < s) /\ s \in Nat /\ t \in Nat
    BY <1>4, <1>5, <1>6, <1>7
  <2> QED
    BY <2>1
<1>8. ASSUME NEW i \in U PROVE \E s \in T : ids[s] = i
  <2>1. PICK V : V = {k \in 1 .. n : ids[k] = i}
    OBVIOUS
  <2>2. V \in SUBSET Nat /\ V # {}
    BY <1>3, <2>1
  <2>3. PICK s \in V : \A k \in V : s <= k
    BY <2>2, LeastNatural
  <2>4. s \in 1 .. n /\ ids[s] = i
    BY <2>1
  <2>5. CASE s = 1
    BY <1>2, <2>4, <2>5
  <2>6. CASE s # 1
    <3>1. s - 1 \in 1 .. n /\ ~(s <= s - 1)
      BY <2>4, <2>6
    <3>2. ids[s - 1] # i
      BY <2>1, <2>3, <3>1
    <3> QED
      BY <1>2, <2>4, <3>2
  <2> QED
    BY <2>5, <2>6
<1>9. IsFiniteSet(U) /\ Cardinality(U) = Cardinality(T) /\ U \in SUBSET Nat
  <2>1. PICK h : h = [s \in T |-> ids[s]]
    OBVIOUS
  <2>2. h \in [T -> U] /\ (\A v, w \in T : h[v] = h[w] => v = w)
        /\ \A w \in U : \E v \in T : h[v] = w
    BY <1>5, <1>7, <1>8, <2>1
  <2>3. IsFiniteSet(U) /\ Cardinality(U) = Cardinality(T)
    BY <1>4, <2>2, SameSize
  <2> QED
    BY <1>1, <1>3, <2>3
<1>10. ASSUME NEW s \in T PROVE Rank(U, ids[s]) = Rank(T, s)
  <2>1. PICK V, W : V = {t \in T : t < s} /\ W = {j \in U : j < ids[s]}
    OBVIOUS
  <2>2. PICK h : h = [t \in V |-> ids[t]]
    OBVIOUS
  <2>3. h \in [V -> W]
    BY <1>5, <1>6, <2>1, <2>2
  <2>4. \A v, w \in V : h[v] = h[w] => v = w
    BY <1>7, <2>1, <2>2
  <2>5. ASSUME NEW w \in W PROVE \E v \in V : h[v] = w
    <3>1. PICK t \in T : ids[t] = w
      BY <1>8, <2>1
    <3>2. ids[t] < ids[s] /\ ids[t] \in Nat /\ ids[s] \in Nat
      BY <1>5, <2>1, <3>1
    <3>3. ~(s < t) /\ s # t /\ s \in Nat /\ t \in Nat
      BY <1>4, <1>6, <3>2
    <3>4. t < s
      BY <3>3
    <3> QED
      BY <2>1, <2>2, <3>1, <3>4
  <2>6. IsFiniteSet(V)
    <3>1. V \in SUBSET T
      BY <2>1
    <3> QED
      BY <1>4, <3>1, FS_Subset
  <2>7. Cardinality(W) = Cardinality(V)
    BY <2>3, <2>4, <2>5, <2>6, SameSize
  <2> QED
    BY <2>1, <2>7 DEF Rank
<1> QED
  BY <1>1, <1>4, <1>5, <1>6, <1>9, <1>10

(* Where a run starts, where the next begins, and its id.                  *)
StartOf(ids, g) ==
  CHOOSE s \in RunStarts(ids) : Cardinality({t \in RunStarts(ids) : t < s}) = g - 1
StopOf(ids, g) == IF g = Cardinality(RunStarts(ids)) THEN Len(ids) + 1 ELSE StartOf(ids, g + 1)
IdOf(ids, g) ==
  CHOOSE i \in Seqs!ToSet(ids) : Cardinality({j \in Seqs!ToSet(ids) : j < i}) = g - 1

(* The starts are the run starts, in their order.                          *)
LEMMA StartOfFacts ==
  ASSUME NEW ids \in Seq(Nat), Sorted(ids), NEW T, T = RunStarts(ids),
         NEW g \in 1 .. Cardinality(T)
  PROVE  StartOf(ids, g) \in T /\ Rank(T, StartOf(ids, g)) = g - 1
<1>1. T \in SUBSET Nat /\ IsFiniteSet(T)
  BY StartsFacts
<1>2. \E s \in T : Rank(T, s) = g - 1
  BY <1>1, Ranks
<1>3. StartOf(ids, g) = CHOOSE s \in T : Rank(T, s) = g - 1
  BY DEF StartOf, Rank
<1> QED
  BY <1>2, <1>3

(* The id of a run is the one where it starts.                             *)
LEMMA IdOfFacts ==
  ASSUME NEW ids \in Seq(Nat), Sorted(ids), NEW g \in 1 .. Cardinality(RunStarts(ids))
  PROVE  IdOf(ids, g) = ids[StartOf(ids, g)]
<1>1. PICK T, U : T = RunStarts(ids) /\ U = Seqs!ToSet(ids)
  OBVIOUS
<1>2. /\ T \in SUBSET Nat /\ IsFiniteSet(T) /\ U \in SUBSET Nat /\ IsFiniteSet(U)
      /\ \A s \in T : ids[s] \in U /\ Rank(U, ids[s]) = Rank(T, s)
  BY <1>1, StartsFacts
<1>3. PICK s \in T : s = StartOf(ids, g) /\ Rank(T, s) = g - 1
  BY <1>1, StartOfFacts
<1>4. IdOf(ids, g) = CHOOSE i \in U : Rank(U, i) = g - 1
  BY <1>1 DEF IdOf, Rank
<1>5. ASSUME NEW i \in U, NEW j \in U, Rank(U, i) = Rank(U, j) PROVE i = j
  <2>1. /\ Rank(U, i) \in Int /\ Rank(U, j) \in Int
        /\ (i < j => Rank(U, i) < Rank(U, j)) /\ (j < i => Rank(U, j) < Rank(U, i))
    BY <1>2, Ranks
  <2>2. ~(i < j) /\ ~(j < i) /\ i \in Nat /\ j \in Nat
    BY <1>2, <1>5, <2>1
  <2> QED
    BY <2>2
<1>6. ids[s] \in U /\ Rank(U, ids[s]) = g - 1
  BY <1>2, <1>3
<1> QED
  BY <1>3, <1>4, <1>5, <1>6

(* A run holds the positions of its id, after those of the smaller ids.    *)
LEMMA RunFacts ==
  ASSUME NEW ids \in Seq(Nat), Sorted(ids), NEW g \in 1 .. Cardinality(RunStarts(ids)),
         NEW s, s = StartOf(ids, g), NEW e, e = StopOf(ids, g)
  PROVE  /\ s \in 1 .. Len(ids) /\ e \in s + 1 .. Len(ids) + 1
         /\ \A k \in 1 .. Len(ids) : /\ ids[k] < ids[s] <=> k < s
                                     /\ ids[k] <= ids[s] <=> k < e
<1>1. PICK n \in Nat : n = Len(ids) /\ DOMAIN ids = 1 .. n /\ \A k \in 1 .. n : ids[k] \in Nat
  BY SeqFacts
<1>2. PICK T : T = RunStarts(ids)
  OBVIOUS
<1>3. /\ T \in SUBSET Nat /\ IsFiniteSet(T) /\ T \subseteq 1 .. n
      /\ \A a, b \in T : a < b => ids[a] < ids[b]
  <2>1. PICK U : U = Seqs!ToSet(ids)
    OBVIOUS
  <2> QED
    BY <1>1, <1>2, <2>1, StartsFacts
<1>4. PICK c \in Nat : c = Cardinality(T) /\ g \in 1 .. c
  BY <1>2, <1>3, FS_CardinalityType
<1>5. /\ \A a \in T : Rank(T, a) \in 0 .. c - 1
      /\ \A a, b \in T : a < b => Rank(T, a) < Rank(T, b)
  BY <1>3, <1>4, Ranks
<1>6. s \in T /\ Rank(T, s) = g - 1 /\ s \in 1 .. n
  BY <1>2, <1>3, <1>4, StartOfFacts
<1>7. /\ e \in s + 1 .. n + 1 /\ (e = n + 1 \/ e \in T)
      /\ \A t \in T : s < t => ~(t < e)
  <2>1. CASE g = c
    <3>1. e = n + 1
      BY <1>1, <1>2, <1>4, <2>1 DEF StopOf
    <3>2. ASSUME NEW t \in T, s < t PROVE FALSE
      <4>1. Rank(T, t) \in 0 .. c - 1 /\ g - 1 < Rank(T, t)
        BY <1>5, <1>6, <3>2
      <4> QED
        BY <2>1, <4>1
    <3> QED
      BY <1>6, <3>1, <3>2
  <2>2. CASE g # c
    <3>1. PICK h \in 1 .. c : h = g + 1 /\ h - 1 = g
      BY <1>4, <2>2
    <3>2. e = StartOf(ids, h)
      BY <1>2, <1>4, <2>2, <3>1 DEF StopOf
    <3>3. h \in 1 .. Cardinality(T)
      BY <1>4
    <3>4. e \in T /\ Rank(T, e) = h - 1
      BY <1>2, <3>2, <3>3, StartOfFacts
    <3>5. ~(e < s) /\ e # s
      <4>1. e < s => Rank(T, e) < Rank(T, s)
        BY <1>5, <1>6, <3>4
      <4> QED
        BY <1>6, <3>1, <3>4, <4>1
    <3>6. ASSUME NEW t \in T, s < t, t < e PROVE FALSE
      <4>1. Rank(T, t) \in 0 .. c - 1 /\ g - 1 < Rank(T, t) /\ Rank(T, t) < g
        BY <1>5, <1>6, <3>1, <3>4, <3>6
      <4> QED
        BY <4>1
    <3>7. e \in s + 1 .. n + 1
      BY <1>3, <1>6, <3>4, <3>5
    <3> QED
      BY <3>4, <3>6, <3>7
  <2> QED
    BY <2>1, <2>2
<1>8. \A j, k \in 1 .. n : j <= k => ids[j] <= ids[k]
  BY <1>1 DEF Sorted
<1>9. ASSUME NEW k \in 1 .. n, k < s PROVE ids[k] < ids[s]
  <2>1. s - 1 \in 1 .. n /\ k <= s - 1 /\ s - 1 <= s /\ s # 1
    BY <1>6, <1>9
  <2>2. ids[s] # ids[s - 1]
    BY <1>2, <1>6, <2>1 DEF RunStarts
  <2>3. ids[k] <= ids[s - 1] /\ ids[s - 1] <= ids[s]
    BY <1>6, <1>8, <2>1
  <2>4. ids[k] \in Nat /\ ids[s - 1] \in Nat /\ ids[s] \in Nat
    BY <1>1, <1>6, <2>1
  <2> QED
    BY <2>2, <2>3, <2>4
<1>10. ASSUME NEW k \in 1 .. n, s <= k, k < e PROVE ids[k] = ids[s]
  <2>1. PICK m \in Nat : m = k - s
    BY <1>6, <1>10
  <2> DEFINE V == {d \in 0 .. m : ids[s + d] = ids[s]}
  <2>2. 0 \in V
    BY <1>6
  <2>3. ASSUME NEW d \in 1 .. m, d - 1 \in V PROVE d \in V
    <3>0. /\ s \in Nat /\ s >= 1 /\ k \in Nat /\ k <= n /\ e \in Nat /\ k < e
          /\ d \in Nat /\ d >= 1 /\ d <= k - s
      BY <1>6, <1>7, <1>10, <2>1, SMTT(30)
    <3>1. PICK p : p = s + d
      OBVIOUS
    <3>2. p \in 1 .. n /\ p - 1 = s + (d - 1) /\ s < p /\ p < e /\ p # 1
      BY <3>0, <3>1, SMTT(30)
    <3>3. p \notin T
      BY <1>7, <3>2
    <3>4. ids[p] = ids[p - 1]
      BY <1>1, <1>2, <3>2, <3>3 DEF RunStarts
    <3>5. ids[s + (d - 1)] = ids[s]
      BY <2>3
    <3>6. ids[p - 1] = ids[s]
      BY <3>2, <3>5
    <3>7. ids[p] = ids[s]
      BY <3>4, <3>6
    <3> QED
      BY <3>1, <3>7
  <2> HIDE DEF V
  <2>4. Climbs(V, m)
    BY <2>2, <2>3 DEF Climbs
  <2>5. 0 .. m \subseteq V
    BY <2>4, Climb
  <2>6. m \in 0 .. m
    OBVIOUS
  <2>7. ids[s + m] = ids[s]
    BY <2>5, <2>6 DEF V
  <2>8. s + m = k
    BY <1>6, <2>1
  <2> QED
    BY <2>7, <2>8
<1>11. ASSUME NEW k \in 1 .. n, e <= k PROVE ids[s] < ids[k]
  <2>1. e \in T /\ s < e /\ e \in 1 .. n
    BY <1>3, <1>6, <1>7, <1>11
  <2>2. ids[s] < ids[e] /\ ids[e] <= ids[k]
    BY <1>3, <1>6, <1>8, <1>11, <2>1
  <2>3. ids[s] \in Nat /\ ids[e] \in Nat /\ ids[k] \in Nat
    BY <1>1, <1>6, <2>1
  <2> QED
    BY <2>2, <2>3
<1>12. ASSUME NEW k \in 1 .. n
       PROVE  (ids[k] < ids[s] <=> k < s) /\ (ids[k] <= ids[s] <=> k < e)
  <2>1. ids[k] \in Nat /\ ids[s] \in Nat /\ k \in Nat /\ s \in Nat /\ e \in Nat /\ s < e
    BY <1>1, <1>6, <1>7
  <2>2. CASE k < s
    BY <1>9, <2>1, <2>2
  <2>3. CASE s <= k /\ k < e
    BY <1>10, <2>1, <2>3
  <2>4. CASE e <= k
    BY <1>11, <2>1, <2>4
  <2> QED
    BY <2>1, <2>2, <2>3, <2>4
<1> QED
  BY <1>1, <1>6, <1>7, <1>12

(* The first run starts the sequence; without a run it is empty.           *)
LEMMA FirstRun ==
  ASSUME NEW ids \in Seq(Nat), Sorted(ids)
  PROVE  /\ Cardinality(RunStarts(ids)) \in Nat
         /\ Cardinality(RunStarts(ids)) = 0 => Len(ids) = 0
         /\ Cardinality(RunStarts(ids)) # 0 => StartOf(ids, 1) = 1
<1>1. PICK n \in Nat : n = Len(ids) /\ DOMAIN ids = 1 .. n
  BY SeqFacts
<1>2. PICK T : T = RunStarts(ids)
  OBVIOUS
<1>3. T \in SUBSET Nat /\ IsFiniteSet(T) /\ T \subseteq 1 .. n
  <2>1. PICK U : U = Seqs!ToSet(ids)
    OBVIOUS
  <2> QED
    BY <1>1, <1>2, <2>1, StartsFacts
<1>4. PICK c \in Nat : c = Cardinality(T)
  BY <1>3, FS_CardinalityType
<1>5. n # 0 => 1 \in T
  BY <1>1, <1>2 DEF RunStarts
<1>6. c = 0 => n = 0
  <2>1. c = 0 => T = {}
    BY <1>3, <1>4, FS_EmptySet
  <2> QED
    BY <1>5, <2>1
<1>7. ASSUME c # 0 PROVE StartOf(ids, 1) = 1
  <2>1. PICK g \in 1 .. Cardinality(T) : g = 1 /\ g - 1 = 0
    BY <1>4, <1>7
  <2>2. PICK s \in T : s = StartOf(ids, g) /\ Rank(T, s) = 0
    BY <1>2, <2>1, StartOfFacts
  <2>3. 1 \in T
    BY <1>3, <1>5
  <2>4. /\ Rank(T, 1) \in 0 .. c - 1 /\ Rank(T, s) \in 0 .. c - 1
        /\ 1 < s => Rank(T, 1) < Rank(T, s)
    BY <1>3, <1>4, <2>3, Ranks
  <2>5. ~(1 < s) /\ s \in Nat /\ s >= 1
    BY <1>3, <2>2, <2>4
  <2> QED
    BY <2>1, <2>2, <2>5
<1> QED
  BY <1>1, <1>2, <1>4, <1>6, <1>7

(* The items of a run.                                                     *)
RunOf(xs, ids, g) == Cut(xs, StartOf(ids, g) - 1, StopOf(ids, g) - StartOf(ids, g))

RunCopied(xs, ids, g) ==
  [k \in 1 .. StopOf(ids, g) - StartOf(ids, g) |-> Item(xs, StartOf(ids, g) + k - 2)]
RunMeant(xs, ids, i) ==
  SubSeq(xs, Cardinality({k \in DOMAIN ids : ids[k] < i}) + 1,
         Cardinality({k \in DOMAIN ids : ids[k] <= i}))

(* What is copied for a run, and what it means, are those items.           *)
LEMMA RunOfFacts ==
  ASSUME NEW S, NEW xs \in Seq(S), NEW ids \in Seq(Nat), Sorted(ids), Len(xs) = Len(ids),
         NEW g \in 1 .. Cardinality(RunStarts(ids))
  PROVE  /\ RunOf(xs, ids, g) \in Seq(S)
         /\ Len(RunOf(xs, ids, g)) = StopOf(ids, g) - StartOf(ids, g)
         /\ Len(RunOf(xs, ids, g)) <= Len(xs)
         /\ RunCopied(xs, ids, g) = RunOf(xs, ids, g)
         /\ RunMeant(xs, ids, IdOf(ids, g)) = RunOf(xs, ids, g)
<1>1. PICK n \in Nat : n = Len(xs) /\ n = Len(ids) /\ DOMAIN ids = 1 .. n
  BY SeqFacts
<1>2. PICK s, e : s = StartOf(ids, g) /\ e = StopOf(ids, g)
  OBVIOUS
<1>3. /\ s \in 1 .. n /\ e \in s + 1 .. n + 1
      /\ \A k \in 1 .. n : (ids[k] < ids[s] <=> k < s) /\ (ids[k] <= ids[s] <=> k < e)
  BY <1>1, <1>2, RunFacts
<1>4. PICK i : i = IdOf(ids, g) /\ i = ids[s]
  BY <1>2, IdOfFacts
<1>5. PICK from \in Nat, m \in Nat : from = s - 1 /\ m = e - s /\ from + m = e - 1
  BY <1>3
<1>6. from \in 0 .. Len(xs) /\ m \in 0 .. Len(xs) - from /\ m <= n
  BY <1>1, <1>3, <1>5
<1>7. PICK r : r = Cut(xs, from, m)
  OBVIOUS
<1>8. RunOf(xs, ids, g) = r
  BY <1>2, <1>5, <1>7 DEF RunOf
<1>9. /\ r \in Seq(S) /\ Len(r) = m
      /\ SubSeq(xs, from + 1, from + m) = r
      /\ \A k \in 1 .. m : Item(xs, from + k - 1) = xs[from + k]
  BY <1>6, <1>7, CutFacts
<1>10. [k \in 1 .. m |-> Item(xs, s + k - 2)] = r
  <2>1. \A k \in 1 .. m : s + k - 2 = from + k - 1
    BY <1>3, <1>5
  <2> QED
    BY <1>7, <1>9, <2>1 DEF Cut
<1>11. /\ Cardinality({k \in 1 .. n : ids[k] < i}) = from
       /\ Cardinality({k \in 1 .. n : ids[k] <= i}) = from + m
  <2>1. {k \in 1 .. n : ids[k] < i} = 1 .. from
    <3>1. \A k \in 1 .. n : k < s <=> k \in 1 .. from
      BY <1>3, <1>5
    <3>2. 1 .. from \subseteq 1 .. n
      BY <1>1, <1>6
    <3> QED
      BY <1>3, <1>4, <3>1, <3>2
  <2>2. PICK l \in Nat : l = from + m /\ l = e - 1
    BY <1>5
  <2>3. {k \in 1 .. n : ids[k] <= i} = 1 .. l
    <3>1. \A k \in 1 .. n : k < e <=> k \in 1 .. l
      BY <1>3, <2>2
    <3>2. 1 .. l \subseteq 1 .. n
      BY <1>3, <2>2
    <3> QED
      BY <1>3, <1>4, <3>1, <3>2
  <2>4. \A b \in Nat : Cardinality(1 .. b) = b
    <3>1. ASSUME NEW b \in Nat PROVE Cardinality(1 .. b) = b
      <4>1. Cardinality(1 .. b) = IF 1 > b THEN 0 ELSE b - 1 + 1
        BY FS_Interval
      <4> QED
        BY <4>1
    <3> QED
      BY <3>1
  <2> QED
    BY <2>1, <2>2, <2>3, <2>4
<1>12. RunCopied(xs, ids, g) = r
  BY <1>2, <1>5, <1>10 DEF RunCopied
<1>13. RunMeant(xs, ids, i) = r
  BY <1>1, <1>9, <1>11 DEF RunMeant
<1> QED
  BY <1>1, <1>2, <1>4, <1>5, <1>6, <1>8, <1>9, <1>12, <1>13

(* The rows of a grouping.                                                 *)
Grouped(xs, ids) == [g \in 1 .. Cardinality(RunStarts(ids)) |-> RunOf(xs, ids, g)]

(* group_by_id on C, where it aborts included.                             *)
LEMMA GroupNodes ==
  ASSUME NEW S, NEW xs \in Seq(S), NEW ids \in Seq(Nat)
  PROVE  /\ ~(Len(xs) = Len(ids) /\ Sorted(ids)) => CGroupById(xs, ids) = Dead
         /\ Len(xs) = Len(ids) /\ Sorted(ids) =>
              /\ CGroupById(xs, ids) = Ok(Grouped(xs, ids))
              /\ Grouped(xs, ids) \in Seq(Seq(S))
              /\ Len(Grouped(xs, ids)) = Cardinality(RunStarts(ids))
              /\ \A g \in 1 .. Len(Grouped(xs, ids)) : Len(Grouped(xs, ids)[g]) <= Len(xs)
              /\ [g \in 1 .. Cardinality(Seqs!ToSet(ids)) |-> RunMeant(xs, ids, IdOf(ids, g))]
                   = Grouped(xs, ids)
<1>1. CASE ~(Len(xs) = Len(ids) /\ Sorted(ids))
  <2>1. Len(xs) # Len(ids) \/ \E k \in DOMAIN ids : k > 1 /\ ids[k] < ids[k - 1]
    BY <1>1, SortedByNeighbours
  <2>2. CGroupById(xs, ids) = Dead
    BY <2>1 DEF CGroupById
  <2> QED
    BY <1>1, <2>2
<1>2. CASE Len(xs) = Len(ids) /\ Sorted(ids)
  <2>1. ~(\E k \in DOMAIN ids : k > 1 /\ ids[k] < ids[k - 1])
    BY <1>2, SortedByNeighbours
  <2>2. PICK T, U : T = RunStarts(ids) /\ U = Seqs!ToSet(ids)
    OBVIOUS
  <2>3. Cardinality(U) = Cardinality(T)
    BY <1>2, <2>2, StartsFacts
  <2>4. PICK c \in Nat : c = Cardinality(T)
    BY <1>2, <2>2, FirstRun
  <2>5. PICK rows : rows = [g \in 1 .. c |-> RunOf(xs, ids, g)]
    OBVIOUS
  <2>6. ASSUME NEW g \in 1 .. c
        PROVE  /\ rows[g] \in Seq(S) /\ Len(rows[g]) <= Len(xs)
               /\ RunCopied(xs, ids, g) = rows[g]
               /\ RunMeant(xs, ids, IdOf(ids, g)) = rows[g]
    <3>1. g \in 1 .. Cardinality(RunStarts(ids)) /\ rows[g] = RunOf(xs, ids, g)
      BY <2>2, <2>4, <2>5
    <3> QED
      BY <1>2, <3>1, RunOfFacts
  <2>7. rows \in Seq(Seq(S)) /\ Len(rows) = c
    <3>1. PICK R : R = Seq(S)
      OBVIOUS
    <3>2. rows = [g \in 1 .. c |-> rows[g]] /\ \A g \in 1 .. c : rows[g] \in R
      BY <2>5, <2>6, <3>1
    <3>3. rows \in Seq(R) /\ Len(rows) = c
      BY <3>2, Filled
    <3> QED
      BY <3>1, <3>3
  <2>8. CGroupById(xs, ids) = Ok([g \in 1 .. c |-> RunCopied(xs, ids, g)])
    <3>1. CGroupById(xs, ids) =
            Ok([g \in 1 .. Cardinality(RunStarts(ids)) |-> RunCopied(xs, ids, g)])
      BY <1>2, <2>1 DEF CGroupById, StopOf, StartOf, RunCopied
    <3> QED
      BY <2>2, <2>4, <3>1
  <2>9. [g \in 1 .. c |-> RunCopied(xs, ids, g)] = rows
    BY <2>5, <2>6
  <2>10. [g \in 1 .. c |-> RunMeant(xs, ids, IdOf(ids, g))] = rows
    BY <2>5, <2>6
  <2>11. Grouped(xs, ids) = rows
    BY <2>2, <2>4, <2>5 DEF Grouped
  <2> QED
    BY <1>2, <2>2, <2>3, <2>4, <2>6, <2>7, <2>8, <2>9, <2>10, <2>11
<1> QED
  BY <1>1, <1>2

(* Flattening a grouping gives the sequence back.                          *)
LEMMA GroupsRebuild ==
  ASSUME NEW S, NEW xs \in Seq(S), NEW ids \in Seq(Nat), CGroupById(xs, ids).ok
  PROVE  CFlatten(CGroupById(xs, ids).value) = Ok(xs)
<1>1. Len(xs) = Len(ids) /\ Sorted(ids)
  BY GroupNodes, ResultFacts
<1>2. PICK rows \in Seq(Seq(S)) :
        /\ rows = Grouped(xs, ids) /\ CGroupById(xs, ids).value = rows
        /\ Len(rows) = Cardinality(RunStarts(ids))
  BY <1>1, GroupNodes, ResultFacts
<1>3. PICK n \in Nat : n = Len(xs) /\ n = Len(ids) /\ xs = [k \in 1 .. n |-> xs[k]]
  BY <1>1, SeqFacts
<1>4. PICK c \in Nat : c = Len(rows) /\ c = Cardinality(RunStarts(ids))
  BY <1>2, SeqFacts
<1>5. PICK ys \in Seq(S) : CFlatten(rows) = Ok(ys) /\ \E G : Offsets(rows, G) /\ Flat(rows, G, ys)
  BY FlattenNodes
<1>6. PICK G : Offsets(rows, G) /\ Flat(rows, G, ys)
  BY <1>5
<1>7. /\ G \in [0 .. c -> Nat] /\ G[0] = 0
      /\ \A r \in 1 .. c : G[r] = G[r - 1] + Len(rows[r])
  BY <1>4, <1>6 DEF Offsets
<1>8. ASSUME NEW r \in 1 .. c
      PROVE  /\ rows[r] = RunOf(xs, ids, r)
             /\ Len(rows[r]) = StopOf(ids, r) - StartOf(ids, r)
             /\ StartOf(ids, r) \in 1 .. n /\ StopOf(ids, r) \in StartOf(ids, r) + 1 .. n + 1
             /\ (r = 1 => StartOf(ids, r) = 1)
             /\ (r # 1 => StartOf(ids, r) = StopOf(ids, r - 1))
             /\ (r = c => StopOf(ids, r) = n + 1)
  <2>1. r \in 1 .. Cardinality(RunStarts(ids))
    BY <1>4
  <2>2. rows[r] = RunOf(xs, ids, r)
    BY <1>2, <2>1 DEF Grouped
  <2>4. Len(RunOf(xs, ids, r)) = StopOf(ids, r) - StartOf(ids, r)
    BY <1>1, <2>1, RunOfFacts
  <2>5. PICK s, e : s = StartOf(ids, r) /\ e = StopOf(ids, r)
    OBVIOUS
  <2>6. s \in 1 .. n /\ e \in s + 1 .. n + 1
    BY <1>1, <1>3, <2>1, <2>5, RunFacts
  <2>7. r = 1 => StartOf(ids, r) = 1
    <3>1. c # 0
      OBVIOUS
    <3> QED
      BY <1>1, <1>4, <3>1, FirstRun
  <2>8. r # 1 => StartOf(ids, r) = StopOf(ids, r - 1)
    <3>1. PICK q : q = r - 1
      OBVIOUS
    <3>2. q # c /\ q + 1 = r
      BY <1>4, <3>1
    <3>3. StopOf(ids, q) = StartOf(ids, q + 1)
      BY <1>4, <3>2 DEF StopOf
    <3> QED
      BY <3>1, <3>2, <3>3
  <2>9. r = c => StopOf(ids, r) = n + 1
    BY <1>3, <1>4 DEF StopOf
  <2> QED
    BY <2>2, <2>4, <2>5, <2>6, <2>7, <2>8, <2>9
<1> DEFINE T == {r \in 0 .. c : r = 0 \/ (G[r] = StopOf(ids, r) - 1
                                          /\ G[r - 1] = StartOf(ids, r) - 1)}
<1>9. 0 \in T
  OBVIOUS
<1>10. ASSUME NEW r \in 1 .. c, r - 1 \in T PROVE r \in T
  <2>1. PICK s \in Nat, e \in Nat : s = StartOf(ids, r) /\ e = StopOf(ids, r) /\ s >= 1
    BY <1>8
  <2>2. G[r - 1] = s - 1
    <3>1. CASE r = 1
      <4>1. r - 1 = 0 /\ s = 1
        BY <1>8, <2>1, <3>1
      <4> QED
        BY <1>7, <4>1
    <3>2. CASE r # 1
      <4>1. r - 1 # 0 /\ s = StopOf(ids, r - 1)
        BY <1>8, <2>1, <3>2
      <4> QED
        BY <1>10, <4>1
    <3> QED
      BY <3>1, <3>2
  <2>3. G[r] = G[r - 1] + (e - s)
    BY <1>7, <1>8, <2>1
  <2>4. G[r] = e - 1
    BY <2>1, <2>2, <2>3
  <2>5. r \in 0 .. c
    OBVIOUS
  <2> QED
    BY <2>1, <2>2, <2>4, <2>5
<1> HIDE DEF T
<1>11. Climbs(T, c)
  BY <1>9, <1>10 DEF Climbs
<1>12. 0 .. c \subseteq T
  BY <1>11, Climb
<1>13. \A r \in 1 .. c : G[r] = StopOf(ids, r) - 1 /\ G[r - 1] = StartOf(ids, r) - 1
  <2>1. \A r \in 1 .. c : r \in 0 .. c /\ r # 0
    OBVIOUS
  <2> QED
    BY <1>12, <2>1 DEF T
<1>14. Len(ys) = n /\ G[c] = n
  <2>1. CASE c = 0
    <3>1. n = 0
      BY <1>1, <1>3, <1>4, <2>1, FirstRun
    <3> QED
      BY <1>4, <1>6, <1>7, <2>1, <3>1 DEF Flat
  <2>2. CASE c # 0
    <3>1. c \in 1 .. c
      BY <2>2
    <3>2. PICK r \in 1 .. c : r = c
      BY <3>1
    <3>3. StopOf(ids, r) = n + 1 /\ G[r] = StopOf(ids, r) - 1
      BY <1>8, <1>13, <3>2
    <3>4. G[c] = n
      BY <3>2, <3>3
    <3> QED
      BY <1>4, <1>6, <3>4 DEF Flat
  <2> QED
    BY <2>1, <2>2
<1>15. ASSUME NEW k \in 1 .. n PROVE ys[k] = xs[k]
  <2>1. k \in 1 .. G[Len(rows)]
    BY <1>4, <1>14
  <2>2. PICK r \in 1 .. Len(rows) : Slot(rows, G, ys, k, r)
    BY <1>6, <2>1, FlatSlots
  <2>3. r \in 1 .. c
    BY <1>4
  <2>4. PICK s \in Nat, e \in Nat : s = StartOf(ids, r) /\ e = StopOf(ids, r) /\ s >= 1
    BY <1>8, <2>3
  <2>5. G[r - 1] = s - 1 /\ rows[r] = Cut(xs, s - 1, e - s) /\ Len(rows[r]) = e - s
    BY <1>8, <1>13, <2>3, <2>4 DEF RunOf
  <2>6. PICK i \in 1 .. e - s : i = k - (s - 1)
    BY <2>2, <2>5 DEF Slot
  <2>7. ys[k] = rows[r][i]
    BY <2>2, <2>5, <2>6 DEF Slot
  <2>8. rows[r][i] = xs[s - 1 + i]
    BY <2>5, <2>6 DEF Cut
  <2>9. s - 1 + i = k
    BY <2>4, <2>6
  <2> QED
    BY <2>7, <2>8, <2>9
<1>16. ys = xs
  BY <1>3, <1>14, <1>15, Filling
<1> QED
  BY <1>2, <1>5, <1>16

-----------------------------------------------------------------------------
(* The step of a call keeps the invariant, when what it leaves agrees with *)
(* its meaning.                                                            *)

(* The families of targets that may part from the meaning.                 *)
LEMMA StraysFacts ==
  /\ Targets = {"c", "llvm", "wasm", "ts", "worker"}
  /\ Llvm = {"llvm", "wasm"} /\ TypeScript = {"ts", "worker"}
  /\ {} # Targets /\ Llvm # Targets /\ TypeScript # Targets /\ {"wasm"} # Targets
  /\ Llvm \cup TypeScript # Targets /\ Llvm \cup {} = Llvm
  /\ TypeScript \cup Llvm # Targets /\ {} \cup Llvm = Llvm
<1>1. "c" \in Targets
  BY DEF Targets
<1> QED
  BY <1>1 DEF Targets, Llvm, TypeScript

(* Outcomes of a kind.                                                     *)
LEMMA Outcomes ==
  ASSUME NEW s \in Kinds
  PROVE  /\ Outcome(s, Dead)
         /\ \A f \in Messages : Outcome(s, Fault(f))
         /\ \A v : Outcome(s, Ok(v)) <=> Holds(s, v)
         /\ \A faultable \in BOOLEAN : Outcome(s, Failure(faultable))
<1>1. "" \in Messages
  BY DEF Messages
<1> QED
  BY <1>1, ResultFacts DEF Outcome, Failure

(* What a call starts from.                                                *)
LEMMA Going ==
  ASSUME IInv, meant.ok, stray = {}
  PROVE  Holds(shape, meant.value) /\ shape \in Kinds /\ \A b \in Targets : In(b) = meant.value
<1>1. Holds(shape, meant.value) /\ meant = Ok(meant.value) /\ shape \in Kinds
  BY DEF IInv, Good, Outcome
<1>2. ASSUME NEW b \in Targets PROVE In(b) = meant.value
  <2>1. Same(value[b], meant)
    BY <1>2, StraysFacts DEF IInv, Good
  <2> QED
    BY <2>1 DEF Same, In
<1> QED
  BY <1>1, <1>2

(* A call of a sequence node, and of a scalar one.                         *)
LEMMA CompiledGood ==
  ASSUME NEW s \in Kinds, NEW m, Outcome(s, m), NEW x, NEW v, NEW c, NEW l, NEW t,
         Same(c, m), "c" \notin x,
         Same(l, m) <=> "llvm" \notin x, "wasm" \in x <=> "llvm" \in x,
         Same(t, m) <=> "ts" \notin x, "worker" \in x <=> "ts" \in x,
         \A b \in Targets : v[b] = Compiled(b, c, l, t)
  PROVE  Good(s, v, m, x)
<1>1. /\ v["c"] = c /\ v["llvm"] = l /\ v["wasm"] = l /\ v["ts"] = t /\ v["worker"] = t
  BY StraysFacts DEF Compiled
<1>2. x # Targets
  BY StraysFacts
<1>3. \A b \in Targets : Same(v[b], m) <=> b \notin x
  BY <1>1, StraysFacts
<1> QED
  BY <1>2, <1>3 DEF Good

(* The same of a scalar call.                                              *)
LEMMA ScalarGood ==
  ASSUME NEW s \in Kinds, NEW m, Outcome(s, m), NEW x, NEW v, NEW c, NEW w, NEW t, NEW k,
         Same(c, m), Same(t, m), Same(k, m), x \subseteq {"wasm"},
         Same(w, m) <=> "wasm" \notin x,
         \A b \in Targets : v[b] = Scalar(b, c, w, t, k)
  PROVE  Good(s, v, m, x)
<1>1. /\ v["c"] = c /\ v["llvm"] = c /\ v["wasm"] = w /\ v["ts"] = t /\ v["worker"] = k
  BY StraysFacts DEF Scalar
<1>2. x # Targets
  BY StraysFacts
<1>3. \A b \in Targets : Same(v[b], m) <=> b \notin x
  BY <1>1, StraysFacts
<1> QED
  BY <1>2, <1>3 DEF Good

(* What a call leaves on the back ends, with what it means and who strays.  *)
Leaves(s, m, x, c, l, t) ==
  /\ s \in Kinds /\ Outcome(s, m)
  /\ Same(c, m) /\ "c" \notin x
  /\ Same(l, m) <=> "llvm" \notin x
  /\ "wasm" \in x <=> "llvm" \in x
  /\ Same(t, m) <=> "ts" \notin x
  /\ "worker" \in x <=> "ts" \in x

(* The results of the targets, apart from the state they become.           *)
Compile(c, l, t) == [b \in Targets |-> Compiled(b, c, l, t)]

(* What a call leaves keeps the invariant.                                 *)
LEMMA CompiledStep ==
  ASSUME NEW s, NEW m, NEW x, NEW c, NEW l, NEW t, Leaves(s, m, x, c, l, t),
         shape' = s, meant' = m, stray' = x, value' = Compile(c, l, t)
  PROVE  IInv'
<1>1. PICK v : v = value' /\ \A b \in Targets : v[b] = Compiled(b, c, l, t)
  BY DEF Compile
<1>2. /\ s \in Kinds /\ Outcome(s, m) /\ Same(c, m) /\ "c" \notin x
      /\ Same(l, m) <=> "llvm" \notin x
      /\ "wasm" \in x <=> "llvm" \in x
      /\ Same(t, m) <=> "ts" \notin x
      /\ "worker" \in x <=> "ts" \in x
  BY DEF Leaves
<1>3. Good(s, v, m, x)
  BY <1>1, <1>2, CompiledGood
<1> QED
  BY <1>1, <1>3 DEF IInv

(* Who strays of a call every target agrees on, or one family does not.    *)
LEMMA Agreed ==
  ASSUME NEW s \in Kinds, NEW m, Outcome(s, m), NEW c, NEW l, NEW t, Same(c, m)
  PROVE  /\ Leaves(s, m, {}, c, l, t) <=> Same(l, m) /\ Same(t, m)
         /\ Leaves(s, m, Llvm, c, l, t) <=> ~Same(l, m) /\ Same(t, m)
         /\ Leaves(s, m, TypeScript, c, l, t) <=> Same(l, m) /\ ~Same(t, m)
         /\ Leaves(s, m, Llvm \cup TypeScript, c, l, t) <=> ~Same(l, m) /\ ~Same(t, m)
         /\ Leaves(s, m, TypeScript \cup Llvm, c, l, t) <=> ~Same(l, m) /\ ~Same(t, m)
<1> QED
  BY StraysFacts DEF Leaves

(* The answer of a node that may fail, in either declaration.              *)
LEMMA Answer ==
  ASSUME NEW faultable \in BOOLEAN, NEW bad \in BOOLEAN, NEW e, NEW m, NEW r,
         m = IF bad THEN Failure(faultable) ELSE Ok(e),
         faultable => Faults(r, bad, e), ~faultable => Aborts(r, bad, e)
  PROVE  Same(r, m)
<1>1. CASE faultable
  <2>1. m = IF bad THEN Failure(TRUE) ELSE Ok(e)
    BY <1>1
  <2> QED
    BY <1>1, <2>1, FaultsFacts
<1>2. CASE ~faultable
  <2>1. m = IF bad THEN Failure(FALSE) ELSE Ok(e)
    BY <1>2
  <2> QED
    BY <1>2, <2>1, FaultsFacts
<1> QED
  BY <1>1, <1>2

(* A sequence over a set is one over any larger set.                       *)
LEMMA WiderSeq ==
  ASSUME NEW S, NEW T, S \subseteq T, NEW xs \in Seq(S)
  PROVE  xs \in Seq(T)
<1>1. PICK n \in Nat : n = Len(xs) /\ xs = [k \in 1 .. n |-> xs[k]] /\ \A k \in 1 .. n : xs[k] \in T
  BY SeqFacts
<1> QED
  BY <1>1, Filled

(* The values the program begins with.                                     *)
LEMMA Starting ==
  ASSUME Init
  PROVE  IInv
<1>1. \A s \in Kinds : \A v : Start(s, v) /\ Holds(s, v) => IInv
  <2> SUFFICES ASSUME NEW s \in Kinds, NEW v, Start(s, v), Holds(s, v) PROVE IInv
    OBVIOUS
  <2>1. shape = s /\ meant = Ok(v) /\ stray = {} /\ \A b \in Targets : value[b] = Ok(v)
    BY DEF Start
  <2>2. Outcome(s, meant)
    BY <2>1, Outcomes
  <2>3. \A b \in Targets : Same(value[b], meant)
    BY <2>1, SameFacts
  <2> QED
    BY <2>1, <2>2, <2>3, StraysFacts DEF IInv, Good
<1>2. {"int", "float", "seq", "rows", "items"} \subseteq Kinds
  BY DEF Kinds
<1>3. ASSUME NEW S, NEW n \in Nat, NEW v \in SeqsOf(S, n)
      PROVE  v \in Seq(S) /\ Len(v) <= n /\ DOMAIN v = 1 .. Len(v)
  <2>1. PICK k \in 0 .. n : v \in [1 .. k -> S]
    BY <1>3 DEF SeqsOf
  <2>2. k \in Nat /\ v = [j \in 1 .. k |-> v[j]] /\ \A j \in 1 .. k : v[j] \in S
    BY <2>1
  <2>3. v \in Seq(S) /\ Len(v) = k
    BY <2>2, Filled
  <2> QED
    BY <2>1, <2>3
<1>4. /\ MaxLen \in Nat /\ MaxRow \in Nat /\ Bits \subseteq Ints /\ MaxRow \in Ints
  BY LibraryBounds
<1>5. CASE \E v \in Ints : Start("int", v)
  BY <1>1, <1>2, <1>5 DEF Holds
<1>6. CASE \E v \in Floats : Start("float", v)
  BY <1>1, <1>2, <1>6 DEF Holds
<1>7. CASE \E v \in ItemSeqs : Start("seq", v)
  <2>1. PICK v \in ItemSeqs : Start("seq", v)
    BY <1>7
  <2>2. v \in Seq(Bits) /\ Len(v) <= MaxLen
    BY <1>3, <1>4 DEF ItemSeqs
  <2>3. v \in Seq(Ints)
    BY <1>4, <2>2, WiderSeq
  <2> QED
    BY <1>1, <1>2, <2>1, <2>2, <2>3 DEF Holds
<1>8. CASE \E v \in SeqsOf(SeqsOf(Bits, MaxRow), MaxLen) : Start("rows", v)
  <2>1. PICK v \in SeqsOf(SeqsOf(Bits, MaxRow), MaxLen) : Start("rows", v)
    BY <1>8
  <2>2. PICK R : R = SeqsOf(Bits, MaxRow)
    OBVIOUS
  <2>3. v \in Seq(R) /\ Len(v) <= MaxLen /\ DOMAIN v = 1 .. Len(v)
    BY <1>3, <1>4, <2>2
  <2>4. \A w \in R : w \in Seq(Ints) /\ Len(w) \in Ints
    <3> SUFFICES ASSUME NEW w \in R PROVE w \in Seq(Ints) /\ Len(w) \in Ints
      OBVIOUS
    <3>1. w \in Seq(Bits) /\ Len(w) <= MaxRow
      BY <1>3, <1>4, <2>2
    <3>2. w \in Seq(Ints) /\ Len(w) \in Nat
      BY <1>4, <3>1, SeqFacts, WiderSeq
    <3> QED
      BY <1>4, <3>1, <3>2, IntsFacts
  <2>5. \A r \in DOMAIN v : v[r] \in R
    BY <2>3
  <2>6. v \in Seq(Seq(Ints))
    <3>1. PICK Q : Q = Seq(Ints)
      OBVIOUS
    <3>2. v \in Seq(Q)
      <4>1. R \subseteq Q
        BY <2>4, <3>1
      <4> QED
        BY <2>3, <4>1
    <3> QED
      BY <3>1, <3>2
  <2>7. \A r \in DOMAIN v : Len(v[r]) \in Ints
    BY <2>4, <2>5
  <2> QED
    BY <1>1, <1>2, <2>1, <2>3, <2>6, <2>7 DEF Holds
<1>9. CASE \E v \in SeqsOf(Faultables, MaxLen) : Start("items", v)
  <2>1. PICK v \in SeqsOf(Faultables, MaxLen) : Start("items", v)
    BY <1>9
  <2>2. v \in Seq(Faultables)
    BY <1>3, <1>4
  <2> QED
    BY <1>1, <1>2, <2>1, <2>2 DEF Holds
<1> QED
  BY <1>5, <1>6, <1>7, <1>8, <1>9 DEF Init

-----------------------------------------------------------------------------
(* One lemma for each action: the nodes of the call, on every target, and  *)
(* what they leave.                                                        *)

(* Integer arithmetic keeps the invariant, in both declarations of a node. *)
LEMMA IntBinaryStep ==
  ASSUME IInv, IntBinary
  PROVE  IInv'
<1>1. PICK op \in Overflowing \cup Dividing, y \in Ints, faultable \in BOOLEAN :
        /\ shape' = "int" /\ stray' = {}
        /\ meant' = IF Bad(op, meant.value, y) THEN Failure(faultable)
                    ELSE Ok(Exact(op, meant.value, y))
        /\ value' = [b \in Targets |->
             IF faultable
             THEN Scalar(b, CFaultable(op, In(b), y), WasmFaultable(op, In(b), y),
                         TsFaultable(op, In(b), y), WorkerFaultable(op, In(b), y))
             ELSE Scalar(b, CChecked(op, In(b), y), WasmChecked(op, In(b), y),
                         TsChecked(op, In(b), y), WorkerChecked(op, In(b), y))]
  BY DEF IntBinary, Result, Bad
<1>2. PICK x \in Ints : x = meant.value /\ \A b \in Targets : In(b) = x
  BY Going DEF IntBinary, On, Holds
<1>3. PICK c, w, t, k :
        /\ c = IF faultable THEN CFaultable(op, x, y) ELSE CChecked(op, x, y)
        /\ w = IF faultable THEN WasmFaultable(op, x, y) ELSE WasmChecked(op, x, y)
        /\ t = IF faultable THEN TsFaultable(op, x, y) ELSE TsChecked(op, x, y)
        /\ k = IF faultable THEN WorkerFaultable(op, x, y) ELSE WorkerChecked(op, x, y)
  OBVIOUS
<1>4. \A b \in Targets : value'[b] = Scalar(b, c, w, t, k)
  BY <1>1, <1>2, <1>3
<1>5. PICK bad, e : bad \in BOOLEAN /\ (bad <=> Bad(op, x, y)) /\ e = Exact(op, x, y)
  OBVIOUS
<1>6. PICK m : m = meant' /\ m = IF bad THEN Failure(faultable) ELSE Ok(e)
  BY <1>1, <1>2, <1>5
<1>7. Same(c, m) /\ Same(w, m) /\ Same(t, m) /\ Same(k, m)
  <2>1. faultable => Faults(c, bad, e) /\ Faults(w, bad, e) /\ Faults(t, bad, e) /\ Faults(k, bad, e)
    BY <1>3, <1>5, FaultableNodes DEF Faults
  <2>2. ~faultable => Aborts(c, bad, e) /\ Aborts(w, bad, e) /\ Aborts(t, bad, e) /\ Aborts(k, bad, e)
    BY <1>3, <1>5, CheckedNodes DEF Aborts
  <2> QED
    BY <1>5, <1>6, <2>1, <2>2, Answer
<1>8. "int" \in Kinds /\ Outcome("int", m)
  <2>1. "int" \in Kinds
    BY DEF Kinds
  <2>2. ~bad => Holds("int", e)
    BY <1>5, ExactFacts DEF Holds
  <2> QED
    BY <1>6, <2>1, <2>2, Outcomes
<1>9. PICK v : v = value' /\ \A b \in Targets : v[b] = Scalar(b, c, w, t, k)
  BY <1>4
<1>10. Good("int", v, m, {})
  BY <1>7, <1>8, <1>9, ScalarGood
<1> QED
  BY <1>1, <1>6, <1>9, <1>10 DEF IInv

(* Negation and magnitude of an integer keep the invariant.                *)
LEMMA IntUnaryStep ==
  ASSUME IInv, IntUnary
  PROVE  IInv'
<1>1. PICK op \in {"neg", "abs"}, faultable \in BOOLEAN :
        /\ shape' = "int" /\ stray' = {}
        /\ meant' = IF meant.value = IntMin THEN Failure(faultable)
                    ELSE Ok(IF op = "abs" THEN Magnitude(meant.value) ELSE -meant.value)
        /\ value' = [b \in Targets |->
             IF faultable
             THEN Scalar(b, CFaultableUnary(op, In(b)), WasmFaultableUnary(op, In(b)),
                         TsFaultableUnary(op, In(b)), TsFaultableUnary(op, In(b)))
             ELSE Scalar(b, CCheckedUnary(op, In(b)), WasmCheckedUnary(op, In(b)),
                         TsCheckedUnary(op, In(b)), WorkerCheckedUnary(op, In(b)))]
  BY DEF IntUnary, Result
<1>2. PICK x \in Ints : x = meant.value /\ \A b \in Targets : In(b) = x
  BY Going DEF IntUnary, On, Holds
<1>3. PICK c, w, t, k :
        /\ c = IF faultable THEN CFaultableUnary(op, x) ELSE CCheckedUnary(op, x)
        /\ w = IF faultable THEN WasmFaultableUnary(op, x) ELSE WasmCheckedUnary(op, x)
        /\ t = IF faultable THEN TsFaultableUnary(op, x) ELSE TsCheckedUnary(op, x)
        /\ k = IF faultable THEN TsFaultableUnary(op, x) ELSE WorkerCheckedUnary(op, x)
  OBVIOUS
<1>4. \A b \in Targets : value'[b] = Scalar(b, c, w, t, k)
  BY <1>1, <1>2, <1>3
<1>5. PICK bad, e : bad \in BOOLEAN /\ (bad <=> x = IntMin) /\ e = Unary(op, x)
  OBVIOUS
<1>6. PICK m : m = meant' /\ m = IF bad THEN Failure(faultable) ELSE Ok(e)
  BY <1>1, <1>2, <1>5, UnaryNodes
<1>7. Same(c, m) /\ Same(w, m) /\ Same(t, m) /\ Same(k, m)
  <2>1. faultable => Faults(c, bad, e) /\ Faults(w, bad, e) /\ Faults(t, bad, e) /\ Faults(k, bad, e)
    BY <1>3, <1>5, UnaryNodes DEF Faults
  <2>2. ~faultable => Aborts(c, bad, e) /\ Aborts(w, bad, e) /\ Aborts(t, bad, e) /\ Aborts(k, bad, e)
    BY <1>3, <1>5, UnaryNodes DEF Aborts
  <2> QED
    BY <1>5, <1>6, <2>1, <2>2, Answer
<1>8. "int" \in Kinds /\ Outcome("int", m)
  <2>1. "int" \in Kinds
    BY DEF Kinds
  <2>2. ~bad => Holds("int", e)
    BY <1>5, UnaryNodes DEF Holds
  <2> QED
    BY <1>6, <2>1, <2>2, Outcomes
<1>9. PICK v : v = value' /\ \A b \in Targets : v[b] = Scalar(b, c, w, t, k)
  BY <1>4
<1>10. Good("int", v, m, {})
  BY <1>7, <1>8, <1>9, ScalarGood
<1> QED
  BY <1>1, <1>6, <1>9, <1>10 DEF IInv

(* Least and greatest of integers keep the invariant.                      *)
LEMMA IntMinMaxStep ==
  ASSUME IInv, IntMinMax
  PROVE  IInv'
<1>1. PICK least \in BOOLEAN, y \in Ints :
        /\ shape' = "int" /\ stray' = {}
        /\ meant' = Ok(CHOOSE m \in {meant.value, y} : \A o \in {meant.value, y} :
                         IF least THEN m <= o ELSE m >= o)
        /\ value' = [b \in Targets |->
             IF least THEN Compiled(b, CMin(In(b), y), CMin(In(b), y), TsMin(In(b), y))
             ELSE Compiled(b, CMax(In(b), y), CMax(In(b), y), TsMax(In(b), y))]
  BY DEF IntMinMax, Result
<1>2. PICK x \in Ints : x = meant.value /\ \A b \in Targets : In(b) = x
  BY Going DEF IntMinMax, On, Holds
<1>3. PICK c : c = IF least THEN CMin(x, y) ELSE CMax(x, y)
  OBVIOUS
<1>4. \A b \in Targets : value'[b] = Compiled(b, c, c, c)
  BY <1>1, <1>2, <1>3, MinMaxNodes
<1>5. c = meant'
  <2>1. CASE least
    <3>1. meant' = Ok(CHOOSE m \in {x, y} : \A o \in {x, y} : m <= o)
      BY <1>1, <1>2, <2>1
    <3> QED
      BY <1>3, <2>1, <3>1, MinMaxNodes
  <2>2. CASE ~least
    <3>1. meant' = Ok(CHOOSE m \in {x, y} : \A o \in {x, y} : m >= o)
      BY <1>1, <1>2, <2>2
    <3> QED
      BY <1>3, <2>2, <3>1, MinMaxNodes
  <2> QED
    BY <2>1, <2>2
<1>6. PICK e \in Ints : c = Ok(e)
  BY <1>3, MinMaxNodes, ResultFacts DEF CMin, CMax
<1>7. "int" \in Kinds /\ Outcome("int", c) /\ Same(c, c)
  <2>1. "int" \in Kinds /\ Holds("int", e)
    BY DEF Kinds, Holds
  <2> QED
    BY <1>6, <2>1, Outcomes, SameFacts
<1>8. PICK v : v = value' /\ \A b \in Targets : v[b] = Compiled(b, c, c, c)
  BY <1>4
<1>9. Good("int", v, c, {})
  BY <1>7, <1>8, CompiledGood
<1> QED
  BY <1>1, <1>5, <1>8, <1>9 DEF IInv

(* A shift by a count within the register keeps the invariant.             *)
LEMMA ShiftStep ==
  ASSUME IInv, Shift
  PROVE  IInv'
<1>1. PICK n \in 0 .. Width - 1 :
        /\ shape' = "int"
        /\ \/ /\ meant' = CShiftRightBits(meant.value, n)
              /\ stray' = IF meant.value < 0 /\ n > 0 THEN Llvm ELSE {}
              /\ value' = [b \in Targets |->
                   Compiled(b, CShiftRightBits(In(b), n), LlvmShiftRightBits(In(b), n),
                            TsShiftRightBits(In(b), n))]
           \/ /\ meant' = CShiftLeftBits(meant.value, n)
              /\ stray' = IF meant.value * Power[n] \notin Ints THEN TypeScript ELSE {}
              /\ value' = [b \in Targets |->
                   Compiled(b, CShiftLeftBits(In(b), n), LlvmShiftLeftBits(In(b), n),
                            TsShiftLeftBits(In(b), n))]
  BY DEF Shift, Result
<1>2. PICK x \in Ints : x = meant.value /\ \A b \in Targets : In(b) = x
  BY Going DEF Shift, On, Holds
<1>3. "int" \in Kinds /\ \A e \in Ints : Outcome("int", Ok(e))
  <2>1. "int" \in Kinds /\ \A e \in Ints : Holds("int", e)
    BY DEF Kinds, Holds
  <2> QED
    BY <2>1, Outcomes
<1>4. CASE /\ meant' = CShiftRightBits(meant.value, n)
           /\ stray' = IF meant.value < 0 /\ n > 0 THEN Llvm ELSE {}
           /\ value' = [b \in Targets |->
                   Compiled(b, CShiftRightBits(In(b), n), LlvmShiftRightBits(In(b), n),
                            TsShiftRightBits(In(b), n))]
  <2>1. PICK m, l, t : /\ m = CShiftRightBits(x, n) /\ l = LlvmShiftRightBits(x, n)
                       /\ t = TsShiftRightBits(x, n)
    OBVIOUS
  <2>2. PICK e \in Ints : m = Ok(e)
    BY <2>1, ShiftNodes
  <2>3. PICK f : l = Ok(f) /\ (m = Ok(f) <=> ~(x < 0 /\ n > 0))
    BY <2>1, ShiftNodes
  <2>4. t = m
    BY <2>1, ShiftNodes
  <2>5. Same(m, m) /\ Same(t, m) /\ (Same(l, m) <=> ~(x < 0 /\ n > 0))
    BY <2>2, <2>3, <2>4, SameFacts, OkIsOne
  <2>6. PICK z : z = stray' /\ z = IF x < 0 /\ n > 0 THEN Llvm ELSE {}
    BY <1>2, <1>4
  <2>7. /\ "c" \notin z /\ "ts" \notin z /\ "worker" \notin z
        /\ "llvm" \notin z <=> ~(x < 0 /\ n > 0)
        /\ "wasm" \in z <=> "llvm" \in z
    BY <2>6, StraysFacts
  <2>8. meant' = m /\ value' = Compile(m, l, t)
    BY <1>2, <1>4, <2>1 DEF Compile
  <2>9. Outcome("int", m)
    BY <1>3, <2>2
  <2>10. Leaves("int", m, z, m, l, t)
    BY <1>3, <2>5, <2>7, <2>9 DEF Leaves
  <2> QED
    BY <1>1, <2>6, <2>8, <2>10, CompiledStep
<1>5. CASE /\ meant' = CShiftLeftBits(meant.value, n)
           /\ stray' = IF meant.value * Power[n] \notin Ints THEN TypeScript ELSE {}
           /\ value' = [b \in Targets |->
                   Compiled(b, CShiftLeftBits(In(b), n), LlvmShiftLeftBits(In(b), n),
                            TsShiftLeftBits(In(b), n))]
  <2>1. PICK m, l, t : /\ m = CShiftLeftBits(x, n) /\ l = LlvmShiftLeftBits(x, n)
                       /\ t = TsShiftLeftBits(x, n)
    OBVIOUS
  <2>2. PICK e \in Ints : m = Ok(e)
    BY <2>1, ShiftNodes, SMTT(30)
  <2>3. PICK f : t = Ok(f) /\ (m = Ok(f) <=> x * Power[n] \in Ints)
    BY <2>1, ShiftNodes
  <2>4. l = m
    BY <2>1, ShiftNodes
  <2>5. Same(m, m) /\ Same(l, m) /\ (Same(t, m) <=> x * Power[n] \in Ints)
    BY <2>2, <2>3, <2>4, SameFacts, OkIsOne
  <2>6. PICK z : z = stray' /\ z = IF x * Power[n] \notin Ints THEN TypeScript ELSE {}
    BY <1>2, <1>5
  <2>7. /\ "c" \notin z /\ "llvm" \notin z /\ "wasm" \notin z
        /\ "ts" \notin z <=> x * Power[n] \in Ints
        /\ "worker" \in z <=> "ts" \in z
    BY <2>6, StraysFacts
  <2>8. meant' = m /\ value' = Compile(m, l, t)
    BY <1>2, <1>5, <2>1 DEF Compile
  <2>9. Outcome("int", m)
    BY <1>3, <2>2
  <2>10. Leaves("int", m, z, m, l, t)
    BY <1>3, <2>5, <2>7, <2>9 DEF Leaves
  <2> QED
    BY <1>1, <2>6, <2>8, <2>10, CompiledStep
<1> QED
  BY <1>1, <1>4, <1>5

(* A shift by a count outside the register keeps the invariant.            *)
LEMMA UndefinedShiftStep ==
  ASSUME IInv, UndefinedShift
  PROVE  IInv'
<1>1. PICK any \in Ints : shape' = "int" /\ stray' = Targets /\ meant' = Ok(any)
  BY DEF UndefinedShift, Result
<1>2. "int" \in Kinds /\ Outcome("int", Ok(any))
  <2>1. "int" \in Kinds /\ Holds("int", any)
    BY DEF Kinds, Holds
  <2> QED
    BY <2>1, Outcomes
<1>3. PICK v : v = value'
  OBVIOUS
<1>4. Good("int", v, Ok(any), Targets)
  BY <1>2 DEF Good
<1> QED
  BY <1>1, <1>3, <1>4 DEF IInv

(* A comparison of integers keeps the invariant.                           *)
LEMMA ComparisonStep ==
  ASSUME IInv, Comparison
  PROVE  IInv'
<1>1. PICK op, y :
        /\ shape' = "bit" /\ stray' = {} /\ meant' = Compare(op, meant.value, y)
        /\ value' = [b \in Targets |-> Compare(op, In(b), y)]
  BY DEF Comparison, Result
<1>2. PICK x : x = meant.value /\ \A b \in Targets : In(b) = x
  BY Going DEF Comparison, On
<1>3. PICK m : m = Compare(op, x, y)
  OBVIOUS
<1>4. PICK e : m = Ok(e)
  BY <1>3 DEF Compare
<1>5. "bit" \in Kinds /\ Outcome("bit", m) /\ Same(m, m)
  <2>1. "bit" \in Kinds /\ Holds("bit", e)
    BY DEF Kinds, Holds
  <2> QED
    BY <1>4, <2>1, Outcomes, SameFacts
<1>6. value' = Compile(m, m, m)
  BY <1>1, <1>2, <1>3 DEF Compile, Compiled
<1>7. meant' = m
  BY <1>1, <1>2, <1>3
<1>8. Leaves("bit", m, {}, m, m, m)
  BY <1>5, Agreed
<1> QED
  BY <1>1, <1>6, <1>7, <1>8, CompiledStep

(* fill keeps the invariant.                                               *)
LEMMA FillStep ==
  ASSUME IInv, Fill
  PROVE  IInv'
<1>1. PICK n \in Counts :
        /\ shape' = "seq"
        /\ meant' = IF n < 0 THEN Dead ELSE Ok([k \in 1 .. n |-> meant.value])
        /\ value' = [b \in Targets |->
             Compiled(b, CFill(In(b), n), LlvmFill(In(b), n), TsFill(In(b), n))]
        /\ stray' = IF n >= 0 /\ (n = meant.value \/ (n = 0 /\ meant.value < 0)) THEN {}
                    ELSE TypeScript
        /\ meant'.ok => Len(meant'.value) <= MaxLen
  BY DEF Fill, Result
<1>2. PICK x \in Ints : x = meant.value /\ \A b \in Targets : In(b) = x
  BY Going DEF Fill, On, Holds
<1>3. x \in Int /\ n \in Int
  <2>1. Counts \subseteq Int
    BY LibraryBounds DEF Counts
  <2> QED
    BY <2>1, IntsFacts
<1>4. PICK m, c, l, t, z :
        /\ m = meant' /\ c = CFill(x, n) /\ l = LlvmFill(x, n) /\ t = TsFill(x, n)
        /\ z = stray'
  OBVIOUS
<1>5. value' = Compile(c, l, t)
  BY <1>1, <1>2, <1>4 DEF Compile
<1>6. z = IF n >= 0 /\ (n = x \/ (n = 0 /\ x < 0)) THEN {} ELSE TypeScript
  BY <1>1, <1>2, <1>4
<1>7. /\ "c" \notin z /\ "llvm" \notin z /\ "wasm" \notin z
      /\ "ts" \notin z <=> n >= 0 /\ (n = x \/ (n = 0 /\ x < 0))
      /\ "worker" \in z <=> "ts" \in z
  BY <1>6, StraysFacts
<1>8. "seq" \in Kinds
  BY DEF Kinds
<1>9. PICK u : t = Ok(u) /\ u = IF x < 0 THEN <<>> ELSE [k \in 1 .. x |-> n]
  BY <1>4 DEF TsFill
<1>10. ASSUME n < 0 PROVE Leaves("seq", m, z, c, l, t)
  <2>1. m = Dead /\ c = Dead /\ l = Dead
    BY <1>1, <1>4, <1>10 DEF CFill, LlvmFill, DieIf
  <2>2. Outcome("seq", m) /\ Same(c, m) /\ Same(l, m) /\ ~Same(t, m)
    BY <1>8, <1>9, <2>1, Outcomes, SameFacts
  <2>3. "ts" \in z
    BY <1>3, <1>7, <1>10
  <2> QED
    BY <1>7, <1>8, <2>2, <2>3 DEF Leaves
<1>11. ASSUME ~(n < 0) PROVE Leaves("seq", m, z, c, l, t)
  <2>1. n \in Nat
    BY <1>3, <1>11
  <2>2. PICK ys \in Seq(Ints) : /\ ys = [k \in 1 .. n |-> x] /\ Len(ys) = n
                                /\ c = Ok(ys) /\ l = Ok(ys)
    BY <1>4, <2>1, FillNodes
  <2>3. m = Ok(ys)
    BY <1>1, <1>2, <1>4, <1>11, <2>2
  <2>4. Len(ys) <= MaxLen
    BY <1>1, <1>4, <2>3, ResultFacts
  <2>5. Outcome("seq", m)
    BY <1>8, <2>3, <2>4, Outcomes DEF Holds
  <2>6. u = ys <=> n = x \/ (n = 0 /\ x < 0)
    <3>1. CASE x < 0
      <4>1. u = <<>> /\ n # x
        BY <1>9, <2>1, <3>1
      <4>2. ys = <<>> <=> n = 0
        BY <2>2, SeqFacts
      <4> QED
        BY <3>1, <4>1, <4>2
    <3>2. CASE ~(x < 0)
      <4>1. u = [k \in 1 .. x |-> n] /\ x \in Nat
        BY <1>3, <1>9, <3>2
      <4>2. u \in Seq(Int) /\ Len(u) = x
        <5>1. u = [k \in 1 .. x |-> u[k]] /\ \A k \in 1 .. x : u[k] \in Int
          BY <1>3, <4>1
        <5> QED
          BY <4>1, <5>1, Filled
      <4>3. u = ys => n = x
        BY <2>2, <4>2
      <4>4. n = x => u = ys
        BY <2>2, <4>1
      <4> QED
        BY <3>2, <4>3, <4>4
    <3> QED
      BY <3>1, <3>2
  <2>7. Same(c, m) /\ Same(l, m) /\ (Same(t, m) <=> u = ys)
    BY <1>9, <2>2, <2>3, SameFacts
  <2>8. Same(t, m) <=> "ts" \notin z
    BY <1>3, <1>7, <1>11, <2>6, <2>7
  <2> QED
    BY <1>7, <1>8, <2>2, <2>5, <2>7, <2>8 DEF Leaves
<1>12. shape' = "seq" /\ meant' = m /\ stray' = z
  BY <1>1, <1>4
<1> QED
  BY <1>5, <1>10, <1>11, <1>12, CompiledStep

(* A range with a step, whatever makes it abort, keeps the invariant.       *)
LEMMA RangeStepStep ==
  ASSUME IInv, RangeStep
  PROVE  IInv'
<1>1. PICK stop, step, n :
        /\ stop \in Ints /\ step \in Ints
        /\ n = StepsTaken(meant.value, stop, step)
        /\ shape' = "seq" /\ stray' = {}
        /\ meant' = IF step = 0 THEN Dead
                    ELSE Ok([k \in 1 .. n |-> meant.value + (k - 1) * step])
        /\ value' = [b \in Targets |->
               Compiled(b, CRangeStep(In(b), stop, step), LlvmRangeStep(In(b), stop, step),
                        TsRangeStep(In(b), stop, step))]
        /\ meant'.ok => Len(meant'.value) <= MaxLen
  <2>1. PICK stop \in Ints, step \in Ints :
          \E n :
            /\ n = StepsTaken(meant.value, stop, step)
            /\ shape' = "seq" /\ stray' = {}
            /\ meant' = IF step = 0 THEN Dead
                        ELSE Ok([k \in 1 .. n |-> meant.value + (k - 1) * step])
            /\ value' = [b \in Targets |->
                   Compiled(b, CRangeStep(In(b), stop, step), LlvmRangeStep(In(b), stop, step),
                            TsRangeStep(In(b), stop, step))]
            /\ meant'.ok => Len(meant'.value) <= MaxLen
    BY ZenonT(60) DEF RangeStep, Result, StepsTaken
  <2> QED
    BY <2>1
<1>2. PICK x \in Ints : x = meant.value /\ \A b \in Targets : In(b) = x
  BY Going DEF RangeStep, On, Holds
<1>3. PICK m, c, l, t :
        /\ m = meant' /\ c = CRangeStep(x, stop, step) /\ l = LlvmRangeStep(x, stop, step)
        /\ t = TsRangeStep(x, stop, step)
  OBVIOUS
<1>4. value' = Compile(c, l, t)
  BY <1>1, <1>2, <1>3 DEF Compile
<1>5. "seq" \in Kinds
  BY DEF Kinds
<1>6. ASSUME step = 0 PROVE Leaves("seq", m, {}, c, l, t)
  <2>1. m = Dead /\ c = Dead /\ l = Dead /\ t = Dead
    BY <1>1, <1>3, <1>6 DEF CRangeStep, LlvmRangeStep, TsRangeStep
  <2>2. Outcome("seq", m) /\ Same(c, m) /\ Same(l, m) /\ Same(t, m)
    BY <1>5, <2>1, Outcomes, SameFacts
  <2> QED
    BY <1>5, <2>2, Agreed
<1>7. ASSUME step # 0 PROVE Leaves("seq", m, {}, c, l, t)
  <2>1. n = StepsTaken(x, stop, step)
    BY <1>1, <1>2
  <2>2. PICK ys \in Seq(Ints) : /\ ys = [k \in 1 .. n |-> x + (k - 1) * step]
                                /\ c = Ok(ys) /\ l = Ok(ys) /\ t = Ok(ys)
    BY <1>1, <1>3, <1>7, <2>1, RangeStepNodes, SMTT(30)
  <2>3. m = Ok(ys)
    BY <1>1, <1>2, <1>3, <1>7, <2>2
  <2>4. Len(ys) <= MaxLen
    BY <1>1, <1>3, <2>3, ResultFacts
  <2>5. Outcome("seq", m)
    BY <1>5, <2>3, <2>4, Outcomes DEF Holds
  <2>6. Same(c, m) /\ Same(l, m) /\ Same(t, m)
    BY <2>2, <2>3, SameFacts
  <2> QED
    BY <1>5, <2>5, <2>6, Agreed
<1>8. shape' = "seq" /\ meant' = m /\ stray' = {}
  BY <1>1, <1>3
<1> QED
  BY <1>4, <1>6, <1>7, <1>8, CompiledStep

(* A call on a sequence starts from the same one on every target.          *)
LEMMA GoingSeq ==
  ASSUME IInv, On("seq")
  PROVE  \E xs \in Seq(Ints) : /\ xs = meant.value /\ Len(xs) <= MaxLen
                               /\ \A b \in Targets : In(b) = xs
<1>1. Holds("seq", meant.value) /\ \A b \in Targets : In(b) = meant.value
  BY Going DEF On
<1> QED
  BY <1>1 DEF Holds

(* A call on rows starts from the same ones on every target.               *)
LEMMA GoingRows ==
  ASSUME IInv, On("rows")
  PROVE  \E rows \in Seq(Seq(Ints)) :
           /\ rows = meant.value /\ Len(rows) <= MaxLen
           /\ \A r \in DOMAIN rows : Len(rows[r]) \in Ints
           /\ \A b \in Targets : In(b) = rows
<1>1. Holds("rows", meant.value) /\ \A b \in Targets : In(b) = meant.value
  BY Going DEF On
<1> QED
  BY <1>1 DEF Holds

(* A call on a float starts from the same one on every target.             *)
LEMMA GoingFloat ==
  ASSUME IInv, On("float")
  PROVE  \E x \in Floats : x = meant.value /\ \A b \in Targets : In(b) = x
<1>1. Holds("float", meant.value) /\ \A b \in Targets : In(b) = meant.value
  BY Going DEF On
<1> QED
  BY <1>1 DEF Holds

(* The values of each kind that a call may leave.                          *)
LEMMA KindFacts ==
  /\ {"int", "float", "bit", "seq", "rows", "pairs", "items"} = Kinds
  /\ \A v : Outcome("int", Ok(v)) <=> v \in Ints
  /\ \A v : Outcome("float", Ok(v)) <=> v \in Floats
  /\ \A v : Outcome("bit", Ok(v))
  /\ \A v : Outcome("pairs", Ok(v))
  /\ \A v \in Seq(Ints) : Len(v) <= MaxLen => Outcome("seq", Ok(v))
  /\ \A s \in Kinds : Outcome(s, Dead) /\ \A f \in Messages : Outcome(s, Fault(f))
<1>1. {"int", "float", "bit", "seq", "rows", "pairs", "items"} = Kinds
  BY DEF Kinds
<1>2. \A s \in Kinds : \A v : Outcome(s, Ok(v)) <=> Holds(s, v)
  BY Outcomes
<1>3. /\ \A v : Holds("int", v) <=> v \in Ints
      /\ \A v : Holds("float", v) <=> v \in Floats
      /\ \A v : Holds("bit", v) /\ Holds("pairs", v)
      /\ \A v \in Seq(Ints) : Len(v) <= MaxLen => Holds("seq", v)
  BY DEF Holds
<1> QED
  BY <1>1, <1>2, <1>3, Outcomes

(* What every target leaves alike.                                         *)
LEMMA AllAlike ==
  ASSUME NEW s \in Kinds, NEW m, Outcome(s, m), Same(m, m)
  PROVE  Leaves(s, m, {}, m, m, m)
BY Agreed

(* Every target answers with the same value of the kind, ...               *)
LEMMA AllOk ==
  ASSUME NEW s \in Kinds, NEW v, Outcome(s, Ok(v))
  PROVE  Leaves(s, Ok(v), {}, Ok(v), Ok(v), Ok(v))
<1>1. Same(Ok(v), Ok(v))
  BY SameFacts
<1> QED
  BY <1>1, AllAlike

(* ... or every target aborts.                                             *)
LEMMA AllDead ==
  ASSUME NEW s \in Kinds
  PROVE  Leaves(s, Dead, {}, Dead, Dead, Dead)
BY AllAlike, Outcomes, SameFacts

(* The items and counts a call is given.                                   *)
LEMMA GivenFacts ==
  /\ Bits \subseteq Ints /\ Counts \subseteq Int /\ MaxLen \in Nat /\ {0, MaxLen} \subseteq Ints
  /\ "" \in Messages
  /\ \A ys \in ItemSeqs : ys \in Seq(Ints) /\ Len(ys) \in Nat /\ DOMAIN ys = 1 .. Len(ys)
<1>1. Bits \subseteq Ints /\ MaxLen \in Nat /\ {0, MaxLen} \subseteq Ints
  BY LibraryBounds DEF Bits
<1>2. Counts \subseteq Int
  BY <1>1 DEF Counts
<1>3. "" \in Messages
  BY DEF Messages
<1>4. ASSUME NEW ys \in ItemSeqs
      PROVE  ys \in Seq(Ints) /\ Len(ys) \in Nat /\ DOMAIN ys = 1 .. Len(ys)
  <2>1. PICK k \in 0 .. MaxLen : ys \in [1 .. k -> Bits]
    BY <1>4 DEF ItemSeqs, SeqsOf
  <2>2. k \in Nat /\ ys = [j \in 1 .. k |-> ys[j]] /\ \A j \in 1 .. k : ys[j] \in Ints
    BY <1>1, <2>1
  <2>3. ys \in Seq(Ints) /\ Len(ys) = k
    BY <2>2, Filled
  <2> QED
    BY <2>1, <2>2, <2>3
<1> QED
  BY <1>1, <1>2, <1>3, <1>4

(* head and last keep the invariant.                                       *)
LEMMA HeadOrLastStep ==
  ASSUME IInv, HeadOrLast
  PROVE  IInv'
<1>1. PICK xs \in Seq(Ints) : xs = meant.value /\ \A b \in Targets : In(b) = xs
  BY GoingSeq DEF HeadOrLast
<1>2. shape' = "int" /\ stray' = {}
  BY DEF HeadOrLast, Result
<1>3. \E m, c, l, t :
        /\ meant' = m /\ value' = Compile(c, l, t)
        /\ \/ /\ m = IF xs = <<>> THEN Fault("") ELSE Ok(Head(xs))
              /\ c = CHead(xs) /\ l = LlvmHead(xs) /\ t = TsHead(xs)
           \/ /\ m = IF xs = <<>> THEN Fault("") ELSE Ok(Seqs!Last(xs))
              /\ c = CLast(xs) /\ l = LlvmLast(xs) /\ t = TsLast(xs)
  BY <1>1 DEF HeadOrLast, Result, Compile
<1>4. PICK m, c, l, t :
        /\ meant' = m /\ value' = Compile(c, l, t)
        /\ \/ /\ m = IF xs = <<>> THEN Fault("") ELSE Ok(Head(xs))
              /\ c = CHead(xs) /\ l = LlvmHead(xs) /\ t = TsHead(xs)
           \/ /\ m = IF xs = <<>> THEN Fault("") ELSE Ok(Seqs!Last(xs))
              /\ c = CLast(xs) /\ l = LlvmLast(xs) /\ t = TsLast(xs)
  BY <1>3
<1>5. Leaves("int", m, {}, c, l, t)
  <2>1. CASE xs = <<>>
    <3>1. m = Fault("") /\ c = Fault("empty") /\ l = Fault("empty") /\ t = Fault("empty")
      BY <1>4, <2>1, HeadNodes
    <3>2. "empty" \in Messages /\ "" \in Messages
      BY DEF Messages
    <3>3. Outcome("int", m) /\ Same(c, m) /\ Same(l, m) /\ Same(t, m)
      BY <3>1, <3>2, KindFacts, SameFacts
    <3> QED
      BY <3>3, Agreed, KindFacts
  <2>2. CASE xs # <<>>
    <3>1. \E v \in Ints : m = Ok(v) /\ c = Ok(v) /\ l = Ok(v) /\ t = Ok(v)
      BY <1>4, <2>2, HeadNodes
    <3> QED
      BY <3>1, AllOk, KindFacts
  <2> QED
    BY <2>1, <2>2
<1> QED
  BY <1>2, <1>4, <1>5, CompiledStep

(* tail and reverse keep the invariant.                                    *)
LEMMA TailOrReverseStep ==
  ASSUME IInv, TailOrReverse
  PROVE  IInv'
<1>1. PICK xs \in Seq(Ints) : xs = meant.value /\ \A b \in Targets : In(b) = xs
  BY GoingSeq DEF TailOrReverse
<1>2. shape' = "seq" /\ stray' = {}
  BY DEF TailOrReverse, Result
<1>3. PICK m, c, l, t :
        /\ meant' = m /\ value' = Compile(c, l, t) /\ (m.ok => Len(m.value) <= MaxLen)
        /\ \/ /\ m = Ok(IF xs = <<>> THEN xs ELSE Tail(xs))
              /\ c = CTail(xs) /\ l = LlvmTail(xs) /\ t = TsTail(xs)
           \/ /\ m = Ok(Seqs!Reverse(xs))
              /\ c = CReverse(xs) /\ l = LlvmReverse(xs) /\ t = TsReverse(xs)
  BY <1>1 DEF TailOrReverse, Result, Compile
<1>4. PICK ys \in Seq(Ints) : m = Ok(ys) /\ c = Ok(ys) /\ l = Ok(ys) /\ t = Ok(ys)
  BY <1>3, TailNodes, ReverseNodes
<1>5. Len(ys) <= MaxLen
  BY <1>3, <1>4, ResultFacts
<1>6. Leaves("seq", m, {}, c, l, t)
  BY <1>4, <1>5, AllOk, KindFacts
<1> QED
  BY <1>2, <1>3, <1>6, CompiledStep

(* append keeps the invariant.                                             *)
LEMMA AppendItemStep ==
  ASSUME IInv, AppendItem
  PROVE  IInv'
<1>1. PICK xs \in Seq(Ints) : xs = meant.value /\ \A b \in Targets : In(b) = xs
  BY GoingSeq DEF AppendItem
<1>2. shape' = "seq" /\ stray' = {}
  BY DEF AppendItem, Result
<1>3. PICK v, m, c, l, t :
        /\ v \in Bits
        /\ meant' = m /\ value' = Compile(c, l, t) /\ (m.ok => Len(m.value) <= MaxLen)
        /\ m = Ok(Append(xs, v))
        /\ c = CAppend(xs, v) /\ l = LlvmAppend(xs, v) /\ t = TsAppend(xs, v)
  BY <1>1 DEF AppendItem, Result, Compile
<1>4. PICK ys \in Seq(Ints) : m = Ok(ys) /\ c = Ok(ys) /\ l = Ok(ys) /\ t = Ok(ys)
  <2>1. v \in Ints
    BY <1>3, GivenFacts
  <2> QED
    BY <1>3, <2>1, AppendNodes
<1>5. Len(ys) <= MaxLen
  BY <1>3, <1>4, ResultFacts
<1>6. Leaves("seq", m, {}, c, l, t)
  BY <1>4, <1>5, AllOk, KindFacts
<1> QED
  BY <1>2, <1>3, <1>6, CompiledStep

(* concat keeps the invariant.                                             *)
LEMMA ConcatStep ==
  ASSUME IInv, Concat
  PROVE  IInv'
<1>1. PICK xs \in Seq(Ints) : xs = meant.value /\ \A b \in Targets : In(b) = xs
  BY GoingSeq DEF Concat
<1>2. shape' = "seq" /\ stray' = {}
  BY DEF Concat, Result
<1>3. PICK zs, m, c, l, t :
        /\ zs \in ItemSeqs
        /\ meant' = m /\ value' = Compile(c, l, t) /\ (m.ok => Len(m.value) <= MaxLen)
        /\ m = Ok(xs \o zs)
        /\ c = CConcat(xs, zs) /\ l = LlvmConcat(xs, zs) /\ t = TsConcat(xs, zs)
  BY <1>1 DEF Concat, Result, Compile
<1>4. PICK ys \in Seq(Ints) : m = Ok(ys) /\ c = Ok(ys) /\ l = Ok(ys) /\ t = Ok(ys)
  <2>1. zs \in Seq(Ints)
    BY <1>3, GivenFacts
  <2> QED
    BY <1>3, <2>1, ConcatNodes
<1>5. Len(ys) <= MaxLen
  BY <1>3, <1>4, ResultFacts
<1>6. Leaves("seq", m, {}, c, l, t)
  BY <1>4, <1>5, AllOk, KindFacts
<1> QED
  BY <1>2, <1>3, <1>6, CompiledStep

(* zip keeps the invariant.                                                *)
LEMMA ZipStep ==
  ASSUME IInv, Zip
  PROVE  IInv'
<1>1. PICK xs \in Seq(Ints) : xs = meant.value /\ \A b \in Targets : In(b) = xs
  BY GoingSeq DEF Zip
<1>2. shape' = "pairs" /\ stray' = {}
  BY DEF Zip, Result
<1>3. PICK zs, m, c, l, t :
        /\ zs \in ItemSeqs
        /\ meant' = m /\ value' = Compile(c, l, t)
        /\ m = IF Len(xs) = Len(zs) THEN Ok(Seqs!Zip(xs, zs)) ELSE Dead
        /\ c = CZip(xs, zs) /\ l = LlvmZip(xs, zs) /\ t = TsZip(xs, zs)
  BY <1>1 DEF Zip, Result, Compile
<1>4. zs \in Seq(Ints)
  BY <1>3, GivenFacts
<1>5. Leaves("pairs", m, {}, c, l, t)
  <2>1. CASE Len(xs) # Len(zs)
    <3>1. m = Dead /\ c = Dead /\ l = Dead /\ t = Dead
      BY <1>3, <1>4, <2>1, ZipNodes
    <3> QED
      BY <3>1, AllDead, KindFacts
  <2>2. CASE Len(xs) = Len(zs)
    <3>1. PICK ys : m = Ok(ys) /\ c = Ok(ys) /\ l = Ok(ys) /\ t = Ok(ys)
      BY <1>3, <1>4, <2>2, ZipNodes
    <3> QED
      BY <3>1, AllOk, KindFacts
  <2> QED
    BY <2>1, <2>2
<1> QED
  BY <1>2, <1>3, <1>5, CompiledStep

(* Pairing every item with one value on the right keeps the invariant.     *)
LEMMA BroadcastRightStep ==
  ASSUME IInv, BroadcastRight
  PROVE  IInv'
<1>1. PICK xs \in Seq(Ints) : xs = meant.value /\ \A b \in Targets : In(b) = xs
  BY GoingSeq DEF BroadcastRight
<1>2. shape' = "pairs" /\ stray' = {}
  BY DEF BroadcastRight, Result
<1>3. PICK v \in Bits :
        /\ meant' = Ok(Seqs!Zip(meant.value, [k \in DOMAIN meant.value |-> v]))
        /\ value' = [b \in Targets |->
             Compiled(b, CBroadcastRight(In(b), v), LlvmBroadcastRight(In(b), v),
                      TsBroadcastRight(In(b), v))]
  BY DEF BroadcastRight, Result
<1>4. PICK m, ys, c, l, t :
        /\ m = Ok(ys) /\ c = Ok(ys) /\ l = Ok(ys) /\ t = Ok(ys)
        /\ meant' = m /\ value' = Compile(c, l, t)
  <2>1. PICK ys : /\ ys = Seqs!Zip(xs, [k \in DOMAIN xs |-> v])
                  /\ CBroadcastRight(xs, v) = Ok(ys) /\ LlvmBroadcastRight(xs, v) = Ok(ys)
                  /\ TsBroadcastRight(xs, v) = Ok(ys)
    BY BroadcastRightNodes
  <2>2. meant' = Ok(ys)
    BY <1>1, <1>3, <2>1
  <2>3. value' = Compile(Ok(ys), Ok(ys), Ok(ys))
    BY <1>1, <1>3, <2>1 DEF Compile
  <2> QED
    BY <2>2, <2>3
<1>5. Leaves("pairs", m, {}, c, l, t)
  BY <1>4, AllOk, KindFacts
<1> QED
  BY <1>2, <1>4, <1>5, CompiledStep

(* Pairing every item with one value on the left keeps the invariant.      *)
LEMMA BroadcastLeftStep ==
  ASSUME IInv, BroadcastLeft
  PROVE  IInv'
<1>1. PICK x \in Ints : x = meant.value /\ \A b \in Targets : In(b) = x
  BY Going DEF BroadcastLeft, On, Holds
<1>2. shape' = "pairs" /\ stray' = {}
  BY DEF BroadcastLeft, Result
<1>3. PICK zs, m, c, l, t :
        /\ zs \in ItemSeqs
        /\ meant' = m /\ value' = Compile(c, l, t)
        /\ m = Ok(Seqs!Zip([k \in DOMAIN zs |-> x], zs))
        /\ c = CBroadcastLeft(x, zs) /\ l = LlvmBroadcastLeft(x, zs)
        /\ t = TsBroadcastLeft(x, zs)
  BY <1>1 DEF BroadcastLeft, Result, Compile
<1>4. PICK ys : m = Ok(ys) /\ c = Ok(ys) /\ l = Ok(ys) /\ t = Ok(ys)
  <2>1. zs \in Seq(Ints)
    BY <1>3, GivenFacts
  <2> QED
    BY <1>3, <2>1, BroadcastLeftNodes
<1>5. Leaves("pairs", m, {}, c, l, t)
  BY <1>4, AllOk, KindFacts
<1> QED
  BY <1>2, <1>3, <1>5, CompiledStep

(* at and get keep the invariant.                                          *)
LEMMA AtOrGetStep ==
  ASSUME IInv, AtOrGet
  PROVE  IInv'
<1>1. PICK xs \in Seq(Ints) : xs = meant.value /\ \A b \in Targets : In(b) = xs
  BY GoingSeq DEF AtOrGet
<1>2. shape' = "int" /\ stray' = TypeScript
  BY DEF AtOrGet, Result
<1>3. PICK i, m, c, l, t :
        /\ i \in Counts
        /\ meant' = m /\ value' = Compile(c, l, t)
        /\ \/ /\ m = IF i + 1 \in DOMAIN xs THEN Ok(xs[i + 1]) ELSE Fault("")
              /\ c = CAt(xs, i) /\ l = LlvmAt(xs, i) /\ t = TsAt(xs, i)
           \/ /\ m = IF i + 1 \in DOMAIN xs THEN Ok(xs[i + 1]) ELSE Dead
              /\ c = CGet(xs, i) /\ l = LlvmGet(xs, i) /\ t = TsGet(xs, i)
  <2>1. PICK i \in Counts :
          \E m, c, l, t :
            /\ meant' = m /\ value' = Compile(c, l, t)
            /\ \/ /\ m = IF i + 1 \in DOMAIN xs THEN Ok(xs[i + 1]) ELSE Fault("")
                  /\ c = CAt(xs, i) /\ l = LlvmAt(xs, i) /\ t = TsAt(xs, i)
               \/ /\ m = IF i + 1 \in DOMAIN xs THEN Ok(xs[i + 1]) ELSE Dead
                  /\ c = CGet(xs, i) /\ l = LlvmGet(xs, i) /\ t = TsGet(xs, i)
    BY <1>1 DEF AtOrGet, Result, Compile
  <2> QED
    BY <2>1
<1>4. i \in Int
  BY <1>3, GivenFacts
<1>5. TsGet(xs, i) = WrongShape
  BY DEF TsGet
<1>6. "range" \in Messages /\ "" \in Messages
  BY DEF Messages
<1>7. Outcome("int", m) /\ Same(c, m) /\ Same(l, m) /\ ~Same(t, m)
  <2>1. CASE i + 1 \in DOMAIN xs
    <3>1. PICK v \in Ints : m = Ok(v) /\ c = Ok(v) /\ l = Ok(v) /\ t = WrongShape
      BY <1>3, <1>4, <1>5, <2>1, IndexNodes
    <3> QED
      BY <3>1, KindFacts, SameFacts
  <2>2. CASE i + 1 \notin DOMAIN xs
    <3>1. \/ /\ m = Fault("") /\ c = Fault("range") /\ l = Fault("range") /\ t = Dead
          \/ /\ m = Dead /\ c = Dead /\ l = Dead /\ t = WrongShape
      BY <1>3, <1>4, <1>5, <2>2, IndexNodes
    <3>2. Outcome("int", Dead) /\ Outcome("int", Fault(""))
      BY <1>6, KindFacts
    <3>3. /\ Same(Fault("range"), Fault("")) /\ ~Same(Dead, Fault(""))
          /\ Same(Dead, Dead) /\ ~Same(WrongShape, Dead)
      BY <1>6, SameFacts
    <3> QED
      BY <3>1, <3>2, <3>3
  <2> QED
    BY <2>1, <2>2
<1>8. Leaves("int", m, TypeScript, c, l, t)
  BY <1>7, Agreed, KindFacts
<1> QED
  BY <1>2, <1>3, <1>8, CompiledStep

(* get_or keeps the invariant.                                             *)
LEMMA GetOrStep ==
  ASSUME IInv, GetOr
  PROVE  IInv'
<1>1. PICK xs \in Seq(Ints) : xs = meant.value /\ \A b \in Targets : In(b) = xs
  BY GoingSeq DEF GetOr
<1>2. shape' = "int" /\ stray' = {}
  BY DEF GetOr, Result
<1>3. PICK i, v, m, c, l, t :
        /\ i \in Counts /\ v \in Bits
        /\ meant' = m /\ value' = Compile(c, l, t)
        /\ m = Ok(IF i + 1 \in DOMAIN xs THEN xs[i + 1] ELSE v)
        /\ c = CGetOr(xs, i, v) /\ l = LlvmGetOr(xs, i, v) /\ t = TsGetOr(xs, i, v)
  BY <1>1 DEF GetOr, Result, Compile
<1>4. i \in Int /\ v \in Ints
  BY <1>3, GivenFacts
<1>5. PICK w \in Ints : m = Ok(w) /\ c = Ok(w) /\ l = Ok(w) /\ t = Ok(w)
  BY <1>3, <1>4, IndexNodes
<1>6. Leaves("int", m, {}, c, l, t)
  BY <1>5, AllOk, KindFacts
<1> QED
  BY <1>2, <1>3, <1>6, CompiledStep

(* set keeps the invariant.                                                *)
LEMMA SetItemStep ==
  ASSUME IInv, SetItem
  PROVE  IInv'
<1>1. PICK xs \in Seq(Ints) : xs = meant.value /\ \A b \in Targets : In(b) = xs
  BY GoingSeq DEF SetItem
<1>2. shape' = "seq" /\ stray' = TypeScript
  BY DEF SetItem, Result
<1>3. PICK i, v, m, c, l, t :
        /\ i \in Counts /\ v \in Bits
        /\ meant' = m /\ value' = Compile(c, l, t) /\ (m.ok => Len(m.value) <= MaxLen)
        /\ m = IF i + 1 \in DOMAIN xs THEN Ok([xs EXCEPT ![i + 1] = v]) ELSE Dead
        /\ c = CSet(xs, i, v) /\ l = LlvmSet(xs, i, v) /\ t = TsSet(xs, i, v)
  <2>1. PICK i \in Counts, v \in Bits :
          \E m, c, l, t :
            /\ meant' = m /\ value' = Compile(c, l, t) /\ (m.ok => Len(m.value) <= MaxLen)
            /\ m = IF i + 1 \in DOMAIN xs THEN Ok([xs EXCEPT ![i + 1] = v]) ELSE Dead
            /\ c = CSet(xs, i, v) /\ l = LlvmSet(xs, i, v) /\ t = TsSet(xs, i, v)
    BY <1>1 DEF SetItem, Result, Compile
  <2> QED
    BY <2>1
<1>4. i \in Int /\ v \in Ints
  BY <1>3, GivenFacts
<1>5. t = WrongShape
  BY <1>3 DEF TsSet
<1>6. Outcome("seq", m) /\ Same(c, m) /\ Same(l, m)
  <2>1. CASE i + 1 \in DOMAIN xs
    <3>1. PICK ys \in Seq(Ints) : m = Ok(ys) /\ c = Ok(ys) /\ l = Ok(ys)
      BY <1>3, <1>4, <2>1, SetNodes
    <3>2. Len(ys) <= MaxLen
      BY <1>3, <3>1, ResultFacts
    <3> QED
      BY <3>1, <3>2, KindFacts, SameFacts
  <2>2. CASE i + 1 \notin DOMAIN xs
    <3>1. m = Dead /\ c = Dead /\ l = Dead
      BY <1>3, <1>4, <2>2, SetNodes
    <3> QED
      BY <3>1, KindFacts, SameFacts
  <2> QED
    BY <2>1, <2>2
<1>7. ~Same(t, m)
  BY <1>5, SameFacts
<1>8. Leaves("seq", m, TypeScript, c, l, t)
  BY <1>6, <1>7, Agreed, KindFacts
<1> QED
  BY <1>2, <1>3, <1>8, CompiledStep

(* take and drop keep the invariant.                                       *)
LEMMA TakeOrDropStep ==
  ASSUME IInv, TakeOrDrop
  PROVE  IInv'
<1>1. PICK xs \in Seq(Ints) : xs = meant.value /\ \A b \in Targets : In(b) = xs
  BY GoingSeq DEF TakeOrDrop
<1>2. PICK n, kept, m, c, l, t, z :
        /\ n \in Counts
        /\ kept = IF n > Len(xs) THEN Len(xs) ELSE n
        /\ z = IF n < 0 THEN TypeScript ELSE {}
        /\ \/ /\ m = IF n < 0 THEN Dead ELSE Ok(SubSeq(xs, 1, kept))
              /\ c = CTake(xs, n) /\ l = LlvmTake(xs, n) /\ t = TsTake(xs, n)
           \/ /\ m = IF n < 0 THEN Dead ELSE Ok(SubSeq(xs, kept + 1, Len(xs)))
              /\ c = CDrop(xs, n) /\ l = LlvmDrop(xs, n) /\ t = TsDrop(xs, n)
        /\ Result("seq", m, Compile(c, l, t), z)
  <2>1. PICK n, kept, z :
          /\ n \in Counts
          /\ kept = IF n > Len(xs) THEN Len(xs) ELSE n
          /\ z = IF n < 0 THEN TypeScript ELSE {}
          /\ \/ Result("seq", IF n < 0 THEN Dead ELSE Ok(SubSeq(xs, 1, kept)),
                      [b \in Targets |->
                         Compiled(b, CTake(In(b), n), LlvmTake(In(b), n), TsTake(In(b), n))], z)
             \/ Result("seq", IF n < 0 THEN Dead ELSE Ok(SubSeq(xs, kept + 1, Len(xs))),
                      [b \in Targets |->
                         Compiled(b, CDrop(In(b), n), LlvmDrop(In(b), n), TsDrop(In(b), n))], z)
    BY <1>1 DEF TakeOrDrop
  <2>2. /\ [b \in Targets |-> Compiled(b, CTake(In(b), n), LlvmTake(In(b), n), TsTake(In(b), n))]
             = Compile(CTake(xs, n), LlvmTake(xs, n), TsTake(xs, n))
        /\ [b \in Targets |-> Compiled(b, CDrop(In(b), n), LlvmDrop(In(b), n), TsDrop(In(b), n))]
             = Compile(CDrop(xs, n), LlvmDrop(xs, n), TsDrop(xs, n))
    BY <1>1 DEF Compile
  <2>3. PICK taken, dropped :
          /\ taken = IF n < 0 THEN Dead ELSE Ok(SubSeq(xs, 1, kept))
          /\ dropped = IF n < 0 THEN Dead ELSE Ok(SubSeq(xs, kept + 1, Len(xs)))
    OBVIOUS
  <2>4. \/ Result("seq", taken, Compile(CTake(xs, n), LlvmTake(xs, n), TsTake(xs, n)), z)
        \/ Result("seq", dropped, Compile(CDrop(xs, n), LlvmDrop(xs, n), TsDrop(xs, n)), z)
    BY <2>1, <2>2, <2>3
  <2>5. CASE Result("seq", taken, Compile(CTake(xs, n), LlvmTake(xs, n), TsTake(xs, n)), z)
    BY <2>1, <2>3, <2>5
  <2>6. CASE Result("seq", dropped, Compile(CDrop(xs, n), LlvmDrop(xs, n), TsDrop(xs, n)), z)
    BY <2>1, <2>3, <2>6
  <2> QED
    BY <2>4, <2>5, <2>6
<1>5. /\ shape' = "seq" /\ stray' = z /\ meant' = m /\ value' = Compile(c, l, t)
      /\ m.ok => Len(m.value) <= MaxLen
  BY <1>2 DEF Result
<1>3. n \in Int /\ Len(xs) \in Nat
  BY <1>2, GivenFacts, SeqFacts
<1>4. Leaves("seq", m, z, c, l, t)
  <2>1. CASE n < 0
    <3>1. m = Dead /\ c = Dead /\ l = Dead /\ \E u : t = Ok(u)
      BY <1>2, <2>1 DEF CTake, LlvmTake, TsTake, CDrop, LlvmDrop, TsDrop, DieIf
    <3>2. Outcome("seq", m) /\ Same(c, m) /\ Same(l, m) /\ ~Same(t, m)
      BY <3>1, KindFacts, SameFacts
    <3>3. z = TypeScript
      BY <1>2, <2>1
    <3> QED
      BY <3>2, <3>3, Agreed, KindFacts
  <2>2. CASE ~(n < 0)
    <3>1. n \in Nat /\ kept = Clamp(n, Len(xs))
      BY <1>2, <1>3, <2>2 DEF Clamp
    <3>2. PICK us \in Seq(Ints) :
            /\ us = SubSeq(xs, 1, kept)
            /\ CTake(xs, n) = Ok(us) /\ LlvmTake(xs, n) = Ok(us) /\ TsTake(xs, n) = Ok(us)
      BY <3>1, TakeNodes
    <3>5. PICK ws \in Seq(Ints) :
            /\ ws = SubSeq(xs, kept + 1, Len(xs))
            /\ CDrop(xs, n) = Ok(ws) /\ LlvmDrop(xs, n) = Ok(ws) /\ TsDrop(xs, n) = Ok(ws)
      <4>1. PICK ws : ws = Cut(xs, kept, Len(xs) - kept)
        OBVIOUS
      <4>2. /\ SubSeq(xs, kept + 1, Len(xs)) = ws /\ ws \in Seq(Ints)
            /\ CDrop(xs, n) = Ok(ws) /\ LlvmDrop(xs, n) = Ok(ws) /\ TsDrop(xs, n) = Ok(ws)
        BY <3>1, <4>1, DropNodes
      <4> QED
        BY <4>2
    <3>6. PICK ys \in Seq(Ints) : m = Ok(ys) /\ c = Ok(ys) /\ l = Ok(ys) /\ t = Ok(ys)
      BY <1>2, <2>2, <3>2, <3>5
    <3>3. Len(ys) <= MaxLen
      BY <1>5, <3>6, ResultFacts
    <3>4. z = {}
      BY <1>2, <2>2
    <3> QED
      BY <3>6, <3>3, <3>4, AllOk, KindFacts
  <2> QED
    BY <2>1, <2>2
<1> QED
  BY <1>4, <1>5, CompiledStep

(* slice keeps the invariant.                                              *)
LEMMA SliceStep ==
  ASSUME IInv, Slice
  PROVE  IInv'
<1>1. PICK xs \in Seq(Ints) : xs = meant.value /\ \A b \in Targets : In(b) = xs
  BY GoingSeq DEF Slice
<1>2. PICK from, to, inside, m, c, l, t, z :
        /\ from \in Counts /\ to \in Counts /\ inside \in BOOLEAN
        /\ inside <=> 0 <= from /\ from <= to /\ to <= Len(xs)
        /\ z = IF inside THEN {} ELSE TypeScript
        /\ m = IF inside THEN Ok(SubSeq(xs, from + 1, to)) ELSE Dead
        /\ c = CSlice(xs, from, to) /\ l = LlvmSlice(xs, from, to) /\ t = TsSlice(xs, from, to)
        /\ Result("seq", m, Compile(c, l, t), z)
  <2>1. PICK from \in Counts, to \in Counts :
          Result("seq",
            IF 0 <= from /\ from <= to /\ to <= Len(xs)
            THEN Ok(SubSeq(xs, from + 1, to)) ELSE Dead,
            [b \in Targets |->
               Compiled(b, CSlice(In(b), from, to), LlvmSlice(In(b), from, to),
                        TsSlice(In(b), from, to))],
            IF 0 <= from /\ from <= to /\ to <= Len(xs) THEN {} ELSE TypeScript)
    BY <1>1 DEF Slice
  <2>2. [b \in Targets |->
               Compiled(b, CSlice(In(b), from, to), LlvmSlice(In(b), from, to),
                        TsSlice(In(b), from, to))]
          = Compile(CSlice(xs, from, to), LlvmSlice(xs, from, to), TsSlice(xs, from, to))
    BY <1>1 DEF Compile
  <2>3. PICK inside \in BOOLEAN : inside <=> 0 <= from /\ from <= to /\ to <= Len(xs)
    OBVIOUS
  <2> QED
    BY <2>1, <2>2, <2>3
<1>5. /\ shape' = "seq" /\ stray' = z /\ meant' = m /\ value' = Compile(c, l, t)
      /\ m.ok => Len(m.value) <= MaxLen
  BY <1>2 DEF Result
<1>3. from \in Int /\ to \in Int
  BY <1>2, GivenFacts
<1>4. Leaves("seq", m, z, c, l, t)
  <2>1. CASE ~inside
    <3>1. m = Dead /\ c = Dead /\ l = Dead
      BY <1>2, <1>3, <2>1, SliceNodes
    <3>2. \E u : t = Ok(u)
      BY <1>2 DEF TsSlice
    <3>3. Outcome("seq", m) /\ Same(c, m) /\ Same(l, m) /\ ~Same(t, m)
      BY <3>1, <3>2, KindFacts, SameFacts
    <3>4. z = TypeScript
      BY <1>2, <2>1
    <3> QED
      BY <3>3, <3>4, Agreed, KindFacts
  <2>2. CASE inside
    <3>4. PICK ys \in Seq(Ints) :
            /\ ys = SubSeq(xs, from + 1, to) /\ CSlice(xs, from, to) = Ok(ys)
            /\ LlvmSlice(xs, from, to) = Ok(ys) /\ TsSlice(xs, from, to) = Ok(ys)
      BY <1>2, <1>3, <2>2, SliceNodes
    <3>1. m = Ok(ys) /\ c = Ok(ys) /\ l = Ok(ys) /\ t = Ok(ys)
      BY <1>2, <2>2, <3>4
    <3>2. Len(ys) <= MaxLen
      BY <1>5, <3>1, ResultFacts
    <3>3. z = {}
      BY <1>2, <2>2
    <3> QED
      BY <3>1, <3>2, <3>3, AllOk, KindFacts
  <2> QED
    BY <2>1, <2>2
<1> QED
  BY <1>4, <1>5, CompiledStep

(* shift_left and shift_right keep the invariant.                          *)
LEMMA ShiftItemsStep ==
  ASSUME IInv, ShiftItems
  PROVE  IInv'
<1>1. PICK xs \in Seq(Ints) : xs = meant.value /\ \A b \in Targets : In(b) = xs
  BY GoingSeq DEF ShiftItems
<1>2. PICK v, odd, m, c, l, t, z :
        /\ v \in Bits
        /\ odd = IF xs = <<>> THEN TypeScript ELSE {}
        /\ shape' = "seq" /\ stray' = z
        /\ meant' = m /\ value' = Compile(c, l, t) /\ (m.ok => Len(m.value) <= MaxLen)
        /\ \/ /\ m = Ok(SubSeq(<<v>> \o xs, 1, Len(xs))) /\ z = odd
              /\ c = CShiftRight(xs, v) /\ l = LlvmShiftRight(xs, v) /\ t = TsShiftRight(xs, v)
           \/ /\ m = Ok(SubSeq(Append(xs, v), 2, Len(xs) + 1)) /\ z = odd \cup Llvm
              /\ c = CShiftLeft(xs, v) /\ l = LlvmShiftLeft(xs, v) /\ t = TsShiftLeft(xs, v)
  BY <1>1 DEF ShiftItems, Result, Compile
<1>3. v \in Ints
  BY <1>2, GivenFacts
<1>4. LlvmShiftLeft(xs, v) = Refused
  BY DEF LlvmShiftLeft
<1>5. PICK ys, u :
        /\ ys \in Seq(Ints)
        /\ m = Ok(ys) /\ c = Ok(ys) /\ t = Ok(u) /\ (t = Ok(ys) <=> xs # <<>>)
        /\ (l = Ok(ys) /\ z = odd) \/ (l = Refused /\ z = odd \cup Llvm)
  <2>1. PICK us, o :
          /\ us \in Seq(Ints)
          /\ us = SubSeq(<<v>> \o xs, 1, Len(xs)) /\ TsShiftRight(xs, v) = Ok(o)
          /\ CShiftRight(xs, v) = Ok(us) /\ LlvmShiftRight(xs, v) = Ok(us)
          /\ TsShiftRight(xs, v) = Ok(us) <=> xs # <<>>
    BY <1>3, ShiftRightNodes
  <2>2. PICK ws, q :
          /\ ws \in Seq(Ints)
          /\ ws = SubSeq(Append(xs, v), 2, Len(xs) + 1) /\ TsShiftLeft(xs, v) = Ok(q)
          /\ CShiftLeft(xs, v) = Ok(ws)
          /\ TsShiftLeft(xs, v) = Ok(ws) <=> xs # <<>>
    <3>1. PICK qs \in Seq(Ints) :
            /\ qs = SubSeq(Append(xs, v), 2, Len(xs) + 1) /\ CShiftLeft(xs, v) = Ok(qs)
            /\ TsShiftLeft(xs, v) = Ok(qs) <=> xs # <<>>
            /\ \E p : TsShiftLeft(xs, v) = Ok(p)
      BY <1>3, ShiftLeftNodes
    <3> QED
      BY <3>1
  <2> QED
    BY <1>2, <1>4, <2>1, <2>2
<1>6. Len(ys) <= MaxLen
  BY <1>2, <1>5, ResultFacts
<1>7. /\ Outcome("seq", m) /\ Same(c, m) /\ (Same(t, m) <=> xs # <<>>)
      /\ (Same(l, m) /\ z = odd) \/ (~Same(l, m) /\ z = odd \cup Llvm)
  BY <1>5, <1>6, KindFacts, SameFacts, OkIsOne
<1>8. Leaves("seq", m, z, c, l, t)
  <2>1. CASE xs = <<>>
    <3>1. odd = TypeScript
      BY <1>2, <2>1
    <3> QED
      BY <1>7, <2>1, <3>1, Agreed, KindFacts, ZenonT(60)
  <2>2. CASE xs # <<>>
    <3>1. odd = {} /\ odd \cup Llvm = Llvm
      BY <1>2, <2>2
    <3>2. Same(t, m) /\ ((Same(l, m) /\ z = {}) \/ (~Same(l, m) /\ z = Llvm))
      BY <1>7, <2>2, <3>1
    <3>3. "seq" \in Kinds /\ Outcome("seq", m) /\ Same(c, m)
      BY <1>7, KindFacts
    <3>4. CASE Same(l, m) /\ z = {}
      BY <3>2, <3>3, <3>4, Agreed
    <3>5. CASE ~Same(l, m) /\ z = Llvm
      BY <3>2, <3>3, <3>5, Agreed
    <3> QED
      BY <3>2, <3>4, <3>5
  <2> QED
    BY <2>1, <2>2
<1> QED
  BY <1>2, <1>8, CompiledStep

(* all and any keep the invariant.                                         *)
LEMMA AllOrAnyStep ==
  ASSUME IInv, AllOrAny
  PROVE  IInv'
<1>1. PICK xs \in Seq(Ints) : xs = meant.value /\ \A b \in Targets : In(b) = xs
  BY GoingSeq DEF AllOrAny
<1>2. xs \in Seq(Bits)
  <2>1. /\ Len(xs) \in Nat /\ xs = [k \in 1 .. Len(xs) |-> xs[k]]
        /\ \A k \in 1 .. Len(xs) : xs[k] \in Bits
    BY <1>1, SeqFacts DEF AllOrAny
  <2> QED
    BY <2>1, Filled
<1>3. shape' = "bit" /\ stray' = {}
  BY DEF AllOrAny, Result
<1>4. PICK every, m, c, l, t :
        /\ every \in BOOLEAN
        /\ meant' = m /\ value' = Compile(c, l, t)
        /\ m = Ok(IF every THEN IF 0 \in Seqs!ToSet(xs) THEN 0 ELSE 1
                  ELSE IF 1 \in Seqs!ToSet(xs) THEN 1 ELSE 0)
        /\ c = CAllAny(xs, every) /\ l = LlvmAllAny(xs, every) /\ t = TsAllAny(xs, every)
  BY <1>1 DEF AllOrAny, Result, Compile
<1>5. PICK w : m = Ok(w) /\ c = Ok(w) /\ l = Ok(w) /\ t = Ok(w)
  BY <1>2, <1>4, AllAnyNodes
<1>6. Leaves("bit", m, {}, c, l, t)
  BY <1>5, AllOk, KindFacts
<1> QED
  BY <1>3, <1>4, <1>6, CompiledStep

(* Division and remainder of floats keep the invariant.                    *)
LEMMA FloatBinaryStep ==
  ASSUME IInv, FloatBinary
  PROVE  IInv'
<1>1. PICK op \in Dividing, y \in Floats, faultable \in BOOLEAN :
        /\ shape' = "float"
        /\ stray' = IF Parts(op, meant.value, y) THEN {"wasm"} ELSE {}
        /\ meant' = IF y \in {0, NegZero} THEN Failure(faultable)
                    ELSE Ok(FloatValue(op, meant.value, y))
        /\ value' = [b \in Targets |->
             IF faultable
             THEN Scalar(b, CFaultableFloat(op, In(b), y), WasmFaultableFloat(op, In(b), y),
                         TsFaultableFloat(op, In(b), y), TsFaultableFloat(op, In(b), y))
             ELSE Scalar(b, CCheckedFloat(op, In(b), y), WasmCheckedFloat(op, In(b), y),
                         TsCheckedFloat(op, In(b), y), WorkerCheckedFloat(op, In(b), y))]
  BY DEF FloatBinary, Result, Parts
<1>2. PICK x \in Floats : x = meant.value /\ \A b \in Targets : In(b) = x
  BY GoingFloat DEF FloatBinary
<1>3. PICK c, w, t, k :
        /\ c = IF faultable THEN CFaultableFloat(op, x, y) ELSE CCheckedFloat(op, x, y)
        /\ w = IF faultable THEN WasmFaultableFloat(op, x, y) ELSE WasmCheckedFloat(op, x, y)
        /\ t = IF faultable THEN TsFaultableFloat(op, x, y) ELSE TsCheckedFloat(op, x, y)
        /\ k = IF faultable THEN TsFaultableFloat(op, x, y) ELSE WorkerCheckedFloat(op, x, y)
  OBVIOUS
<1>4. \A b \in Targets : value'[b] = Scalar(b, c, w, t, k)
  BY <1>1, <1>2, <1>3
<1>5. PICK bad, e, g :
        bad \in BOOLEAN
        /\ (bad <=> y \in {0, NegZero}) /\ e = FloatValue(op, x, y) /\ g = WasmFloatValue(op, x, y)
  OBVIOUS
<1>6. PICK m : m = meant' /\ m = IF bad THEN Failure(faultable) ELSE Ok(e)
  BY <1>1, <1>2, <1>5
<1>7. Same(c, m) /\ Same(t, m) /\ Same(k, m) /\ (bad => Same(w, m)) /\ (~bad => w = Ok(g))
  <2>1. faultable => Faults(c, bad, e) /\ Faults(w, bad, g) /\ Faults(t, bad, e) /\ Faults(k, bad, e)
    BY <1>3, <1>5, FloatNodes DEF Faults
  <2>2. ~faultable => Aborts(c, bad, e) /\ Aborts(w, bad, g) /\ Aborts(t, bad, e) /\ Aborts(k, bad, e)
    BY <1>3, <1>5, FloatNodes DEF Aborts
  <2>3. PICK n : n = IF bad THEN Failure(faultable) ELSE Ok(g)
    OBVIOUS
  <2>4. Same(w, n)
    BY <1>5, <2>1, <2>2, <2>3, Answer
  <2>5. bad => n = m
    BY <1>6, <2>3
  <2>6. ~bad => w = Ok(g)
    BY <2>1, <2>2 DEF Faults, Aborts
  <2> QED
    BY <1>5, <1>6, <2>1, <2>2, <2>4, <2>5, <2>6, Answer
<1>8. "float" \in Kinds /\ Outcome("float", m)
  <2>1. ~bad => e \in Floats
    BY <1>5, FloatValues
  <2>2. CASE bad
    BY <1>6, <2>2, Outcomes, KindFacts
  <2>3. CASE ~bad
    BY <1>6, <2>1, <2>3, KindFacts
  <2> QED
    BY <2>2, <2>3, KindFacts
<1>9. PICK z : z = stray' /\ z = IF Parts(op, x, y) THEN {"wasm"} ELSE {}
  BY <1>1, <1>2
<1>10. z \subseteq {"wasm"} /\ (Same(w, m) <=> "wasm" \notin z)
  <2>1. CASE bad
    <3>1. ~Parts(op, x, y)
      BY <1>5, <2>1 DEF Parts
    <3> QED
      BY <1>7, <1>9, <2>1, <3>1
  <2>2. CASE ~bad
    <3>1. g = e <=> ~Parts(op, x, y)
      BY <1>5, <2>2, WasmRemainder
    <3>2. Same(w, m) <=> g = e
      BY <1>6, <1>7, <2>2, SameFacts
    <3> QED
      BY <1>9, <3>1, <3>2
  <2> QED
    BY <2>1, <2>2
<1>11. PICK v : v = value' /\ \A b \in Targets : v[b] = Scalar(b, c, w, t, k)
  BY <1>4
<1>12. Good("float", v, m, z)
  BY <1>7, <1>8, <1>10, <1>11, ScalarGood
<1> QED
  BY <1>1, <1>6, <1>9, <1>11, <1>12 DEF IInv

(* A square root keeps the invariant.                                      *)
LEMMA SquareRootStep ==
  ASSUME IInv, SquareRoot
  PROVE  IInv'
<1>1. PICK faultable \in BOOLEAN :
        /\ shape' = "float" /\ stray' = {}
        /\ meant' = IF Negative(meant.value) THEN Failure(faultable) ELSE Ok(Root(meant.value))
        /\ value' = [b \in Targets |->
             IF faultable
             THEN Scalar(b, CFaultableSqrt(In(b)), WasmFaultableSqrt(In(b)),
                         TsFaultableSqrt(In(b)), TsFaultableSqrt(In(b)))
             ELSE Scalar(b, CCheckedSqrt(In(b)), WasmCheckedSqrt(In(b)),
                         TsCheckedSqrt(In(b)), WorkerCheckedSqrt(In(b)))]
  BY DEF SquareRoot, Result, Negative
<1>2. PICK x \in Floats : x = meant.value /\ \A b \in Targets : In(b) = x
  BY GoingFloat DEF SquareRoot
<1>3. PICK c, w, t, k :
        /\ c = IF faultable THEN CFaultableSqrt(x) ELSE CCheckedSqrt(x)
        /\ w = IF faultable THEN WasmFaultableSqrt(x) ELSE WasmCheckedSqrt(x)
        /\ t = IF faultable THEN TsFaultableSqrt(x) ELSE TsCheckedSqrt(x)
        /\ k = IF faultable THEN TsFaultableSqrt(x) ELSE WorkerCheckedSqrt(x)
  OBVIOUS
<1>4. \A b \in Targets : value'[b] = Scalar(b, c, w, t, k)
  BY <1>1, <1>2, <1>3
<1>5. PICK bad, e : bad \in BOOLEAN /\ (bad <=> Negative(x)) /\ e = Root(x)
  OBVIOUS
<1>6. PICK m : m = meant' /\ m = IF bad THEN Failure(faultable) ELSE Ok(e)
  BY <1>1, <1>2, <1>5
<1>7. Same(c, m) /\ Same(w, m) /\ Same(t, m) /\ Same(k, m)
  <2>1. faultable => Faults(c, bad, e) /\ Faults(w, bad, e) /\ Faults(t, bad, e) /\ Faults(k, bad, e)
    BY <1>3, <1>5, RootNodes DEF Faults
  <2>2. ~faultable => Aborts(c, bad, e) /\ Aborts(w, bad, e) /\ Aborts(t, bad, e) /\ Aborts(k, bad, e)
    BY <1>3, <1>5, RootNodes DEF Aborts
  <2> QED
    BY <1>5, <1>6, <2>1, <2>2, Answer
<1>8. "float" \in Kinds /\ Outcome("float", m)
  <2>1. ~bad => e \in Floats
    BY <1>5, RootNodes
  <2>2. CASE bad
    BY <1>6, <2>2, Outcomes, KindFacts
  <2>3. CASE ~bad
    BY <1>6, <2>1, <2>3, KindFacts
  <2> QED
    BY <2>2, <2>3, KindFacts
<1>9. PICK v : v = value' /\ \A b \in Targets : v[b] = Scalar(b, c, w, t, k)
  BY <1>4
<1>10. Good("float", v, m, {})
  BY <1>7, <1>8, <1>9, ScalarGood
<1> QED
  BY <1>1, <1>6, <1>9, <1>10 DEF IInv

(* Magnitude of a float keeps the invariant.                               *)
LEMMA FloatAbsStep ==
  ASSUME IInv, FloatAbs
  PROVE  IInv'
<1>1. PICK x \in Floats : x = meant.value /\ \A b \in Targets : In(b) = x
  BY GoingFloat DEF FloatAbs
<1>2. PICK e, g, z : /\ e = CFloatAbs(x) /\ g = LlvmFloatAbs(x)
                     /\ z = IF x = NegZero THEN Llvm ELSE {}
  OBVIOUS
<1>3. e = IF x = NegZero THEN 0 ELSE IF x < 0 THEN -x ELSE x
  BY <1>2, AbsNodes
<1>4. shape' = "float" /\ stray' = z /\ meant' = Ok(e) /\ value' = Compile(Ok(e), Ok(g), Ok(e))
  BY <1>1, <1>2, <1>3 DEF FloatAbs, Result, Compile
<1>5. e \in Floats /\ (g = e <=> x # NegZero)
  BY <1>2, AbsNodes
<1>6. /\ Outcome("float", Ok(e)) /\ Same(Ok(e), Ok(e)) /\ "float" \in Kinds
      /\ Same(Ok(g), Ok(e)) <=> x # NegZero
  BY <1>5, KindFacts, SameFacts
<1>7. PICK m, l : m = Ok(e) /\ l = Ok(g)
  OBVIOUS
<1>8. Leaves("float", m, z, m, l, m)
  <2>1. CASE x = NegZero
    <3>1. z = Llvm
      BY <1>2, <2>1
    <3> QED
      BY <1>6, <1>7, <2>1, <3>1, Agreed
  <2>2. CASE x # NegZero
    <3>1. z = {}
      BY <1>2, <2>2
    <3> QED
      BY <1>6, <1>7, <2>2, <3>1, Agreed
  <2> QED
    BY <2>1, <2>2
<1> QED
  BY <1>4, <1>7, <1>8, CompiledStep

(* Least and greatest of floats keep the invariant.                        *)
LEMMA FloatMinMaxStep ==
  ASSUME IInv, FloatMinMax
  PROVE  IInv'
<1>1. PICK x \in Floats : x = meant.value /\ \A b \in Targets : In(b) = x
  BY GoingFloat DEF FloatMinMax
<1>2. PICK y, e, g, z :
        /\ y \in Floats
        /\ \/ e = CFloatMin(x, y) /\ g = TsFloatMin(x, y)
           \/ e = CFloatMax(x, y) /\ g = TsFloatMax(x, y)
        /\ z = IF x # y /\ Equal(x, y) THEN TypeScript ELSE {}
        /\ shape' = "float" /\ stray' = z /\ meant' = Ok(e)
        /\ value' = Compile(Ok(e), Ok(e), Ok(g))
  <2>1. PICK least \in BOOLEAN, y \in Floats :
          /\ shape' = "float" /\ meant' = Ok(IF least THEN CFloatMin(x, y) ELSE CFloatMax(x, y))
          /\ stray' = IF x # y /\ Equal(x, y) THEN TypeScript ELSE {}
          /\ value' = [b \in Targets |->
               IF least
               THEN Compiled(b, Ok(CFloatMin(In(b), y)), Ok(CFloatMin(In(b), y)),
                             Ok(TsFloatMin(In(b), y)))
               ELSE Compiled(b, Ok(CFloatMax(In(b), y)), Ok(CFloatMax(In(b), y)),
                             Ok(TsFloatMax(In(b), y)))]
    BY <1>1 DEF FloatMinMax, Result
  <2>2. PICK e, g, z : /\ e = IF least THEN CFloatMin(x, y) ELSE CFloatMax(x, y)
                       /\ g = IF least THEN TsFloatMin(x, y) ELSE TsFloatMax(x, y)
                       /\ z = stray'
    OBVIOUS
  <2>3. value' = Compile(Ok(e), Ok(e), Ok(g))
    BY <1>1, <2>1, <2>2 DEF Compile
  <2>4. z = IF x # y /\ Equal(x, y) THEN TypeScript ELSE {}
    BY <2>1, <2>2
  <2>5. \/ e = CFloatMin(x, y) /\ g = TsFloatMin(x, y)
        \/ e = CFloatMax(x, y) /\ g = TsFloatMax(x, y)
    BY <2>2
  <2> QED
    BY <2>1, <2>2, <2>3, <2>4, <2>5
<1>3. e \in Floats /\ (g = e <=> ~(x # y /\ Equal(x, y)))
  BY <1>2, FloatMinMaxNodes
<1>4. /\ Outcome("float", Ok(e)) /\ Same(Ok(e), Ok(e)) /\ "float" \in Kinds
      /\ Same(Ok(g), Ok(e)) <=> ~(x # y /\ Equal(x, y))
  BY <1>3, KindFacts, SameFacts
<1>5. PICK m, t : m = Ok(e) /\ t = Ok(g)
  OBVIOUS
<1>6. Leaves("float", m, z, m, m, t)
  <2>1. CASE x # y /\ Equal(x, y)
    <3>1. z = TypeScript
      BY <1>2, <2>1
    <3> QED
      BY <1>4, <1>5, <2>1, <3>1, Agreed
  <2>2. CASE ~(x # y /\ Equal(x, y))
    <3>1. z = {}
      BY <1>2, <2>2
    <3> QED
      BY <1>4, <1>5, <2>2, <3>1, Agreed
  <2> QED
    BY <2>1, <2>2
<1> QED
  BY <1>2, <1>5, <1>6, CompiledStep

(* flatten keeps the invariant.                                            *)
LEMMA FlattenStep ==
  ASSUME IInv, Flatten
  PROVE  IInv'
<1>1. PICK rows \in Seq(Seq(Ints)) : rows = meant.value /\ \A b \in Targets : In(b) = rows
  BY GoingRows DEF Flatten
<1>2. PICK ys \in Seq(Ints) :
        /\ ys = Seqs!FlattenSeq(rows)
        /\ CFlatten(rows) = Ok(ys) /\ LlvmFlatten(rows) = Ok(ys) /\ TsFlatten(rows) = Ok(ys)
  BY FlattenNodes
<1>3. PICK m : m = Ok(ys)
  OBVIOUS
<1>4. shape' = "seq" /\ stray' = {} /\ meant' = m /\ value' = Compile(m, m, m)
  BY <1>1, <1>2, <1>3 DEF Flatten, Result, Compile
<1>5. Len(ys) <= MaxLen
  <2>1. m.ok => Len(m.value) <= MaxLen
    BY <1>1, <1>2, <1>3 DEF Flatten, Result
  <2> QED
    BY <1>3, <2>1, ResultFacts
<1>6. Leaves("seq", m, {}, m, m, m)
  BY <1>3, <1>5, AllOk, KindFacts
<1> QED
  BY <1>4, <1>6, CompiledStep

(* Rows of some bounded lengths.                                           *)
LEMMA RowsOutcome ==
  ASSUME NEW rows \in Seq(Seq(Ints)), NEW n \in Nat, Len(rows) <= MaxLen, n <= MaxLen,
         \A r \in 1 .. Len(rows) : Len(rows[r]) <= n
  PROVE  Outcome("rows", Ok(rows))
<1>1. \A r \in 1 .. Len(rows) : Len(rows[r]) \in Nat
  BY RowLengths
<1>2. MaxLen \in Nat /\ MaxLen \in Ints /\ 0 \in Ints
  BY GivenFacts
<1>3. \A k \in 0 .. MaxLen : k \in Ints
  BY <1>2, IntsFacts
<1>4. DOMAIN rows = 1 .. Len(rows)
  BY RowLengths
<1>5. \A r \in DOMAIN rows : Len(rows[r]) \in Ints
  <2> SUFFICES ASSUME NEW r \in 1 .. Len(rows) PROVE Len(rows[r]) \in Ints
    BY <1>4
  <2>1. PICK k \in Nat : k = Len(rows[r]) /\ k <= n
    BY <1>1
  <2>2. k \in 0 .. MaxLen
    BY <1>2, <2>1
  <2> QED
    BY <1>3, <2>1, <2>2
<1>6. Holds("rows", rows)
  BY <1>5 DEF Holds
<1>7. "rows" \in Kinds
  BY KindFacts
<1> QED
  BY <1>6, <1>7, Outcomes

(* transpose keeps the invariant.                                          *)
LEMMA TransposeStep ==
  ASSUME IInv, Transpose
  PROVE  IInv'
<1>1. PICK rows \in Seq(Seq(Ints)) :
        rows = meant.value /\ Len(rows) <= MaxLen /\ \A b \in Targets : In(b) = rows
  BY GoingRows DEF Transpose
<1>2. PICK n \in Nat : n = Len(rows) /\ DOMAIN rows = 1 .. n /\ (rows = <<>> <=> n = 0)
                       /\ \A r \in 1 .. n : Len(rows[r]) \in Nat
  <2>1. Len(rows) \in Nat /\ DOMAIN rows = 1 .. Len(rows)
        /\ \A r \in 1 .. Len(rows) : Len(rows[r]) \in Nat
    BY RowLengths
  <2>2. rows = <<>> <=> Len(rows) = 0
    BY SeqFacts
  <2> QED
    BY <2>1, <2>2
<1>3. PICK c \in Nat : c = IF rows = <<>> THEN 0 ELSE Len(rows[1])
  <2>1. rows # <<>> => 1 \in 1 .. n
    BY <1>2
  <2> QED
    BY <1>2, <2>1
<1>4. PICK ragged \in BOOLEAN : ragged <=> \E r \in DOMAIN rows : Len(rows[r]) # c
  OBVIOUS
<1>5. Cardinality({Len(rows[r]) : r \in DOMAIN rows}) > 1 <=> ragged
  BY <1>3, <1>4, RaggedRows
<1>6. PICK m, cols :
        /\ cols = [k \in 1 .. c |-> [r \in DOMAIN rows |-> rows[r][k]]]
        /\ m = IF ragged THEN Dead ELSE Ok(cols)
        /\ meant' = m /\ shape' = "rows" /\ stray' = {}
        /\ m.ok => Len(m.value) <= MaxLen
        /\ value' = Compile(CTranspose(rows), LlvmTranspose(rows), TsTranspose(rows))
  <2>1. PICK cols : cols = [k \in 1 .. c |-> [r \in DOMAIN rows |-> rows[r][k]]]
    OBVIOUS
  <2>2. meant' = IF ragged THEN Dead ELSE Ok(cols)
    <3>1. meant' = IF Cardinality({Len(rows[r]) : r \in DOMAIN rows}) > 1 THEN Dead
                   ELSE Ok([k \in 1 .. (IF rows = <<>> THEN 0 ELSE Len(rows[1])) |->
                              [r \in DOMAIN rows |-> rows[r][k]]])
      BY <1>1 DEF Transpose, Result
    <3> QED
      BY <1>3, <1>5, <2>1, <3>1
  <2>3. value' = Compile(CTranspose(rows), LlvmTranspose(rows), TsTranspose(rows))
    BY <1>1 DEF Transpose, Result, Compile
  <2>4. shape' = "rows" /\ stray' = {} /\ (meant'.ok => Len(meant'.value) <= MaxLen)
    BY DEF Transpose, Result
  <2> QED
    BY <2>1, <2>2, <2>3, <2>4
<1>7. Leaves("rows", m, {}, CTranspose(rows), LlvmTranspose(rows), TsTranspose(rows))
  <2>1. CASE ragged
    <3>1. CTranspose(rows) = Dead /\ LlvmTranspose(rows) = Dead /\ TsTranspose(rows) = Dead
      BY <1>3, <1>4, <2>1, TransposeNodes
    <3>2. m = Dead
      BY <1>6, <2>1
    <3> QED
      BY <3>1, <3>2, AllDead, KindFacts
  <2>2. CASE ~ragged
    <3>0. ~(\E r \in DOMAIN rows : Len(rows[r]) # c) /\ \A r \in DOMAIN rows : Len(rows[r]) = c
      BY <1>4, <2>2
    <3>1. /\ CTranspose(rows) = Ok(Columns(rows, c)) /\ LlvmTranspose(rows) = Ok(Columns(rows, c))
          /\ TsTranspose(rows) = Ok(Columns(rows, c))
          /\ Columns(rows, c) = [k \in 1 .. c |-> [r \in DOMAIN rows |-> rows[r][k]]]
      BY <1>3, <3>0, TransposeNodes
    <3>2. /\ Columns(rows, c) \in Seq(Seq(Ints)) /\ Len(Columns(rows, c)) = c
          /\ \A k \in 1 .. c : Len(Columns(rows, c)[k]) = Len(rows)
      BY <3>0, ColumnsFacts, ZenonT(60)
    <3>4. PICK f \in Seq(Seq(Ints)) :
            /\ Len(f) = c /\ \A k \in 1 .. c : Len(f[k]) = n
            /\ CTranspose(rows) = Ok(f) /\ LlvmTranspose(rows) = Ok(f) /\ TsTranspose(rows) = Ok(f)
            /\ f = cols
      BY <1>2, <1>6, <3>1, <3>2
    <3>3. m = Ok(f)
      BY <1>6, <2>2, <3>4
    <3>5. c <= MaxLen /\ n <= MaxLen
      BY <1>1, <1>2, <1>6, <3>3, <3>4, ResultFacts
    <3>6. Outcome("rows", Ok(f))
      <4>1. Len(f) <= MaxLen /\ \A r \in 1 .. Len(f) : Len(f[r]) <= n
        BY <3>4, <3>5
      <4> QED
        BY <3>5, <4>1, RowsOutcome
    <3> QED
      BY <3>3, <3>4, <3>6, AllOk, KindFacts
  <2> QED
    BY <2>1, <2>2
<1> QED
  BY <1>6, <1>7, CompiledStep

(* inner_length keeps the invariant.                                       *)
LEMMA InnerLengthStep ==
  ASSUME IInv, InnerLength
  PROVE  IInv'
<1>1. PICK rows \in Seq(Seq(Ints)) :
        /\ rows = meant.value /\ \A r \in DOMAIN rows : Len(rows[r]) \in Ints
        /\ \A b \in Targets : In(b) = rows
  BY GoingRows DEF InnerLength
<1>2. PICK k : /\ k = IF rows = <<>> THEN 0 ELSE Len(Head(rows))
               /\ k = IF rows = <<>> THEN 0 ELSE Len(rows[1])
               /\ CInnerLength(rows) = Ok(k) /\ LlvmInnerLength(rows) = Ok(k)
               /\ TsInnerLength(rows) = Ok(k)
  BY InnerLengthNodes
<1>3. k \in Ints
  <2>1. rows # <<>> => 1 \in DOMAIN rows
    BY SeqFacts
  <2> QED
    BY <1>1, <1>2, <2>1, GivenFacts
<1>4. PICK m : m = Ok(k)
  OBVIOUS
<1>5. shape' = "int" /\ stray' = {} /\ meant' = m /\ value' = Compile(m, m, m)
  BY <1>1, <1>2, <1>4 DEF InnerLength, Result, Compile
<1>6. Leaves("int", m, {}, m, m, m)
  BY <1>3, <1>4, AllOk, KindFacts
<1> QED
  BY <1>5, <1>6, CompiledStep

(* collect keeps the invariant.                                            *)
LEMMA CollectStep ==
  ASSUME IInv, Collect
  PROVE  IInv'
<1>1. PICK items \in Seq(Faultables) : items = meant.value /\ \A b \in Targets : In(b) = items
  BY Going DEF Collect, On, Holds
<1>2. PICK bad \in BOOLEAN : bad <=> \E k \in DOMAIN items : ~items[k].ok
  OBVIOUS
<1>3. PICK ys, m : /\ ys = [k \in DOMAIN items |-> items[k].value]
                   /\ m = IF bad THEN Fault("") ELSE Ok(ys)
  OBVIOUS
<1>4. /\ shape' = "seq" /\ stray' = {} /\ meant' = m
      /\ m.ok => Len(m.value) <= MaxLen
  <2>1. /\ meant' = IF \E k \in DOMAIN items : ~items[k].ok THEN Fault("")
                    ELSE Ok([k \in DOMAIN items |-> items[k].value])
        /\ shape' = "seq" /\ stray' = {} /\ (meant'.ok => Len(meant'.value) <= MaxLen)
    BY <1>1 DEF Collect, Result
  <2>2. meant' = m
    BY <1>2, <1>3, <2>1
  <2> QED
    BY <2>1, <2>2
<1>5. value' = Compile(CCollect(items), LlvmCollect(items), TsCollect(items))
  BY <1>1 DEF Collect, Result, Compile
<1>6. Leaves("seq", m, {}, CCollect(items), LlvmCollect(items), TsCollect(items))
  <2>1. CASE bad
    <3>1. PICK f \in Messages : /\ CCollect(items) = Fault(f) /\ LlvmCollect(items) = Fault(f)
                                /\ TsCollect(items) = Fault(f)
      BY <1>2, <2>1, CollectNodes
    <3>2. m = Fault("") /\ "" \in Messages
      BY <1>3, <2>1, GivenFacts
    <3>3. Outcome("seq", m) /\ Same(Fault(f), m) /\ "seq" \in Kinds
      BY <3>2, SameFacts, KindFacts
    <3> QED
      BY <3>1, <3>3, Agreed
  <2>2. CASE ~bad
    <3>1. ys \in Seq(Bits) /\ CCollect(items) = Ok(ys) /\ LlvmCollect(items) = Ok(ys)
          /\ TsCollect(items) = Ok(ys)
      BY <1>2, <1>3, <2>2, CollectNodes
    <3>2. m = Ok(ys)
      BY <1>3, <2>2
    <3>3. ys \in Seq(Ints)
      BY <3>1, GivenFacts, WiderSeq
    <3>4. Len(ys) <= MaxLen
      BY <1>4, <3>2, ResultFacts
    <3>5. Outcome("seq", Ok(ys)) /\ "seq" \in Kinds
      BY <3>3, <3>4, KindFacts
    <3> QED
      BY <3>1, <3>2, <3>5, AllOk
  <2> QED
    BY <2>1, <2>2
<1> QED
  BY <1>4, <1>5, <1>6, CompiledStep

(* expect_all keeps the invariant.                                         *)
LEMMA ExpectStep ==
  ASSUME IInv, Expect
  PROVE  IInv'
<1>1. /\ stray = {} /\ ~meant.ok /\ meant # Dead /\ meant' = Dead
      /\ shape' = shape /\ stray' = stray
      /\ value' = [b \in Targets |->
                     Compiled(b, CExpect(value[b]), LlvmExpect(value[b]), TsExpect(value[b]))]
  BY DEF Expect
<1>2. shape \in Kinds /\ \A b \in Targets : Same(value[b], meant)
  BY <1>1, StraysFacts DEF IInv, Good
<1>3. \A b \in Targets : ~value[b].ok
  BY <1>1, <1>2 DEF Same
<1>4. value' = Compile(Dead, Dead, Dead)
  BY <1>1, <1>3 DEF Compile, CExpect, LlvmExpect, TsExpect, DieIf
<1>5. PICK s \in Kinds : s = shape'
  BY <1>1, <1>2
<1>6. Leaves(s, Dead, {}, Dead, Dead, Dead)
  BY AllDead
<1> QED
  BY <1>1, <1>4, <1>5, <1>6, CompiledStep

(* group_by_id, on the targets that define it, keeps the invariant.        *)
LEMMA GroupByIdStep ==
  ASSUME IInv, GroupById
  PROVE  IInv'
<1>1. PICK xs \in Seq(Ints) :
        xs = meant.value /\ Len(xs) <= MaxLen /\ \A b \in Targets : In(b) = xs
  BY GoingSeq DEF GroupById
<1>2. PICK ids \in SeqsOf(0 .. 2, MaxLen) :
        Result("rows",
          IF Len(meant.value) = Len(ids) /\ Sorted(ids)
          THEN Ok([g \in 1 .. Cardinality(Seqs!ToSet(ids)) |->
                     RunMeant(meant.value, ids, IdOf(ids, g))])
          ELSE Dead,
          [b \in Targets |->
             Compiled(b, CGroupById(In(b), ids), LlvmGroupById(In(b), ids),
                      TsGroupById(In(b), ids))],
          Llvm \cup IF Len(meant.value) # Len(ids) /\ <<>> \in {meant.value, ids} THEN {}
                    ELSE TypeScript)
  BY DEF GroupById, Sorted, IdOf, RunMeant
<1>3. ids \in Seq(Nat)
  <2>1. PICK n \in 0 .. MaxLen : ids \in [1 .. n -> 0 .. 2]
    BY DEF SeqsOf
  <2>2. n \in Nat /\ ids = [k \in 1 .. n |-> ids[k]] /\ \A k \in 1 .. n : ids[k] \in Nat
    <3>1. MaxLen \in Nat
      BY GivenFacts
    <3> QED
      BY <2>1, <3>1
  <2> QED
    BY <2>2, Filled
<1>4. PICK sound \in BOOLEAN, none \in BOOLEAN, both \in BOOLEAN :
        /\ sound <=> Len(xs) = Len(ids) /\ Sorted(ids)
        /\ none <=> xs = <<>> \/ ids = <<>>
        /\ both <=> Len(xs) # Len(ids) /\ <<>> \in {xs, ids}
  OBVIOUS
<1>5. PICK m, rows, z, c, t :
        /\ rows = [g \in 1 .. Cardinality(Seqs!ToSet(ids)) |-> RunMeant(xs, ids, IdOf(ids, g))]
        /\ m = IF sound THEN Ok(rows) ELSE Dead
        /\ z = IF both THEN Llvm ELSE Llvm \cup TypeScript
        /\ c = CGroupById(xs, ids) /\ t = TsGroupById(xs, ids)
  OBVIOUS
<1>6. /\ shape' = "rows" /\ meant' = m /\ stray' = z
      /\ m.ok => Len(m.value) <= MaxLen
  <2>1. /\ shape' = "rows" /\ (meant'.ok => Len(meant'.value) <= MaxLen)
        /\ meant' = IF Len(meant.value) = Len(ids) /\ Sorted(ids)
                    THEN Ok([g \in 1 .. Cardinality(Seqs!ToSet(ids)) |->
                               RunMeant(meant.value, ids, IdOf(ids, g))])
                    ELSE Dead
        /\ stray' = Llvm \cup IF Len(meant.value) # Len(ids) /\ <<>> \in {meant.value, ids} THEN {}
                              ELSE TypeScript
    BY <1>2 DEF Result
  <2>2. meant' = m
    BY <1>1, <1>4, <1>5, <2>1
  <2>3. stray' = z
    BY <1>1, <1>4, <1>5, <2>1
  <2> QED
    BY <2>1, <2>2, <2>3
<1>7. value' = Compile(c, Refused, t)
  <2>1. LlvmGroupById(xs, ids) = Refused
    BY DEF LlvmGroupById
  <2> QED
    BY <1>1, <1>2, <1>5, <2>1 DEF Result, Compile
<1>8. Outcome("rows", m) /\ Same(c, m)
  <2>1. CASE ~sound
    <3>0. ~(Len(xs) = Len(ids) /\ Sorted(ids))
      BY <1>4, <2>1
    <3>1. m = Dead /\ c = Dead
      BY <1>3, <1>5, <2>1, <3>0, GroupNodes
    <3> QED
      BY <3>1, KindFacts, SameFacts
  <2>2. CASE sound
    <3>1. Len(xs) = Len(ids) /\ Sorted(ids)
      BY <1>4, <2>2
    <3>2. PICK G : G = Grouped(xs, ids)
      OBVIOUS
    <3>3. /\ c = Ok(G) /\ G \in Seq(Seq(Ints))
          /\ \A g \in 1 .. Len(G) : Len(G[g]) <= Len(xs)
          /\ rows = G
      BY <1>3, <1>5, <3>1, <3>2, GroupNodes
    <3>4. m = Ok(G)
      BY <1>5, <2>2, <3>3
    <3>5. Len(G) <= MaxLen
      BY <1>6, <3>4, ResultFacts
    <3>6. PICK n \in Nat : n = Len(xs) /\ n <= MaxLen
      BY <1>1, SeqFacts
    <3>7. Outcome("rows", Ok(G))
      <4>1. \A g \in 1 .. Len(G) : Len(G[g]) <= n
        BY <3>3, <3>6
      <4> QED
        BY <3>3, <3>5, <3>6, <4>1, RowsOutcome
    <3>8. Same(Ok(G), Ok(G))
      BY SameFacts
    <3> QED
      BY <3>3, <3>4, <3>7, <3>8
  <2> QED
    BY <2>1, <2>2
<1>9. Same(t, m) <=> both
  <2>1. t = IF none THEN Dead ELSE WrongShape
    BY <1>4, <1>5 DEF TsGroupById
  <2>2. CASE ~none
    <3>1. ~both /\ t = WrongShape
      BY <1>4, <2>1, <2>2
    <3> QED
      BY <3>1, SameFacts
  <2>3. CASE none /\ both
    <3>1. ~sound /\ m = Dead /\ t = Dead
      BY <1>4, <1>5, <2>1, <2>3
    <3> QED
      BY <2>3, <3>1, SameFacts
  <2>4. CASE none /\ ~both
    <3>1. Len(xs) = Len(ids)
      BY <1>4, <2>4
    <3>2. (xs = <<>> <=> Len(xs) = 0) /\ (ids = <<>> <=> Len(ids) = 0) /\ DOMAIN ids = 1 .. Len(ids)
      BY <1>3, SeqFacts
    <3>3. DOMAIN ids = {}
      BY <1>4, <2>4, <3>1, <3>2
    <3>4. Sorted(ids)
      BY <3>3 DEF Sorted
    <3>5. m = Ok(rows) /\ t = Dead
      BY <1>4, <1>5, <2>1, <2>4, <3>1, <3>4
    <3> QED
      BY <2>4, <3>5, SameFacts
  <2> QED
    BY <2>2, <2>3, <2>4
<1>10. PICK l : l = Refused
  OBVIOUS
<1>11. ~Same(l, m)
  BY <1>10, SameFacts
<1>12. Leaves("rows", m, z, c, l, t)
  <2>1. "rows" \in Kinds
    BY KindFacts
  <2>2. CASE both
    <3>1. z = Llvm
      BY <1>5, <2>2
    <3> QED
      BY <1>8, <1>9, <1>11, <2>1, <2>2, <3>1, Agreed
  <2>3. CASE ~both
    <3>1. z = Llvm \cup TypeScript
      BY <1>5, <2>3
    <3> QED
      BY <1>8, <1>9, <1>11, <2>1, <2>3, <3>1, Agreed
  <2> QED
    BY <2>2, <2>3
<1> QED
  BY <1>6, <1>7, <1>10, <1>12, CompiledStep

(* In every state the value in the pipe is of its kind, its documented     *)
(* meaning is a value of that kind, an abort or a fault a program can see, *)
(* and unless every target strays, a target holds the documented outcome   *)
(* exactly when the last call does not name it.                            *)
THEOREM Invariance == Spec => []IInv
<1>1. Init => IInv
  BY Starting
<1>2. IInv /\ [Next]_vars => IInv'
  <2> SUFFICES ASSUME IInv, [Next]_vars
               PROVE  IInv'
    OBVIOUS
  <2>1. CASE IntBinary
    BY <2>1, IntBinaryStep
  <2>2. CASE IntUnary
    BY <2>2, IntUnaryStep
  <2>3. CASE IntMinMax
    BY <2>3, IntMinMaxStep
  <2>4. CASE Shift
    BY <2>4, ShiftStep
  <2>5. CASE UndefinedShift
    BY <2>5, UndefinedShiftStep
  <2>6. CASE FloatBinary
    BY <2>6, FloatBinaryStep
  <2>7. CASE SquareRoot
    BY <2>7, SquareRootStep
  <2>8. CASE FloatAbs
    BY <2>8, FloatAbsStep
  <2>9. CASE FloatMinMax
    BY <2>9, FloatMinMaxStep
  <2>10. CASE Comparison
    BY <2>10, ComparisonStep
  <2>11. CASE Fill
    BY <2>11, FillStep
  <2>12. CASE RangeStep
    BY <2>12, RangeStepStep
  <2>13. CASE HeadOrLast
    BY <2>13, HeadOrLastStep
  <2>14. CASE AtOrGet
    BY <2>14, AtOrGetStep
  <2>15. CASE GetOr
    BY <2>15, GetOrStep
  <2>16. CASE SetItem
    BY <2>16, SetItemStep
  <2>17. CASE AllOrAny
    BY <2>17, AllOrAnyStep
  <2>18. CASE TailOrReverse
    BY <2>18, TailOrReverseStep
  <2>19. CASE TakeOrDrop
    BY <2>19, TakeOrDropStep
  <2>20. CASE Slice
    BY <2>20, SliceStep
  <2>21. CASE AppendItem
    BY <2>21, AppendItemStep
  <2>22. CASE Concat
    BY <2>22, ConcatStep
  <2>23. CASE ShiftItems
    BY <2>23, ShiftItemsStep
  <2>24. CASE Zip
    BY <2>24, ZipStep
  <2>25. CASE BroadcastRight
    BY <2>25, BroadcastRightStep
  <2>26. CASE BroadcastLeft
    BY <2>26, BroadcastLeftStep
  <2>27. CASE GroupById
    BY <2>27, GroupByIdStep
  <2>28. CASE Flatten
    BY <2>28, FlattenStep
  <2>29. CASE Transpose
    BY <2>29, TransposeStep
  <2>30. CASE InnerLength
    BY <2>30, InnerLengthStep
  <2>31. CASE Collect
    BY <2>31, CollectStep
  <2>32. CASE Expect
    BY <2>32, ExpectStep
  <2>33. CASE UNCHANGED vars
    BY <2>33 DEF vars, IInv
  <2> QED
    BY <2>1, <2>2, <2>3, <2>4, <2>5, <2>6, <2>7, <2>8, <2>9, <2>10, <2>11,
       <2>12, <2>13,
       <2>14, <2>15, <2>16, <2>17, <2>18, <2>19, <2>20, <2>21, <2>22, <2>23, <2>24, <2>25,
       <2>26, <2>27, <2>28, <2>29, <2>30, <2>31, <2>32, <2>33
    DEF Next
<1> QED
  BY <1>1, <1>2, PTL DEF Spec

-----------------------------------------------------------------------------
(* The properties that follow.                                             *)

(* SequencesKeepMeaning holds in every reachable state: no chain of        *)
(* sequence calls, on sequences of any length, leaves a target with        *)
(* anything but the documented outcome, targets that are known to stray    *)
(* apart.                                                                  *)
THEOREM SequencesMean == Spec => []SequencesKeepMeaning
<1>1. IInv => SequencesKeepMeaning
  BY DEF IInv, Good, SequencesKeepMeaning
<1> QED
  BY <1>1, Invariance, PTL

(* ScalarsKeepMeaning holds in every reachable state: the same for scalar  *)
(* calls, for registers of any width and floats of any range.              *)
THEOREM ScalarsMean == Spec => []ScalarsKeepMeaning
<1>1. IInv => ScalarsKeepMeaning
  BY DEF IInv, Good, ScalarsKeepMeaning
<1> QED
  BY <1>1, Invariance, PTL

(* What a faultable function answers beside the checked one.               *)
Match(faultable, checked) ==
  IF checked.ok THEN faultable = checked
  ELSE checked = Dead /\ ~faultable.ok /\ faultable # Dead

(* Where one faults and the other aborts, they match.                      *)
LEMMA Matching ==
  ASSUME NEW bad \in BOOLEAN, NEW v, NEW f, NEW c, Faults(f, bad, v), Aborts(c, bad, v)
  PROVE  Match(f, c)
<1>1. CASE bad
  <2>1. PICK g \in Messages : f = Fault(g)
    BY <1>1 DEF Faults
  <2>2. c = Dead
    BY <1>1 DEF Aborts
  <2> QED
    BY <2>1, <2>2, ResultFacts DEF Match
<1>2. CASE ~bad
  BY <1>2, ResultFacts DEF Faults, Aborts, Match
<1> QED
  BY <1>1, <1>2

(* Quotient and remainder make up the number divided.                      *)
Rebuilds(q, r, x, y) == q.ok => r.ok /\ q.value * y + r.value = x

(* A quotient and a remainder that fault alike do.                         *)
LEMMA Rebuilding ==
  ASSUME NEW x \in Ints, NEW y \in Ints, NEW bad \in BOOLEAN, bad <=> Bad("div", x, y),
         NEW q, NEW r, Faults(q, bad, Exact("div", x, y)), Faults(r, bad, Exact("rem", x, y))
  PROVE  Rebuilds(q, r, x, y)
<1>1. CASE bad
  <2>1. ~q.ok
    BY <1>1, ResultFacts DEF Faults
  <2> QED
    BY <2>1 DEF Rebuilds
<1>2. CASE ~bad
  <2>1. q = Ok(Exact("div", x, y)) /\ r = Ok(Exact("rem", x, y))
    BY <1>2 DEF Faults
  <2>2. PICK e \in Int : e = TruncDiv(x, y)
    <3>1. ~Bad("div", x, y)
      BY <1>2
    <3>2. Exact("div", x, y) \in Ints /\ Exact("div", x, y) = TruncDiv(x, y)
      BY <3>1, ExactFacts DEF Dividing, Exact
    <3> QED
      BY <3>2, IntsFacts
  <2>3. Exact("div", x, y) = e /\ Exact("rem", x, y) = x - y * e
    BY <2>2 DEF Exact, TruncRem
  <2>4. x \in Int /\ y \in Int
    BY IntsFacts
  <2>5. e * y + (x - y * e) = x
    BY <2>4
  <2> QED
    BY <2>1, <2>3, <2>5, ResultFacts DEF Rebuilds
<1> QED
  BY <1>1, <1>2

(* What FaultsMatchChecks says of an integer.                              *)
LEMMA IntsMatch ==
  ASSUME NEW x \in Ints
  PROVE  /\ \A op \in {"neg", "abs"} :
              /\ Match(CFaultableUnary(op, x), CCheckedUnary(op, x))
              /\ Match(WasmFaultableUnary(op, x), WasmCheckedUnary(op, x))
              /\ Match(TsFaultableUnary(op, x), TsCheckedUnary(op, x))
         /\ \A y \in Ints :
              /\ \A op \in Overflowing \cup Dividing :
                   /\ Match(CFaultable(op, x, y), CChecked(op, x, y))
                   /\ Match(WasmFaultable(op, x, y), WasmChecked(op, x, y))
                   /\ Match(TsFaultable(op, x, y), TsChecked(op, x, y))
              /\ \A op \in Overflowing :
                   Match(WorkerFaultable(op, x, y), WorkerChecked(op, x, y))
              /\ Rebuilds(CFaultable("div", x, y), CFaultable("rem", x, y), x, y)
              /\ Rebuilds(WasmFaultable("div", x, y), WasmFaultable("rem", x, y), x, y)
              /\ Rebuilds(TsFaultable("div", x, y), TsFaultable("rem", x, y), x, y)
<1>1. ASSUME NEW op \in {"neg", "abs"}
      PROVE  /\ Match(CFaultableUnary(op, x), CCheckedUnary(op, x))
             /\ Match(WasmFaultableUnary(op, x), WasmCheckedUnary(op, x))
             /\ Match(TsFaultableUnary(op, x), TsCheckedUnary(op, x))
  <2>1. PICK bad, e : bad \in BOOLEAN /\ (bad <=> x = IntMin) /\ e = Unary(op, x)
    OBVIOUS
  <2>2. /\ Aborts(CCheckedUnary(op, x), bad, e) /\ Aborts(WasmCheckedUnary(op, x), bad, e)
        /\ Aborts(TsCheckedUnary(op, x), bad, e)
    BY <2>1, UnaryNodes DEF Aborts
  <2>3. /\ Faults(CFaultableUnary(op, x), bad, e) /\ Faults(WasmFaultableUnary(op, x), bad, e)
        /\ Faults(TsFaultableUnary(op, x), bad, e)
    BY <2>1, UnaryNodes DEF Faults
  <2> QED
    BY <2>1, <2>2, <2>3, Matching
<1>2. ASSUME NEW y \in Ints, NEW op \in Overflowing \cup Dividing
      PROVE  /\ Match(CFaultable(op, x, y), CChecked(op, x, y))
             /\ Match(WasmFaultable(op, x, y), WasmChecked(op, x, y))
             /\ Match(TsFaultable(op, x, y), TsChecked(op, x, y))
             /\ Match(WorkerFaultable(op, x, y), WorkerChecked(op, x, y))
  <2>1. PICK bad, e : bad \in BOOLEAN /\ (bad <=> Bad(op, x, y)) /\ e = Exact(op, x, y)
    OBVIOUS
  <2>2. /\ Aborts(CChecked(op, x, y), bad, e) /\ Aborts(WasmChecked(op, x, y), bad, e)
        /\ Aborts(TsChecked(op, x, y), bad, e) /\ Aborts(WorkerChecked(op, x, y), bad, e)
    BY <2>1, CheckedNodes DEF Aborts
  <2>3. /\ Faults(CFaultable(op, x, y), bad, e) /\ Faults(WasmFaultable(op, x, y), bad, e)
        /\ Faults(TsFaultable(op, x, y), bad, e) /\ Faults(WorkerFaultable(op, x, y), bad, e)
    BY <2>1, FaultableNodes DEF Faults
  <2> QED
    BY <2>1, <2>2, <2>3, Matching
<1>3. ASSUME NEW y \in Ints
      PROVE  /\ Rebuilds(CFaultable("div", x, y), CFaultable("rem", x, y), x, y)
             /\ Rebuilds(WasmFaultable("div", x, y), WasmFaultable("rem", x, y), x, y)
             /\ Rebuilds(TsFaultable("div", x, y), TsFaultable("rem", x, y), x, y)
  <2>1. PICK bad \in BOOLEAN : bad <=> Bad("div", x, y)
    OBVIOUS
  <2>2. "div" \in Overflowing \cup Dividing /\ "rem" \in Overflowing \cup Dividing
    BY DEF Dividing
  <2>3. bad <=> Bad("rem", x, y)
    BY <2>1 DEF Bad, Dividing, Overflowing
  <2>4. /\ Faults(CFaultable("div", x, y), bad, Exact("div", x, y))
        /\ Faults(WasmFaultable("div", x, y), bad, Exact("div", x, y))
        /\ Faults(TsFaultable("div", x, y), bad, Exact("div", x, y))
    BY <2>1, <2>2, FaultableNodes DEF Faults
  <2>5. /\ Faults(CFaultable("rem", x, y), bad, Exact("rem", x, y))
        /\ Faults(WasmFaultable("rem", x, y), bad, Exact("rem", x, y))
        /\ Faults(TsFaultable("rem", x, y), bad, Exact("rem", x, y))
    BY <2>2, <2>3, FaultableNodes DEF Faults
  <2> QED
    BY <2>1, <2>4, <2>5, Rebuilding
<1> QED
  BY <1>1, <1>2, <1>3

(* The same for a float.                                                   *)
LEMMA FloatsMatch ==
  ASSUME NEW x \in Floats
  PROVE  /\ Match(CFaultableSqrt(x), CCheckedSqrt(x))
         /\ Match(WasmFaultableSqrt(x), WasmCheckedSqrt(x))
         /\ Match(TsFaultableSqrt(x), TsCheckedSqrt(x))
         /\ \A y \in Floats, op \in Dividing :
              /\ Match(CFaultableFloat(op, x, y), CCheckedFloat(op, x, y))
              /\ Match(WasmFaultableFloat(op, x, y), WasmCheckedFloat(op, x, y))
              /\ Match(TsFaultableFloat(op, x, y), TsCheckedFloat(op, x, y))
<1>1. /\ Match(CFaultableSqrt(x), CCheckedSqrt(x))
      /\ Match(WasmFaultableSqrt(x), WasmCheckedSqrt(x))
      /\ Match(TsFaultableSqrt(x), TsCheckedSqrt(x))
  <2>1. PICK bad, e : bad \in BOOLEAN /\ (bad <=> Negative(x)) /\ e = Root(x)
    OBVIOUS
  <2>2. /\ Aborts(CCheckedSqrt(x), bad, e) /\ Aborts(WasmCheckedSqrt(x), bad, e)
        /\ Aborts(TsCheckedSqrt(x), bad, e)
    BY <2>1, RootNodes DEF Aborts
  <2>3. /\ Faults(CFaultableSqrt(x), bad, e) /\ Faults(WasmFaultableSqrt(x), bad, e)
        /\ Faults(TsFaultableSqrt(x), bad, e)
    BY <2>1, RootNodes DEF Faults
  <2> QED
    BY <2>1, <2>2, <2>3, Matching
<1>2. ASSUME NEW y \in Floats, NEW op \in Dividing
      PROVE  /\ Match(CFaultableFloat(op, x, y), CCheckedFloat(op, x, y))
             /\ Match(WasmFaultableFloat(op, x, y), WasmCheckedFloat(op, x, y))
             /\ Match(TsFaultableFloat(op, x, y), TsCheckedFloat(op, x, y))
  <2>1. PICK bad, e, g :
          bad \in BOOLEAN
          /\ (bad <=> y \in {0, NegZero}) /\ e = FloatValue(op, x, y) /\ g = WasmFloatValue(op, x, y)
    OBVIOUS
  <2>2. /\ Aborts(CCheckedFloat(op, x, y), bad, e) /\ Aborts(WasmCheckedFloat(op, x, y), bad, g)
        /\ Aborts(TsCheckedFloat(op, x, y), bad, e)
    BY <2>1, FloatNodes DEF Aborts
  <2>3. /\ Faults(CFaultableFloat(op, x, y), bad, e) /\ Faults(WasmFaultableFloat(op, x, y), bad, g)
        /\ Faults(TsFaultableFloat(op, x, y), bad, e)
    BY <2>1, FloatNodes DEF Faults
  <2> QED
    BY <2>1, <2>2, <2>3, Matching
<1> QED
  BY <1>1, <1>2

(* FaultsMatchChecks holds in every reachable state: on every target the   *)
(* Faultable form of a numeric node faults exactly where the checked form  *)
(* aborts, and both give the same number elsewhere; quotient and remainder *)
(* rebuild the number divided.                                             *)
THEOREM FaultsMatch == Spec => []FaultsMatchChecks
<1>1. IInv => FaultsMatchChecks
  <2> SUFFICES ASSUME IInv, meant.ok
               PROVE  CASE shape = "int" ->
              LET x == meant.value IN
              /\ \A op \in {"neg", "abs"} :
                   /\ Match(CFaultableUnary(op, x), CCheckedUnary(op, x))
                   /\ Match(WasmFaultableUnary(op, x), WasmCheckedUnary(op, x))
                   /\ Match(TsFaultableUnary(op, x), TsCheckedUnary(op, x))
              /\ \A y \in Ints :
                   /\ \A op \in Overflowing \cup Dividing :
                        /\ Match(CFaultable(op, x, y), CChecked(op, x, y))
                        /\ Match(WasmFaultable(op, x, y), WasmChecked(op, x, y))
                        /\ Match(TsFaultable(op, x, y), TsChecked(op, x, y))
                   /\ \A op \in Overflowing :
                        Match(WorkerFaultable(op, x, y), WorkerChecked(op, x, y))
                   /\ Rebuilds(CFaultable("div", x, y), CFaultable("rem", x, y), x, y)
                   /\ Rebuilds(WasmFaultable("div", x, y), WasmFaultable("rem", x, y), x, y)
                   /\ Rebuilds(TsFaultable("div", x, y), TsFaultable("rem", x, y), x, y)
         [] shape = "float" ->
              LET x == meant.value IN
              /\ Match(CFaultableSqrt(x), CCheckedSqrt(x))
              /\ Match(WasmFaultableSqrt(x), WasmCheckedSqrt(x))
              /\ Match(TsFaultableSqrt(x), TsCheckedSqrt(x))
              /\ \A y \in Floats, op \in Dividing :
                   /\ Match(CFaultableFloat(op, x, y), CCheckedFloat(op, x, y))
                   /\ Match(WasmFaultableFloat(op, x, y), WasmCheckedFloat(op, x, y))
                   /\ Match(TsFaultableFloat(op, x, y), TsCheckedFloat(op, x, y))
         [] OTHER -> TRUE
    BY DEF FaultsMatchChecks, Match, Rebuilds
  <2>1. Holds(shape, meant.value)
    BY DEF IInv, Good, Outcome
  <2>2. CASE shape = "int"
    <3>1. PICK x \in Ints : x = meant.value
      BY <2>1, <2>2 DEF Holds
    <3> QED
      BY <2>2, <3>1, IntsMatch
  <2>3. CASE shape = "float"
    <3>1. PICK x \in Floats : x = meant.value
      BY <2>1, <2>3 DEF Holds
    <3> QED
      BY <2>3, <3>1, FloatsMatch
  <2>4. CASE shape \notin {"int", "float"}
    BY <2>4
  <2> QED
    BY <2>2, <2>3, <2>4
<1> QED
  BY <1>1, Invariance, PTL

-----------------------------------------------------------------------------
(* Parts of a sequence, put together again.                                *)

(* Sequences with the same items are the same.                             *)
LEMMA SameItems ==
  ASSUME NEW S, NEW xs \in Seq(S), NEW ys \in Seq(S), Len(xs) = Len(ys),
         \A k \in 1 .. Len(xs) : xs[k] = ys[k]
  PROVE  xs = ys
<1>1. PICK n \in Nat : n = Len(xs) /\ n = Len(ys)
  BY SeqFacts
<1>2. xs = [k \in 1 .. n |-> xs[k]] /\ ys = [k \in 1 .. n |-> ys[k]]
  BY <1>1, SeqFacts
<1> QED
  BY <1>1, <1>2

(* What take leaves and drop leaves are the two halves.                    *)
LEMMA CutsJoin ==
  ASSUME NEW S, NEW xs \in Seq(S), NEW k \in 0 .. Len(xs)
  PROVE  /\ Cut(xs, 0, k) \in Seq(S) /\ Cut(xs, k, Len(xs) - k) \in Seq(S)
         /\ Cut(xs, 0, k) \o Cut(xs, k, Len(xs) - k) = xs
<1>0. PICK us, ws : us = Cut(xs, 0, k) /\ ws = Cut(xs, k, Len(xs) - k)
  OBVIOUS
<1>1. PICK n \in Nat : n = Len(xs) /\ xs = [j \in 1 .. n |-> xs[j]]
  BY SeqFacts
<1>2. k \in Nat /\ k <= n /\ n - k \in 0 .. Len(xs) - k
  BY <1>1
<1>3. us \in Seq(S) /\ Len(us) = k /\ \A j \in 1 .. k : us[j] = xs[j]
  BY <1>0, CutStart
<1>4. ws \in Seq(S) /\ Len(ws) = n - k /\ \A j \in 1 .. n - k : ws[j] = xs[k + j]
  BY <1>0, <1>1, <1>2, CutFacts
<1>5. PICK zs : zs = us \o ws
  OBVIOUS
<1>6. zs \in Seq(S) /\ Len(zs) = n
  <2>1. us \o ws \in Seq(S) /\ Len(us \o ws) = Len(us) + Len(ws)
    BY <1>3, <1>4, ConcatProperties
  <2>2. PICK m \in Nat : m = n - k /\ k + m = n
    BY <1>2
  <2> QED
    BY <1>3, <1>4, <1>5, <2>1, <2>2
<1>7. ASSUME NEW j \in 1 .. n PROVE zs[j] = xs[j]
  <2>1. CASE j <= k
    <3>1. zs[j] = us[j]
      BY <1>2, <1>3, <1>4, <1>5, <2>1
    <3> QED
      BY <1>3, <2>1, <3>1
  <2>2. CASE ~(j <= k)
    <3>1. PICK i \in 1 .. n - k : i = j - k /\ k + i = j
      BY <1>2, <2>2
    <3>2. zs[j] = ws[i]
      BY <1>2, <1>3, <1>4, <1>5, <2>2, <3>1
    <3> QED
      BY <1>4, <3>1, <3>2
  <2> QED
    BY <2>1, <2>2
<1>8. zs = xs
  BY <1>1, <1>6, <1>7, SameItems
<1> QED
  BY <1>0, <1>3, <1>4, <1>5, <1>8

(* On each back end, what take and drop make of a sequence concatenates to *)
(* it.                                                                     *)
LEMMA TakeAndDrop ==
  ASSUME NEW S, NEW xs \in Seq(S), NEW n \in Nat
  PROVE  /\ CConcat(CTake(xs, n).value, CDrop(xs, n).value) = Ok(xs)
         /\ LlvmConcat(LlvmTake(xs, n).value, LlvmDrop(xs, n).value) = Ok(xs)
         /\ TsConcat(TsTake(xs, n).value, TsDrop(xs, n).value) = Ok(xs)
<1>1. PICK k : k = Clamp(n, Len(xs))
  OBVIOUS
<1>2. k \in 0 .. Len(xs)
  BY <1>1, SeqFacts, ClampFacts
<1>3. PICK us, ws : us = Cut(xs, 0, k) /\ ws = Cut(xs, k, Len(xs) - k)
  OBVIOUS
<1>4. us \in Seq(S) /\ ws \in Seq(S) /\ us \o ws = xs
  BY <1>2, <1>3, CutsJoin
<1>5. CTake(xs, n) = Ok(us) /\ LlvmTake(xs, n) = Ok(us) /\ TsTake(xs, n) = Ok(us)
  BY <1>1, <1>3, TakeNodes
<1>6. CDrop(xs, n) = Ok(ws) /\ LlvmDrop(xs, n) = Ok(ws) /\ TsDrop(xs, n) = Ok(ws)
  BY <1>1, <1>3, DropNodes
<1>7. Ok(us).value = us /\ Ok(ws).value = ws
  BY ResultFacts
<1>8. CConcat(us, ws) = Ok(xs) /\ LlvmConcat(us, ws) = Ok(xs) /\ TsConcat(us, ws) = Ok(xs)
  BY <1>4, ConcatNodes
<1> QED
  BY <1>5, <1>6, <1>7, <1>8

(* A slice is a drop from what take leaves.                                *)
LEMMA SliceIsDropOfTake ==
  ASSUME NEW S, NEW xs \in Seq(S), NEW i \in 0 .. Len(xs), NEW j \in 0 .. Len(xs), i <= j
  PROVE  /\ CSlice(xs, i, j) = CDrop(CTake(xs, j).value, i)
         /\ LlvmSlice(xs, i, j) = LlvmDrop(LlvmTake(xs, j).value, i)
         /\ TsSlice(xs, i, j) = TsDrop(TsTake(xs, j).value, i)
<1>1. PICK n \in Nat : n = Len(xs)
  BY SeqFacts
<1>2. /\ i \in Nat /\ j \in Nat /\ i \in Int /\ j \in Int /\ 0 <= i /\ j <= Len(xs)
      /\ j - i \in 0 .. Len(xs) - i /\ j - i \in Nat
  BY <1>1
<1>3. PICK us : us = Cut(xs, 0, j)
  OBVIOUS
<1>4. us \in Seq(S) /\ Len(us) = j /\ \A k \in 1 .. j : us[k] = xs[k]
  BY <1>3, CutStart
<1>5. Clamp(j, Len(xs)) = j /\ Clamp(i, Len(us)) = i
  BY <1>1, <1>2, <1>4, ClampFacts
<1>6. CTake(xs, j) = Ok(us) /\ LlvmTake(xs, j) = Ok(us) /\ TsTake(xs, j) = Ok(us)
  <2>1. PICK k : k = Clamp(j, Len(xs)) /\ k = j
    BY <1>5
  <2>2. PICK u : u = Cut(xs, 0, k)
    OBVIOUS
  <2>3. j \in Nat
    BY <1>2
  <2>4. CTake(xs, j) = Ok(u) /\ LlvmTake(xs, j) = Ok(u) /\ TsTake(xs, j) = Ok(u)
    <3>1. /\ CTake(xs, j) = Ok(Cut(xs, 0, k)) /\ LlvmTake(xs, j) = Ok(Cut(xs, 0, k))
          /\ TsTake(xs, j) = Ok(Cut(xs, 0, k))
      BY <2>1, <2>3, TakeNodes, ZenonT(60)
    <3> QED
      BY <2>2, <3>1
  <2> QED
    BY <1>3, <2>1, <2>2, <2>4
<1>7. PICK ws, vs : ws = Cut(xs, i, j - i) /\ vs = Cut(us, i, Len(us) - i)
  OBVIOUS
<1>8. CDrop(us, i) = Ok(vs) /\ LlvmDrop(us, i) = Ok(vs) /\ TsDrop(us, i) = Ok(vs)
  <2>1. PICK k : k = Clamp(i, Len(us)) /\ k = i
    BY <1>5
  <2>2. PICK v : v = Cut(us, k, Len(us) - k)
    OBVIOUS
  <2>3. i \in Nat /\ us \in Seq(S)
    BY <1>2, <1>4
  <2>4. CDrop(us, i) = Ok(v) /\ LlvmDrop(us, i) = Ok(v) /\ TsDrop(us, i) = Ok(v)
    <3>1. /\ CDrop(us, i) = Ok(Cut(us, k, Len(us) - k))
          /\ LlvmDrop(us, i) = Ok(Cut(us, k, Len(us) - k))
          /\ TsDrop(us, i) = Ok(Cut(us, k, Len(us) - k))
      BY <2>1, <2>3, DropNodes, ZenonT(60)
    <3> QED
      BY <2>2, <3>1
  <2> QED
    BY <1>7, <2>1, <2>2, <2>4
<1>9. CSlice(xs, i, j) = Ok(ws) /\ LlvmSlice(xs, i, j) = Ok(ws) /\ TsSlice(xs, i, j) = Ok(ws)
  BY <1>2, <1>7, SliceNodes
<1>10. vs = ws
  <2>1. \A k \in 1 .. j - i : i + k \in 1 .. j
    BY <1>2
  <2>2. \A k \in 1 .. j - i : us[i + k] = xs[i + k]
    BY <1>4, <2>1
  <2>3. vs = [k \in 1 .. j - i |-> us[i + k]] /\ ws = [k \in 1 .. j - i |-> xs[i + k]]
    BY <1>4, <1>7 DEF Cut
  <2> QED
    BY <2>2, <2>3
<1>11. Ok(us).value = us
  BY ResultFacts
<1> QED
  BY <1>6, <1>8, <1>9, <1>10, <1>11

(* Reversing twice gives the sequence back.                                *)
LEMMA ReverseTwice ==
  ASSUME NEW S, NEW xs \in Seq(S)
  PROVE  /\ CReverse(CReverse(xs).value) = Ok(xs)
         /\ LlvmReverse(LlvmReverse(xs).value) = Ok(xs)
         /\ TsReverse(TsReverse(xs).value) = Ok(xs)
<1>1. PICK n \in Nat : n = Len(xs) /\ xs = [k \in 1 .. n |-> xs[k]]
  BY SeqFacts
<1>2. PICK ys \in Seq(S) :
        /\ Len(ys) = Len(xs) /\ \A k \in 1 .. Len(xs) : ys[k] = xs[Len(xs) + 1 - k]
        /\ CReverse(xs) = Ok(ys) /\ LlvmReverse(xs) = Ok(ys) /\ TsReverse(xs) = Ok(ys)
  BY ReverseNodes
<1>3. PICK zs \in Seq(S) :
        /\ Len(zs) = Len(ys) /\ \A k \in 1 .. Len(ys) : zs[k] = ys[Len(ys) + 1 - k]
        /\ CReverse(ys) = Ok(zs) /\ LlvmReverse(ys) = Ok(zs) /\ TsReverse(ys) = Ok(zs)
  BY ReverseNodes
<1>4. ASSUME NEW k \in 1 .. n PROVE zs[k] = xs[k]
  <2>1. PICK l \in 1 .. n : l = n + 1 - k /\ n + 1 - l = k
    <3>1. n + 1 - k \in 1 .. n /\ n + 1 - (n + 1 - k) = k
      OBVIOUS
    <3> QED
      BY <3>1
  <2>2. zs[k] = ys[l]
    BY <1>1, <1>2, <1>3, <2>1
  <2>3. ys[l] = xs[k]
    BY <1>1, <1>2, <2>1
  <2> QED
    BY <2>2, <2>3
<1>5. zs = xs
  <2>1. zs \in Seq(S) /\ Len(zs) = Len(xs) /\ \A k \in 1 .. Len(zs) : zs[k] = xs[k]
    BY <1>1, <1>2, <1>3, <1>4
  <2> QED
    BY <2>1, SameItems
<1>6. Ok(ys).value = ys
  BY ResultFacts
<1> QED
  BY <1>2, <1>3, <1>5, <1>6

(* Appending the last item to the others gives the sequence back.          *)
LEMMA AppendLast ==
  ASSUME NEW S, NEW xs \in Seq(S), xs # <<>>, NEW n, n = Len(xs)
  PROVE  /\ CAppend(CTake(xs, n - 1).value, CLast(xs).value) = Ok(xs)
         /\ LlvmAppend(LlvmTake(xs, n - 1).value, LlvmLast(xs).value) = Ok(xs)
         /\ TsAppend(TsTake(xs, n - 1).value, TsLast(xs).value) = Ok(xs)
<1>1. n \in Nat /\ n # 0 /\ xs = [k \in 1 .. n |-> xs[k]] /\ \A k \in 1 .. n : xs[k] \in S
  BY SeqFacts
<1>2. PICK j \in Nat : j = n - 1 /\ j + 1 = n /\ j <= n
  <2>1. n \in Nat \ {0}
    BY <1>1
  <2>2. n - 1 \in Nat /\ (n - 1) + 1 = n /\ n - 1 <= n
    BY <2>1
  <2> QED
    BY <2>2
<1>3. PICK us : us = Cut(xs, 0, j)
  OBVIOUS
<1>4. j \in 0 .. Len(xs)
  BY <1>2
<1>5. us \in Seq(S) /\ Len(us) = j /\ \A k \in 1 .. j : us[k] = xs[k]
  BY <1>3, <1>4, CutStart
<1>6. Clamp(j, Len(xs)) = j
  BY <1>1, <1>2, ClampFacts
<1>7. CTake(xs, j) = Ok(us) /\ LlvmTake(xs, j) = Ok(us) /\ TsTake(xs, j) = Ok(us)
  BY <1>3, <1>6, TakeNodes
<1>8. PICK v \in S : v = xs[n]
  BY <1>1
<1>9. CLast(xs) = Ok(v) /\ LlvmLast(xs) = Ok(v) /\ TsLast(xs) = Ok(v)
  BY <1>8, HeadNodes
<1>10. PICK zs : zs = Append(us, v)
  OBVIOUS
<1>11. zs \in Seq(S) /\ Len(zs) = n /\ zs[n] = v /\ \A k \in 1 .. j : zs[k] = us[k]
  BY <1>2, <1>5, <1>10
<1>12. ASSUME NEW k \in 1 .. n PROVE zs[k] = xs[k]
  <2>1. k = n \/ k \in 1 .. j
    BY <1>1, <1>2
  <2> QED
    BY <1>5, <1>8, <1>11, <2>1
<1>13. zs = xs
  BY <1>11, <1>12, SameItems
<1>14. CAppend(us, v) = Ok(xs) /\ LlvmAppend(us, v) = Ok(xs) /\ TsAppend(us, v) = Ok(xs)
  BY <1>5, <1>10, <1>13, AppendNodes
<1>15. Ok(us).value = us /\ Ok(v).value = v
  BY ResultFacts
<1> QED
  BY <1>2, <1>7, <1>9, <1>14, <1>15

(* Setting an item to what it was changes nothing.                         *)
LEMMA SetBack ==
  ASSUME NEW S, NEW xs \in Seq(S), NEW i \in 0 .. Len(xs) - 1
  PROVE  /\ CSet(xs, i, CAt(xs, i).value) = Ok(xs)
         /\ LlvmSet(xs, i, LlvmAt(xs, i).value) = Ok(xs)
<1>1. PICK n \in Nat : n = Len(xs) /\ DOMAIN xs = 1 .. n /\ xs = [k \in 1 .. n |-> xs[k]]
                       /\ \A k \in 1 .. n : xs[k] \in S
  BY SeqFacts
<1>2. i \in Int /\ i + 1 \in DOMAIN xs
  BY <1>1
<1>3. PICK v \in S : v = xs[i + 1]
  BY <1>1, <1>2
<1>4. CAt(xs, i) = Ok(v) /\ LlvmAt(xs, i) = Ok(v)
  BY <1>2, <1>3, IndexNodes
<1>5. PICK zs : zs = [xs EXCEPT ![i + 1] = v]
  OBVIOUS
<1>6. CSet(xs, i, v) = Ok(zs) /\ LlvmSet(xs, i, v) = Ok(zs)
  <2>1. /\ CSet(xs, i, v) = Ok([xs EXCEPT ![i + 1] = v])
        /\ LlvmSet(xs, i, v) = Ok([xs EXCEPT ![i + 1] = v])
    BY <1>2, SetNodes
  <2> QED
    BY <1>5, <2>1
<1>7. zs = xs
  BY <1>1, <1>3, <1>5
<1>8. Ok(v).value = v
  BY ResultFacts
<1> QED
  BY <1>4, <1>6, <1>7, <1>8

(* Transposing twice gives rows back, unless there are none or they are    *)
(* empty.                                                                  *)
LEMMA TransposeTwice ==
  ASSUME NEW S, NEW rows \in Seq(Seq(S)), rows # <<>>, rows[1] # <<>>
  PROVE  /\ CTranspose(rows).ok => CTranspose(CTranspose(rows).value) = Ok(rows)
         /\ LlvmTranspose(rows).ok => LlvmTranspose(LlvmTranspose(rows).value) = Ok(rows)
         /\ TsTranspose(rows).ok => TsTranspose(TsTranspose(rows).value) = Ok(rows)
<1>1. PICK n \in Nat : n = Len(rows) /\ DOMAIN rows = 1 .. n
                       /\ \A r \in 1 .. n : rows[r] \in Seq(S) /\ Len(rows[r]) \in Nat
  BY RowLengths
<1>2. n # 0 /\ 1 \in 1 .. n
  <2>1. rows = <<>> <=> Len(rows) = 0
    BY SeqFacts
  <2> QED
    BY <1>1, <2>1
<1>3. PICK c \in Nat : c = Len(rows[1]) /\ c # 0 /\ 1 \in 1 .. c
  <2>1. rows[1] \in Seq(S) /\ Len(rows[1]) \in Nat
    BY <1>1, <1>2
  <2>2. rows[1] = <<>> <=> Len(rows[1]) = 0
    BY <2>1, SeqFacts
  <2> QED
    BY <2>1, <2>2
<1>4. c = IF rows = <<>> THEN 0 ELSE Len(rows[1])
  BY <1>3
<1>5. CASE \E r \in DOMAIN rows : Len(rows[r]) # c
  <2>1. CTranspose(rows) = Dead /\ LlvmTranspose(rows) = Dead /\ TsTranspose(rows) = Dead
    BY <1>4, <1>5, TransposeNodes
  <2> QED
    BY <2>1, ResultFacts
<1>6. CASE ~(\E r \in DOMAIN rows : Len(rows[r]) # c)
  <2>1. \A r \in DOMAIN rows : Len(rows[r]) = c
    BY <1>6
  <2>2. /\ CTranspose(rows) = Ok(Columns(rows, c)) /\ LlvmTranspose(rows) = Ok(Columns(rows, c))
        /\ TsTranspose(rows) = Ok(Columns(rows, c))
    BY <1>4, <1>6, TransposeNodes
  <2>3. PICK f \in Seq(Seq(S)) :
          /\ f = Columns(rows, c) /\ Len(f) = c
          /\ \A k \in 1 .. c : Len(f[k]) = n /\ \A r \in 1 .. n : f[k][r] = rows[r][k]
    <3>1. /\ Columns(rows, c) \in Seq(Seq(S)) /\ Len(Columns(rows, c)) = c
          /\ \A k \in 1 .. c : /\ Len(Columns(rows, c)[k]) = Len(rows)
                               /\ \A r \in 1 .. Len(rows) : Columns(rows, c)[k][r] = rows[r][k]
      BY <2>1, ColumnsFacts
    <3> QED
      BY <1>1, <3>1
  <2>4. DOMAIN f = 1 .. c /\ f # <<>>
    <3>1. f = <<>> <=> Len(f) = 0
      BY <2>3, SeqFacts
    <3>2. DOMAIN f = 1 .. Len(f)
      BY <2>3, SeqFacts
    <3> QED
      BY <1>3, <2>3, <3>1, <3>2
  <2>5. n = IF f = <<>> THEN 0 ELSE Len(f[1])
    BY <1>3, <2>3, <2>4
  <2>6. ~(\E k \in DOMAIN f : Len(f[k]) # n) /\ \A k \in DOMAIN f : Len(f[k]) = n
    BY <2>3, <2>4
  <2>7. /\ CTranspose(f) = Ok(Columns(f, n)) /\ LlvmTranspose(f) = Ok(Columns(f, n))
        /\ TsTranspose(f) = Ok(Columns(f, n))
    BY <2>5, <2>6, TransposeNodes
  <2>8. Columns(f, n) = rows
    <3>1. PICK g \in Seq(Seq(S)) :
            /\ g = Columns(f, n) /\ Len(g) = n
            /\ \A r \in 1 .. n : Len(g[r]) = c /\ \A k \in 1 .. c : g[r][k] = f[k][r]
      <4>1. /\ Columns(f, n) \in Seq(Seq(S)) /\ Len(Columns(f, n)) = n
            /\ \A r \in 1 .. n : /\ Len(Columns(f, n)[r]) = Len(f)
                                 /\ \A k \in 1 .. Len(f) : Columns(f, n)[r][k] = f[k][r]
        BY <2>6, ColumnsFacts
      <4> QED
        BY <2>3, <4>1
    <3>2. ASSUME NEW r \in 1 .. n PROVE g[r] = rows[r]
      <4>1. PICK a \in Seq(S), b \in Seq(S) : a = g[r] /\ b = rows[r]
        <5>1. rows[r] \in Seq(S)
          BY <1>1
        <5>2. g[r] \in Seq(S)
          BY <3>1, RowLengths
        <5> QED
          BY <5>1, <5>2
      <4>2. Len(a) = c /\ Len(b) = c
        BY <1>1, <2>1, <3>1, <4>1
      <4>3. \A k \in 1 .. c : a[k] = b[k]
        BY <2>3, <3>1, <4>1
      <4>4. b = [k \in 1 .. c |-> b[k]]
        BY <4>2, SeqFacts
      <4>5. a = b
        BY <4>2, <4>3, <4>4, Filling
      <4> QED
        BY <4>1, <4>5
    <3>3. rows = [r \in 1 .. n |-> rows[r]]
      BY <1>1, SeqFacts
    <3>4. PICK R : R = Seq(S)
      OBVIOUS
    <3>5. g \in Seq(R)
      BY <3>4
    <3>6. g = rows
      BY <3>1, <3>2, <3>3, <3>5, Filling
    <3> QED
      BY <3>1, <3>6
  <2>9. Ok(f).value = f
    BY ResultFacts
  <2> QED
    BY <2>2, <2>3, <2>7, <2>8, <2>9
<1> QED
  BY <1>5, <1>6

(* What PartsRebuildTheWhole says of a sequence.                           *)
LEMMA SequenceRebuilt ==
  ASSUME NEW S, NEW xs \in Seq(S)
  PROVE  /\ \A n \in 0 .. Len(xs) + 1 :
              /\ CConcat(CTake(xs, n).value, CDrop(xs, n).value) = Ok(xs)
              /\ LlvmConcat(LlvmTake(xs, n).value, LlvmDrop(xs, n).value) = Ok(xs)
              /\ TsConcat(TsTake(xs, n).value, TsDrop(xs, n).value) = Ok(xs)
         /\ \A i \in 0 .. Len(xs), j \in 0 .. Len(xs) :
              i <= j =>
                /\ CSlice(xs, i, j) = CDrop(CTake(xs, j).value, i)
                /\ LlvmSlice(xs, i, j) = LlvmDrop(LlvmTake(xs, j).value, i)
                /\ TsSlice(xs, i, j) = TsDrop(TsTake(xs, j).value, i)
         /\ CReverse(CReverse(xs).value) = Ok(xs)
         /\ LlvmReverse(LlvmReverse(xs).value) = Ok(xs)
         /\ TsReverse(TsReverse(xs).value) = Ok(xs)
         /\ xs # <<>> =>
              LET n == Len(xs) IN
              /\ CAppend(CTake(xs, n - 1).value, CLast(xs).value) = Ok(xs)
              /\ LlvmAppend(LlvmTake(xs, n - 1).value, LlvmLast(xs).value) = Ok(xs)
              /\ TsAppend(TsTake(xs, n - 1).value, TsLast(xs).value) = Ok(xs)
         /\ \A i \in 0 .. Len(xs) - 1 :
              /\ CSet(xs, i, CAt(xs, i).value) = Ok(xs)
              /\ LlvmSet(xs, i, LlvmAt(xs, i).value) = Ok(xs)
         /\ \A ids \in [DOMAIN xs -> Bits] :
              LET grouped == CGroupById(xs, ids)
              IN grouped.ok => CFlatten(grouped.value) = Ok(xs)
<1>1. ASSUME NEW n \in 0 .. Len(xs) + 1
      PROVE  /\ CConcat(CTake(xs, n).value, CDrop(xs, n).value) = Ok(xs)
             /\ LlvmConcat(LlvmTake(xs, n).value, LlvmDrop(xs, n).value) = Ok(xs)
             /\ TsConcat(TsTake(xs, n).value, TsDrop(xs, n).value) = Ok(xs)
  <2>1. n \in Nat
    OBVIOUS
  <2> QED
    BY <2>1, TakeAndDrop
<1>2. ASSUME NEW i \in 0 .. Len(xs), NEW j \in 0 .. Len(xs), i <= j
      PROVE  /\ CSlice(xs, i, j) = CDrop(CTake(xs, j).value, i)
             /\ LlvmSlice(xs, i, j) = LlvmDrop(LlvmTake(xs, j).value, i)
             /\ TsSlice(xs, i, j) = TsDrop(TsTake(xs, j).value, i)
  BY <1>2, SliceIsDropOfTake
<1>3. /\ CReverse(CReverse(xs).value) = Ok(xs)
      /\ LlvmReverse(LlvmReverse(xs).value) = Ok(xs)
      /\ TsReverse(TsReverse(xs).value) = Ok(xs)
  BY ReverseTwice
<1>4. ASSUME NEW n, n = Len(xs), xs # <<>>
      PROVE  /\ CAppend(CTake(xs, n - 1).value, CLast(xs).value) = Ok(xs)
             /\ LlvmAppend(LlvmTake(xs, n - 1).value, LlvmLast(xs).value) = Ok(xs)
             /\ TsAppend(TsTake(xs, n - 1).value, TsLast(xs).value) = Ok(xs)
  BY <1>4, AppendLast
<1>5. ASSUME NEW i \in 0 .. Len(xs) - 1
      PROVE  CSet(xs, i, CAt(xs, i).value) = Ok(xs) /\ LlvmSet(xs, i, LlvmAt(xs, i).value) = Ok(xs)
  BY SetBack
<1>6. ASSUME NEW ids \in [DOMAIN xs -> Bits]
      PROVE  LET grouped == CGroupById(xs, ids)
             IN grouped.ok => CFlatten(grouped.value) = Ok(xs)
  <2>1. PICK n \in Nat : DOMAIN xs = 1 .. n
    BY SeqFacts
  <2>2. ids = [k \in 1 .. n |-> ids[k]] /\ \A k \in 1 .. n : ids[k] \in Nat
    BY <2>1 DEF Bits
  <2>3. ids \in Seq(Nat)
    BY <2>2, Filled
  <2> QED
    BY <2>3, GroupsRebuild
<1> QED
  BY <1>1, <1>2, <1>3, <1>4, <1>5, <1>6

(* PartsRebuildTheWhole holds in every reachable state: on each back end   *)
(* the parts that its nodes take from a sequence make up the sequence      *)
(* again, and reverse and transpose undo themselves.                       *)
THEOREM PartsRebuild == Spec => []PartsRebuildTheWhole
<1>1. IInv => PartsRebuildTheWhole
  <2> SUFFICES ASSUME IInv, meant.ok PROVE PartsRebuildTheWhole
    BY DEF PartsRebuildTheWhole
  <2>1. Holds(shape, meant.value)
    BY DEF IInv, Good, Outcome
  <2>2. CASE shape = "seq"
    <3>1. PICK xs \in Seq(Ints) : xs = meant.value
      BY <2>1, <2>2 DEF Holds
    <3> QED
      BY <2>2, <3>1, SequenceRebuilt DEF PartsRebuildTheWhole
  <2>3. CASE shape = "rows"
    <3>1. PICK rows \in Seq(Seq(Ints)) : rows = meant.value
      BY <2>1, <2>3 DEF Holds
    <3>2. rows # <<>> /\ rows[1] # <<>> =>
            /\ CTranspose(rows).ok => CTranspose(CTranspose(rows).value) = Ok(rows)
            /\ LlvmTranspose(rows).ok => LlvmTranspose(LlvmTranspose(rows).value) = Ok(rows)
            /\ TsTranspose(rows).ok => TsTranspose(TsTranspose(rows).value) = Ok(rows)
      BY TransposeTwice
    <3> QED
      BY <2>3, <3>1, <3>2 DEF PartsRebuildTheWhole
  <2>4. CASE shape \notin {"seq", "rows"}
    BY <2>4 DEF PartsRebuildTheWhole
  <2> QED
    BY <2>2, <2>3, <2>4
<1> QED
  BY <1>1, Invariance, PTL
=============================================================================
