-------------------------- MODULE RotatorMathProofs --------------------------
(***************************************************************************)
(* Proofs about RotatorMath, for any turn, range, angle and target.        *)
(***************************************************************************)
EXTENDS RotatorMath, TLAPS

\* Nearer() never leaves a tie between two different candidates.
LEMMA NearerTotal ==
  ASSUME NEW current \in Int, NEW c \in Int, NEW d \in Int, c # d
  PROVE  Nearer(current, c, d) \/ Nearer(current, d, c)
BY DEF Nearer, Dist, Abs

LEMMA NearerTransitive ==
  ASSUME NEW current \in Int, NEW c \in Int, NEW d \in Int, NEW e \in Int,
         Nearer(current, c, d), Nearer(current, d, e)
  PROVE  Nearer(current, c, e)
BY DEF Nearer, Dist, Abs

\* Of at most three angles one is the nearest.
LEMMA NearestExists ==
  ASSUME NEW current \in Int, NEW x \in Int, NEW y \in Int, NEW z \in Int,
         NEW C \in SUBSET {x, y, z}, C # {}
  PROVE  \E c \in C : \A d \in C \ {c} : Nearer(current, c, d)
<1> DEFINE Best(c) == c \in C /\ \A d \in C \ {c} : Nearer(current, c, d)
<1>1. CASE \E c \in C : C = {c}
  BY <1>1
<1>2. ASSUME NEW a \in C, NEW b \in C, a # b, C = {a, b} PROVE \E c \in C : Best(c)
  <2>1. a \in Int /\ b \in Int
    OBVIOUS
  <2>2. Nearer(current, a, b) \/ Nearer(current, b, a)
    BY <1>2, <2>1, NearerTotal
  <2>3. QED
    BY <1>2, <2>2
<1>3. CASE x # y /\ y # z /\ x # z /\ C = {x, y, z}
  <2>1. Nearer(current, x, y) \/ Nearer(current, y, x)
    BY <1>3, NearerTotal
  <2>2. Nearer(current, y, z) \/ Nearer(current, z, y)
    BY <1>3, NearerTotal
  <2>3. Nearer(current, x, z) \/ Nearer(current, z, x)
    BY <1>3, NearerTotal
  <2>4. CASE Nearer(current, x, y) /\ Nearer(current, x, z)
    BY <1>3, <2>4
  <2>5. CASE Nearer(current, y, x) /\ Nearer(current, y, z)
    BY <1>3, <2>5
  <2>6. CASE Nearer(current, z, x) /\ Nearer(current, z, y)
    BY <1>3, <2>6
  <2>7. CASE Nearer(current, x, y) /\ Nearer(current, y, z)
    <3>1. Nearer(current, x, z)
      BY <2>7, NearerTransitive
    <3>2. QED
      BY <2>4, <2>7, <3>1
  <2>8. CASE Nearer(current, y, x) /\ Nearer(current, x, z)
    <3>1. Nearer(current, y, z)
      BY <2>8, NearerTransitive
    <3>2. QED
      BY <2>5, <2>8, <3>1
  <2>9. QED
    BY <2>1, <2>2, <2>3, <2>4, <2>5, <2>6, <2>7, <2>8
<1>4. \/ \E c \in C : C = {c}
      \/ \E a \in C, b \in C : a # b /\ C = {a, b}
      \/ x # y /\ y # z /\ x # z /\ C = {x, y, z}
  <2>1. CASE x \in C /\ y \in C /\ z \in C
    <3>1. C = {x, y, z}
      BY <2>1
    <3>2. QED
      BY <2>1, <3>1
  <2>2. CASE x \in C /\ y \in C /\ z \notin C
    BY <2>2
  <2>3. CASE x \in C /\ y \notin C /\ z \in C
    BY <2>3
  <2>4. CASE x \notin C /\ y \in C /\ z \in C
    BY <2>4
  <2>5. QED
    BY <2>1, <2>2, <2>3, <2>4
<1>5. QED
  BY <1>1, <1>2, <1>3, <1>4

\* A cable-wrap range of a full turn inside -Turn..Turn holds an angle for every target: a move inside such
\* a range is never refused for the lack of a path (wrapPlanTarget()).
THEOREM WrapAlwaysFits ==
  ASSUME NEW lo \in Int, NEW hi \in Int, NEW target \in 0 .. Turn - 1,
         -Turn <= lo, hi <= Turn, hi - lo >= Turn
  PROVE  MoveCandidates(target, lo, hi) # {}
<1> USE TurnAssumption DEF MoveCandidates, Fits
<1>1. CASE target > hi
  <2>1. target - Turn \in MoveCandidates(target, lo, hi)
    BY <1>1
  <2>2. QED
    BY <2>1
<1>2. CASE target < lo
  <2>1. target + Turn \in MoveCandidates(target, lo, hi)
    BY <1>2
  <2>2. QED
    BY <2>1
<1>3. CASE lo <= target /\ target <= hi
  <2>1. target \in MoveCandidates(target, lo, hi)
    BY <1>3
  <2>2. QED
    BY <2>1
<1>4. QED
  BY <1>1, <1>2, <1>3

\* wrapPlanTarget(): the planned angle is the target itself, up to one turn, inside the range, and no other
\* such angle is nearer or, at the same distance, less wound.
THEOREM PlanTargetCorrect ==
  ASSUME NEW lo \in Int, NEW hi \in Int, NEW current \in Int, NEW target \in Int,
         MoveCandidates(target, lo, hi) # {}
  PROVE  LET p == PlanTarget(current, target, lo, hi)
         IN /\ p \in {target - Turn, target, target + Turn} /\ lo <= p /\ p <= hi
            /\ \A d \in MoveCandidates(target, lo, hi) :
                 /\ Dist(p, current) <= Dist(d, current)
                 /\ Dist(p, current) = Dist(d, current) => Abs(p) <= Abs(d)
<1> DEFINE C == MoveCandidates(target, lo, hi)
           p == PlanTarget(current, target, lo, hi)
<1>1. C \in SUBSET {target - Turn, target, target + Turn} /\ C \subseteq Int
  BY TurnAssumption DEF MoveCandidates, Fits
<1>2. target - Turn \in Int /\ target \in Int /\ target + Turn \in Int
  BY TurnAssumption
<1>3. \E c \in C : \A d \in C \ {c} : Nearer(current, c, d)
  <2> HIDE DEF C
  <2>1. C # {}
    BY DEF C
  <2>2. QED
    BY <1>1, <1>2, <2>1, NearestExists
<1>4. p \in C /\ \A d \in C \ {p} : Nearer(current, p, d)
  BY <1>3 DEF PlanTarget
<1>5. lo <= p /\ p <= hi
  BY <1>4 DEF MoveCandidates, Fits
<1>6. ASSUME NEW d \in C
      PROVE  /\ Dist(p, current) <= Dist(d, current)
             /\ Dist(p, current) = Dist(d, current) => Abs(p) <= Abs(d)
  <2> HIDE DEF p, C
  <2>1. p \in Int /\ d \in Int
    BY <1>1, <1>4
  <2>2. CASE d = p
    BY <2>1, <2>2 DEF Dist, Abs
  <2>3. CASE d # p
    <3>1. Nearer(current, p, d)
      BY <1>4, <2>3
    <3>2. QED
      BY <2>1, <3>1 DEF Nearer, Dist, Abs
  <2>4. QED
    BY <2>2, <2>3
<1>7. QED
  BY <1>1, <1>4, <1>5, <1>6

\* rotPlanCorrection(): a correction of a home never leaves the cable-wrap range, and never turns the
\* rotator further from the IMU zero it aims at than where it stands.
THEOREM CorrectionSafe ==
  ASSUME NEW lo \in Int, NEW hi \in Int, NEW current \in lo .. hi, NEW roll \in Int
  PROVE  LET t == PlanCorrection(current, roll, lo, hi)
         IN t \in lo .. hi /\ Abs(t - (current - roll)) <= Abs(roll)
BY DEF PlanCorrection, Abs

-----------------------------------------------------------------------------
(***************************************************************************)
(* The plan of the home.                                                   *)
(***************************************************************************)
\* One candidate comes before all the others, if there is one.
HasLeast(current, C) == C # {} => \E c \in C : \A d \in C \ {c} : LessWound(current, c, d)

LEMMA LessWoundTotal ==
  ASSUME NEW current \in Int, NEW c \in Int, NEW d \in Int, c # d
  PROVE  LessWound(current, c, d) \/ LessWound(current, d, c)
BY DEF LessWound, Dist, Abs

LEMMA LessWoundTransitive ==
  ASSUME NEW current \in Int, NEW c \in Int, NEW d \in Int, NEW e \in Int,
         LessWound(current, c, d), LessWound(current, d, e)
  PROVE  LessWound(current, c, e)
BY DEF LessWound, Dist, Abs

LEMMA LeastOfMore ==
  ASSUME NEW current \in Int, NEW C \in SUBSET Int, NEW x \in Int, HasLeast(current, C)
  PROVE  HasLeast(current, C \cup {x})
<1>1. CASE C = {} \/ x \in C
  <2>1. C \cup {x} = {x} \/ C \cup {x} = C
    BY <1>1
  <2>2. QED
    BY <2>1 DEF HasLeast
<1>2. CASE C # {} /\ x \notin C
  <2>1. PICK c \in C : \A d \in C \ {c} : LessWound(current, c, d)
    BY <1>2 DEF HasLeast
  <2>2. c \in Int /\ c # x
    BY <1>2
  <2>3. CASE LessWound(current, c, x)
    BY <2>1, <2>3 DEF HasLeast
  <2>4. CASE LessWound(current, x, c)
    <3>1. \A d \in C : LessWound(current, x, d)
      BY <2>1, <2>2, <2>4, LessWoundTransitive
    <3>2. QED
      BY <3>1 DEF HasLeast
  <2>5. QED
    BY <2>2, <2>3, <2>4, LessWoundTotal
<1>3. QED
  BY <1>1, <1>2

LEMMA LeastThatFits ==
  ASSUME NEW current \in Int, NEW lo \in Int, NEW hi \in Int, NEW C \in SUBSET Int, NEW x \in Int,
         HasLeast(current, Fits(C, lo, hi))
  PROVE  C \cup {x} \in SUBSET Int /\ HasLeast(current, Fits(C \cup {x}, lo, hi))
<1>1. Fits(C, lo, hi) \in SUBSET Int
  BY DEF Fits
<1>2. CASE lo <= x /\ x <= hi
  <2>1. Fits(C \cup {x}, lo, hi) = Fits(C, lo, hi) \cup {x}
    BY <1>2 DEF Fits
  <2>2. QED
    BY <1>1, <2>1, LeastOfMore
<1>3. CASE ~(lo <= x /\ x <= hi)
  <2>1. Fits(C \cup {x}, lo, hi) = Fits(C, lo, hi)
    BY <1>3 DEF Fits
  <2>2. QED
    BY <2>1
<1>4. QED
  BY <1>2, <1>3

LEMMA HomeHasLeast ==
  ASSUME NEW current \in Int, NEW roll \in Int, NEW lo \in Int, NEW hi \in Int
  PROVE  HasLeast(current, HomeCandidates(current, roll, lo, hi))
<1> DEFINE b == current - roll
           S0 == {}
           S1 == S0 \cup {b - 3 * Turn}
           S2 == S1 \cup {b - 2 * Turn}
           S3 == S2 \cup {b - Turn}
           S4 == S3 \cup {b}
           S5 == S4 \cup {b + Turn}
           S6 == S5 \cup {b + 2 * Turn}
           S7 == S6 \cup {b + 3 * Turn}
<1>1. /\ b \in Int /\ b - 3 * Turn \in Int /\ b - 2 * Turn \in Int /\ b - Turn \in Int
      /\ b + Turn \in Int /\ b + 2 * Turn \in Int /\ b + 3 * Turn \in Int
  BY TurnAssumption
<1>2. {current - roll + k * Turn : k \in -3 .. 3} = S7
  <2>1. -3 .. 3 = {-3, -2, -1, 0, 1, 2, 3}
    OBVIOUS
  <2>2. /\ b + (-3) * Turn = b - 3 * Turn /\ b + (-2) * Turn = b - 2 * Turn /\ b + (-1) * Turn = b - Turn
        /\ b + 0 * Turn = b /\ b + 1 * Turn = b + Turn
    BY <1>1, TurnAssumption
  <2>3. {b + k * Turn : k \in {-3, -2, -1, 0, 1, 2, 3}} =
          {b + (-3) * Turn, b + (-2) * Turn, b + (-1) * Turn, b + 0 * Turn, b + 1 * Turn, b + 2 * Turn, b + 3 * Turn}
    <3> HIDE DEF b
    <3>1. QED
      BY Zenon
  <2>4. QED
    BY <2>1, <2>2, <2>3
<1>3. S0 \in SUBSET Int /\ HasLeast(current, Fits(S0, lo, hi))
  BY DEF HasLeast, Fits
<1> HIDE DEF S0, b
<1>4. S1 \in SUBSET Int /\ HasLeast(current, Fits(S1, lo, hi))
  BY <1>1, <1>3, LeastThatFits
<1> HIDE DEF S1
<1>5. S2 \in SUBSET Int /\ HasLeast(current, Fits(S2, lo, hi))
  BY <1>1, <1>4, LeastThatFits
<1> HIDE DEF S2
<1>6. S3 \in SUBSET Int /\ HasLeast(current, Fits(S3, lo, hi))
  BY <1>1, <1>5, LeastThatFits
<1> HIDE DEF S3
<1>7. S4 \in SUBSET Int /\ HasLeast(current, Fits(S4, lo, hi))
  BY <1>1, <1>6, LeastThatFits
<1> HIDE DEF S4
<1>8. S5 \in SUBSET Int /\ HasLeast(current, Fits(S5, lo, hi))
  BY <1>1, <1>7, LeastThatFits
<1> HIDE DEF S5
<1>9. S6 \in SUBSET Int /\ HasLeast(current, Fits(S6, lo, hi))
  BY <1>1, <1>8, LeastThatFits
<1> HIDE DEF S6
<1>10. S7 \in SUBSET Int /\ HasLeast(current, Fits(S7, lo, hi))
  BY <1>1, <1>9, LeastThatFits
<1>11. QED
  BY <1>2, <1>10 DEF HomeCandidates

\* rotPlanHome(): the planned angle puts the camera at the IMU zero, is inside the range, and no other such
\* angle leaves the cable less wound.
THEOREM PlanHomeCorrect ==
  ASSUME NEW lo \in Int, NEW hi \in Int, NEW current \in Int, NEW roll \in Int,
         HomeCandidates(current, roll, lo, hi) # {}
  PROVE  LET p == PlanHome(current, roll, lo, hi)
         IN /\ p \in Int /\ lo <= p /\ p <= hi /\ \E k \in -3 .. 3 : p = current - roll + k * Turn
            /\ \A d \in HomeCandidates(current, roll, lo, hi) : Abs(p) <= Abs(d)
<1> DEFINE C == HomeCandidates(current, roll, lo, hi)
           p == PlanHome(current, roll, lo, hi)
<1>1. \E c \in C : \A d \in C \ {c} : LessWound(current, c, d)
  BY HomeHasLeast DEF HasLeast
<1>2. p \in C /\ \A d \in C \ {p} : LessWound(current, p, d)
  BY <1>1 DEF PlanHome
<1>3. C \subseteq Int
  <2>1. \A k \in -3 .. 3 : current - roll + k * Turn \in Int
    BY TurnAssumption
  <2>2. QED
    BY <2>1 DEF HomeCandidates, Fits
<1>4. lo <= p /\ p <= hi /\ \E k \in -3 .. 3 : p = current - roll + k * Turn
  BY <1>2 DEF HomeCandidates, Fits
<1>5. ASSUME NEW d \in C PROVE Abs(p) <= Abs(d)
  <2> HIDE DEF p, C
  <2>1. p \in Int /\ d \in Int
    BY <1>2, <1>3
  <2>2. CASE d = p
    BY <2>1, <2>2 DEF Abs
  <2>3. CASE d # p
    BY <1>2, <2>1, <2>3 DEF LessWound, Abs
  <2>4. QED
    BY <2>2, <2>3
<1>6. QED
  BY <1>2, <1>3, <1>4, <1>5

-----------------------------------------------------------------------------
(***************************************************************************)
(* Rounding: angles and microsteps.                                        *)
(***************************************************************************)
LEMMA Quotient ==
  ASSUME NEW x \in Int, NEW d \in Nat \ {0}
  PROVE  (x \div d) \in Int /\ d * (x \div d) <= x /\ x < d * (x \div d) + d
OBVIOUS

LEMMA Below ==
  ASSUME NEW p \in Int, NEW q \in Int, NEW d \in Nat \ {0}, d * p < d * q + d
  PROVE  p <= q
<1>1. SUFFICES ASSUME p >= q + 1 PROVE FALSE
  OBVIOUS
<1>2. d * (p - q - 1) >= 0
  BY <1>1
<1>3. d * (p - q - 1) = d * p - d * q - d
  OBVIOUS
<1>4. d * p \in Int /\ d * q \in Int
  OBVIOUS
<1>5. QED
  BY <1>2, <1>3, <1>4

LEMMA DivMonotone ==
  ASSUME NEW x \in Int, NEW y \in Int, NEW d \in Nat \ {0}, x <= y
  PROVE  (x \div d) \in Int /\ (y \div d) \in Int /\ x \div d <= y \div d
<1> DEFINE p == x \div d
           q == y \div d
<1>1. p \in Int /\ q \in Int /\ d * p <= x /\ y < d * q + d
  BY Quotient
<1> HIDE DEF p, q
<1>2. d * p \in Int /\ d * q \in Int
  BY <1>1
<1>3. d * p < d * q + d
  BY <1>1, <1>2
<1>4. p <= q
  BY <1>1, <1>3, Below
<1>5. QED
  BY <1>1, <1>4 DEF p, q

LEMMA HalfNat ==
  ASSUME NEW d \in Nat \ {0}
  PROVE  (d \div 2) \in Nat /\ d \div 2 < d /\ d - 1 <= 2 * (d \div 2) /\ 2 * (d \div 2) <= d
OBVIOUS

\* Rounding keeps the order.
LEMMA DivRoundMonotone ==
  ASSUME NEW a \in Int, NEW b \in Int, NEW d \in Nat \ {0}, a <= b
  PROVE  DivRound(a, d) \in Int /\ DivRound(b, d) \in Int /\ DivRound(a, d) <= DivRound(b, d)
<1> DEFINE h == d \div 2
<1>1. h \in Nat
  BY HalfNat
<1> HIDE DEF h
<1>2. CASE 0 <= a
  <2>1. a + h \in Int /\ b + h \in Int /\ a + h <= b + h
    BY <1>1
  <2>2. ((a + h) \div d) \in Int /\ ((b + h) \div d) \in Int /\ (a + h) \div d <= (b + h) \div d
    BY <2>1, DivMonotone
  <2>3. DivRound(a, d) = (a + h) \div d /\ DivRound(b, d) = (b + h) \div d
    BY <1>2 DEF DivRound, h
  <2>4. QED
    BY <2>2, <2>3
<1>3. CASE b < 0
  <2>1. -a + h \in Int /\ -b + h \in Int /\ -b + h <= -a + h
    BY <1>1
  <2>2. ((-a + h) \div d) \in Int /\ ((-b + h) \div d) \in Int /\ (-b + h) \div d <= (-a + h) \div d
    BY <2>1, DivMonotone
  <2>3. DivRound(a, d) = -((-a + h) \div d) /\ DivRound(b, d) = -((-b + h) \div d)
    BY <1>3 DEF DivRound, h
  <2>4. QED
    BY <2>2, <2>3
<1>4. CASE a < 0 /\ 0 <= b
  <2>1. -a + h \in Int /\ b + h \in Int /\ 0 <= -a + h /\ 0 <= b + h
    BY <1>1, <1>4
  <2>2. 0 \div d = 0
    OBVIOUS
  <2>3. ((-a + h) \div d) \in Int /\ 0 <= (-a + h) \div d
    BY <2>1, <2>2, DivMonotone
  <2>4. ((b + h) \div d) \in Int /\ 0 <= (b + h) \div d
    BY <2>1, <2>2, DivMonotone
  <2>5. DivRound(a, d) = -((-a + h) \div d) /\ DivRound(b, d) = (b + h) \div d
    BY <1>4 DEF DivRound, h
  <2>6. QED
    BY <2>3, <2>4, <2>5
<1>5. QED
  BY <1>2, <1>3, <1>4

LEMMA DivRoundInt ==
  ASSUME NEW a \in Int, NEW d \in Nat \ {0}
  PROVE  DivRound(a, d) \in Int
<1>1. a <= a
  OBVIOUS
<1>2. QED
  BY <1>1, DivRoundMonotone

\* Rounding changes a value by half a unit at most.
LEMMA DivRoundNear ==
  ASSUME NEW a \in Int, NEW d \in Nat \ {0}
  PROVE  2 * a <= 2 * (d * DivRound(a, d)) + d /\ 2 * (d * DivRound(a, d)) <= 2 * a + d
<1> DEFINE h == d \div 2
<1>1. h \in Nat /\ d - 1 <= 2 * h /\ 2 * h <= d
  BY HalfNat
<1> HIDE DEF h
<1>2. CASE 0 <= a
  <2> DEFINE q == (a + h) \div d
  <2>1. q \in Int /\ d * q <= a + h /\ a + h < d * q + d
    BY <1>1, Quotient
  <2>2. DivRound(a, d) = q
    BY <1>2 DEF DivRound, h
  <2> HIDE DEF q
  <2>3. d * q \in Int
    BY <2>1
  <2> DEFINE m == d * q
  <2>4. m \in Int /\ m <= a + h /\ a + h < m + d
    BY <2>1, <2>3
  <2>5. d * DivRound(a, d) = m
    BY <2>2
  <2> HIDE DEF m
  <2>6. QED
    BY <1>1, <2>4, <2>5
<1>3. CASE a < 0
  <2> DEFINE q == (-a + h) \div d
  <2>1. -a + h \in Int
    BY <1>1
  <2>2. q \in Int /\ d * q <= -a + h /\ -a + h < d * q + d
    BY <2>1, Quotient
  <2>3. DivRound(a, d) = -q
    BY <1>3 DEF DivRound, h
  <2> HIDE DEF q
  <2>4. d * q \in Int /\ d * (-q) = -(d * q)
    BY <2>2
  <2> DEFINE m == d * q
  <2>5. m \in Int /\ m <= -a + h /\ -a + h < m + d
    BY <2>2, <2>4
  <2>6. d * DivRound(a, d) = -m
    BY <2>3, <2>4
  <2> HIDE DEF m
  <2>7. QED
    BY <1>1, <2>5, <2>6
<1>4. QED
  BY <1>2, <1>3

\* A whole number is not rounded.
LEMMA DivRoundWhole ==
  ASSUME NEW p \in Int, NEW d \in Nat \ {0}
  PROVE  DivRound(p * d, d) = p
<1> DEFINE r == DivRound(p * d, d)
<1>1. p * d \in Int /\ r \in Int
  BY DivRoundInt
<1>2. 2 * (p * d) <= 2 * (d * r) + d /\ 2 * (d * r) <= 2 * (p * d) + d
  BY <1>1, DivRoundNear
<1> HIDE DEF r
<1>3. p * d = d * p /\ d * r \in Int /\ d * p \in Int
  BY <1>1
<1>4. d * p < d * r + d /\ d * r < d * p + d
  BY <1>2, <1>3
<1>5. p <= r /\ r <= p
  BY <1>1, <1>4, Below
<1>6. QED
  BY <1>1, <1>5 DEF r

\* A rotator whose angle was rounded from its steps does not stand beyond the next angle.
LEMMA NextAngleAhead ==
  ASSUME NEW p \in Int, NEW spk \in Nat \ {0}, NEW t \in Int, StepsToCdeg(p, spk) + 1 <= t
  PROVE  p <= CdegToSteps(t, spk)
<1> DEFINE a == DivRound(p * Den, spk)
           x == p * Den
<1>1. x \in Int /\ a \in Int /\ Den \in Nat \ {0}
  BY DenAssumption, DivRoundInt
<1>2. 2 * x <= 2 * (spk * a) + spk
  BY <1>1, DivRoundNear
<1>3. a + 1 <= t
  BY DEF StepsToCdeg
<1> HIDE DEF a, x
<1>4. x <= t * spk
  <2>1. spk * (t - a - 1) >= 0
    BY <1>1, <1>3
  <2>2. spk * (t - a - 1) = t * spk - spk * a - spk
    BY <1>1
  <2>3. t * spk \in Int /\ spk * a \in Int
    BY <1>1
  <2>4. QED
    BY <1>1, <1>2, <2>1, <2>2, <2>3
<1>5. DivRound(x, Den) <= DivRound(t * spk, Den)
  <2>1. t * spk \in Int
    OBVIOUS
  <2>2. QED
    BY <1>1, <1>4, <2>1, DivRoundMonotone
<1>6. DivRound(x, Den) = p
  BY <1>1, DivRoundWhole DEF x
<1>7. QED
  BY <1>5, <1>6 DEF CdegToSteps

LEMMA StepsMonotone ==
  ASSUME NEW a \in Int, NEW b \in Int, NEW spk \in Nat \ {0}, a <= b
  PROVE  CdegToSteps(a, spk) \in Int /\ CdegToSteps(b, spk) \in Int /\ CdegToSteps(a, spk) <= CdegToSteps(b, spk)
<1>1. a * spk \in Int /\ b * spk \in Int /\ a * spk <= b * spk
  <2>1. spk * (b - a) >= 0
    OBVIOUS
  <2>2. spk * (b - a) = b * spk - a * spk
    OBVIOUS
  <2>3. a * spk \in Int /\ b * spk \in Int
    OBVIOUS
  <2>4. QED
    BY <2>1, <2>2, <2>3
<1>2. Den \in Nat \ {0}
  BY DenAssumption
<1>3. QED
  BY <1>1, <1>2, DivRoundMonotone DEF CdegToSteps

LEMMA AnglesInt ==
  ASSUME NEW a \in Int, NEW spk \in Nat \ {0}
  PROVE  CdegToSteps(a, spk) \in Int /\ StepsToCdeg(a, spk) \in Int
<1>1. a * spk \in Int /\ a * Den \in Int /\ Den \in Nat \ {0}
  BY DenAssumption
<1>2. QED
  BY <1>1, DivRoundInt DEF CdegToSteps, StepsToCdeg
=============================================================================
