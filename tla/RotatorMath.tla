----------------------------- MODULE RotatorMath -----------------------------
(***************************************************************************)
(* The integer arithmetic of the rotator (fw/src/rotator_wrap.cpp,         *)
(* rotator_calc.cpp): angles and microsteps, the cable-wrap rule and the   *)
(* plan of the IMU home.  With the settings the firmware accepts no value  *)
(* leaves the integer types of the code: |cdeg| <= 36000 and spk <= 2.56e9 *)
(* give less than 2^31 steps, so the saturation of sat32() never acts.     *)
(***************************************************************************)
EXTENDS Integers

CONSTANTS
  Turn,    \* a full turn: 36000 centidegrees
  Den      \* spk counts microsteps per Den angle units: 100000

ASSUME TurnAssumption == Turn \in Nat /\ Turn > 1 /\ Turn % 2 = 0
ASSUME DenAssumption  == Den \in Nat \ {0}

Dist(a, b) == IF a > b THEN a - b ELSE b - a
Abs(a)     == IF a < 0 THEN -a ELSE a

\* num / den rounded half away from zero
DivRound(num, den) ==
  IF num >= 0 THEN (num + den \div 2) \div den ELSE -((-num + den \div 2) \div den)

CdegToSteps(cdeg, spk)  == DivRound(cdeg * spk, Den)
StepsToCdeg(steps, spk) == DivRound(steps * Den, spk)

\* wrapReported(): C++ remainder and correction are the mathematical remainder.
Reported(a) == a % Turn

\* Mutant of Fits: the range is forgotten on one side.
FitsAbove(C, lo, hi) == {c \in C : lo <= c}

\* Candidates inside the cable-wrap range.
Fits(C, lo, hi) == {c \in C : lo <= c /\ c <= hi}

(***************************************************************************)
(* wrapPlanTarget(): the nearest candidate; of two, the less wound one; of *)
(* two, the positive one.                                                  *)
(***************************************************************************)
MoveCandidates(target, lo, hi) == Fits({target - Turn, target, target + Turn}, lo, hi)

Nearer(current, c, d) ==
  \/ Dist(c, current) < Dist(d, current)
  \/ /\ Dist(c, current) = Dist(d, current)
     /\ Abs(c) < Abs(d) \/ (Abs(c) = Abs(d) /\ c > d)

PlanTarget(current, target, lo, hi) ==
  LET C == MoveCandidates(target, lo, hi)
  IN CHOOSE c \in C : \A d \in C \ {c} : Nearer(current, c, d)

(***************************************************************************)
(* rotPlanHome(): the candidate nearest 0, so that the cable unwinds; of   *)
(* two, the one nearest the current angle (of two equal ones, the lower).  *)
(***************************************************************************)
HomeCandidates(current, roll, lo, hi) == Fits({current - roll + k * Turn : k \in -3 .. 3}, lo, hi)

LessWound(current, c, d) ==
  \/ Abs(c) < Abs(d)
  \/ Abs(c) = Abs(d) /\ Dist(c, current) < Dist(d, current)
  \/ Abs(c) = Abs(d) /\ Dist(c, current) = Dist(d, current) /\ c < d

PlanHome(current, roll, lo, hi) ==
  LET C == HomeCandidates(current, roll, lo, hi)
  IN CHOOSE c \in C : \A d \in C \ {c} : LessWound(current, c, d)

\* Mutant of PlanCorrection: not clamped.
PlanCorrectionFree(current, roll, lo, hi) == current - roll

\* rotPlanCorrection()
PlanCorrection(current, roll, lo, hi) ==
  LET t == current - roll IN IF t > hi THEN hi ELSE IF t < lo THEN lo ELSE t
=============================================================================
