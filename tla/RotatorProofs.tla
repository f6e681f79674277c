------------------------------ MODULE RotatorProofs ------------------------------
(***************************************************************************)
(* Proofs about Rotator, for any turn, cable-wrap ranges, settings, IMU    *)
(* and mishaps.                                                            *)
(***************************************************************************)
EXTENDS Rotator, RotatorMathProofs

Settings == [wrap : WrapRanges, spk : SpkValues, guard : GuardValues, bootHome : BootHomeValues]

AxisTypes ==
  /\ pos \in [{Rot} -> Int] /\ tgt \in [{Rot} -> Int] /\ lead \in [{Rot} -> {0}]
  /\ mode \in [{Rot} -> {"idle", "moving", "halting"}] /\ stoppedFlag \in [{Rot} -> BOOLEAN]

RecordTypes ==
  /\ wanted \in Records /\ stored \in Records
  /\ flight = <<>> \/ \E r \in Records : flight = <<r>>
  /\ dirty \in BOOLEAN /\ safe \in BOOLEAN

SettingTypes == set \in Settings /\ savedSet \in Settings

MoveTypes ==
  /\ angle \in Int /\ moveTarget \in Int
  /\ moving \in BOOLEAN /\ haltRequested \in BOOLEAN /\ lastMoveComplete \in BOOLEAN

FlagTypes ==
  /\ unverified \in BOOLEAN /\ suspect \in BOOLEAN /\ bootHomePending \in BOOLEAN
  /\ savePending \in {"none", "waiting", "due"} /\ truth \in {"right", "wrong", "lapsed"}

SeqTypes ==
  /\ seq \in {"none"} \cup Settles \cup MoveSteps /\ calStart \in Int
  /\ settle \in {"waiting", "settled", "late"} /\ capture \in 0 .. FineTurn - 1

ImuTypes == imu \in ImuStates /\ imuCal \in BOOLEAN /\ bearing \in 0 .. FineTurn - 1

\* What the phases of a sequence say about the move in progress.
Phase ==
  /\ AxisBusy \/ haltRequested => moving
  /\ seq \in Settles => ~moving

Types == AxisTypes /\ RecordTypes /\ SettingTypes /\ MoveTypes /\ FlagTypes /\ SeqTypes /\ ImuTypes /\ Phase

\* Without the chip, and in safe mode, there is no record.
NoRecord ==
  /\ safe \/ ~Chip => wanted = Blank
  /\ ~Chip => stored = Blank /\ flight = <<>>

\* A record that a boot would trust is where the rotator stands, unless a newer one waits for its time.
RecordTrue ==
  Trusted(wanted) /\ savePending = "none" /\ truth # "lapsed" => truth = "right" /\ ~moving /\ wanted.cdeg = angle

\* The angle of a rotator at rest was rounded from its steps, or its steps from the angle.
AtAngle == ~moving => P = Steps(angle) \/ angle = StepsToCdeg(P, set.spk)

\* Where a calibration is.
CalSteps == CalSettles \cup {"calMove90", "calMove180", "calMoveBack"}
CalPlace ==
  /\ seq \in CalSteps => calStart + 2 * CalStep <= Hi
  /\ seq = "calSettle0" => angle = calStart
  /\ seq = "calSettle90" => angle = calStart + CalStep
  /\ seq = "calMove90" => IF moving THEN moveTarget = calStart + CalStep ELSE angle = calStart + CalStep

\* A move ends inside the cable-wrap range, or where a calibration began.
TargetInWrap ==
  AxisBusy =>
    /\ tgt[Rot] > P => tgt[Rot] <= Steps(Hi)
    /\ tgt[Rot] < P => tgt[Rot] >= Steps(Lo) \/ tgt[Rot] = Steps(calStart)

Trust == NoRecord /\ TrustedRight /\ RecordTrue
Wrap  == AtAngle /\ CalPlace /\ TargetInWrap

RotInv == Types /\ Trust /\ Wrap

-----------------------------------------------------------------------------
(***************************************************************************)
(* Constants, settings and sequences.                                      *)
(***************************************************************************)
LEMMA FineTurnPositive == FineTurn \in Nat \ {0}
<1> DEFINE x == Turn * Fine
<1>1. x \in Nat \ {0} /\ Den \in Nat \ {0} /\ x % Den = 0
  BY TurnAssumption, DenAssumption, RotatorAssumption
<1> HIDE DEF x
<1>2. (x \div Den) \in Int /\ x < Den * (x \div Den) + Den /\ x = Den * (x \div Den) + (x % Den)
  BY <1>1
<1>3. x \div Den > 0
  BY <1>1, <1>2
<1>4. QED
  BY <1>2, <1>3 DEF FineTurn, x

LEMMA FineMod ==
  ASSUME NEW x \in Int
  PROVE  x % FineTurn \in 0 .. FineTurn - 1
BY FineTurnPositive

LEMMA SettingFacts ==
  ASSUME SettingTypes
  PROVE  /\ set.spk \in Nat \ {0} /\ set.spk \in SpkValues /\ savedSet.spk \in SpkValues
         /\ Lo \in Int /\ Hi \in Int /\ Lo <= 0 /\ 0 <= Hi
<1>1. set.wrap \in WrapRanges /\ set.spk \in SpkValues /\ savedSet.spk \in SpkValues
  BY DEF SettingTypes, Settings
<1>2. set.wrap[1] \in -Turn .. 0 /\ set.wrap[2] \in 0 .. Turn
  BY <1>1, RotatorAssumption
<1>3. Turn \in Nat
  BY TurnAssumption
<1>4. set.wrap[1] \in Int /\ set.wrap[2] \in Int /\ set.wrap[1] <= 0 /\ 0 <= set.wrap[2]
  BY <1>2, <1>3
<1>5. set.spk \in Nat \ {0}
  BY <1>1, RotatorAssumption
<1>6. QED
  BY <1>1, <1>4, <1>5 DEF Lo, Hi

LEMMA SpkFacts ==
  ASSUME NEW n \in SpkValues, NEW a \in Int
  PROVE  CdegToSteps(a, n) \in Int /\ StepsToCdeg(a, n) \in Int
<1>1. n \in Nat \ {0}
  BY RotatorAssumption
<1>2. QED
  BY <1>1, AnglesInt

LEMMA DefaultsFacts == Defaults \in Settings /\ Defaults.spk \in SpkValues /\ Defaults.bootHome \in BOOLEAN
BY RotatorAssumption DEF Settings

LEMMA SequenceFacts ==
  /\ MoveSteps = {"homeMove", "calMove90", "calMove180", "calMoveBack"}
  /\ DOMAIN NextSettle = {"homeMove", "calMove90", "calMove180"}
  /\ NextSettle["homeMove"] = "homeSettle" /\ NextSettle["calMove90"] = "calSettle90"
  /\ NextSettle["calMove180"] = "calSettle180"
  /\ Settles = {"homeSettle", "calSettle0", "calSettle90", "calSettle180"}
  /\ CalSteps = {"calSettle0", "calSettle90", "calSettle180", "calMove90", "calMove180", "calMoveBack"}
BY DEF MoveSteps, NextSettle, Settles, CalSettles, CalSteps

LEMMA RollInt ==
  ASSUME ImuTypes
  PROVE  Roll \in Int
<1>1. FineTurn \in Nat /\ bearing \in Int
  BY FineTurnPositive DEF ImuTypes
<1>2. Signed(bearing) \in Int
  BY <1>1 DEF Signed
<1>3. Signed(bearing) * Den \in Int /\ Fine \in Nat \ {0}
  BY <1>2, DenAssumption, RotatorAssumption
<1>4. QED
  BY <1>3, DivRoundInt DEF Roll

-----------------------------------------------------------------------------
(***************************************************************************)
(* What the axis and the record do.                                        *)
(***************************************************************************)
LEMMA Started ==
  ASSUME AxisTypes, NEW t \in Int, A!Start(Rot, t, 0)
  PROVE  AxisTypes' /\ ~AxisBusy /\ AxisBusy' /\ P' = P /\ tgt'[Rot] = t
BY DEF AxisTypes, A!Start, A!AllIdle, AxisBusy, P

LEMMA Stepped ==
  ASSUME AxisTypes, A!Step(Rot)
  PROVE  /\ AxisTypes' /\ AxisBusy /\ tgt' = tgt
         /\ (P < tgt[Rot] /\ P' = P + 1) \/ (P > tgt[Rot] /\ P' = P - 1)
<1>1. /\ pos' \in [{Rot} -> Int] /\ lead' \in [{Rot} -> {0}] /\ tgt' = tgt /\ AxisBusy
      /\ (P < tgt[Rot] /\ P' = P + 1) \/ (P > tgt[Rot] /\ P' = P - 1)
  BY DEF AxisTypes, A!Step, AxisBusy, P
<1>2. mode' \in [{Rot} -> {"idle", "moving", "halting"}] /\ stoppedFlag' \in [{Rot} -> BOOLEAN]
  BY DEF AxisTypes, A!Step, A!End
<1>3. QED
  BY <1>1, <1>2 DEF AxisTypes

\* A halt or a stop changes the mode only, and only while the axis is busy.
LEMMA Halted ==
  ASSUME AxisTypes, A!RequestHalt(Rot) \/ A!StopAtOnce(Rot)
  PROVE  AxisTypes' /\ AxisBusy /\ UNCHANGED <<pos, tgt, lead>>
BY DEF AxisTypes, A!RequestHalt, A!StopAtOnce, A!End, AxisBusy

LEMMA Placed ==
  ASSUME AxisTypes, NEW p \in Int, A!Place(Rot, p)
  PROVE  AxisTypes' /\ ~AxisBusy /\ P' = p /\ UNCHANGED <<tgt, lead, mode, stoppedFlag>>
BY DEF AxisTypes, A!Place, AxisBusy, P

LEMMA Queued ==
  ASSUME RecordTypes, NoRecord, NEW r \in Records, Queue(r), safe' = safe
  PROVE  /\ RecordTypes' /\ NoRecord' /\ (wanted' = r \/ (wanted' = wanted /\ wanted = Blank))
BY DEF RecordTypes, NoRecord, Queue, C!Put, cellVars

\* After a mark no boot trusts the record.
LEMMA Marked ==
  ASSUME RecordTypes, NoRecord, MarkMoving, safe' = safe
  PROVE  RecordTypes' /\ NoRecord' /\ ~Trusted(wanted')
<1>1. CASE wanted.moving
  BY <1>1 DEF MarkMoving, cellVars, RecordTypes, NoRecord, Trusted
<1>2. CASE ~wanted.moving
  <2>1. [wanted EXCEPT !.moving = TRUE] \in Records /\ [wanted EXCEPT !.moving = TRUE].moving
    BY DEF RecordTypes, Records
  <2>2. Queue([wanted EXCEPT !.moving = TRUE])
    BY <1>2 DEF MarkMoving
  <2>3. /\ RecordTypes' /\ NoRecord'
        /\ wanted' = [wanted EXCEPT !.moving = TRUE] \/ wanted' = Blank
    BY <2>1, <2>2, Queued
  <2>4. ~Trusted(Blank) /\ ~Trusted([wanted EXCEPT !.moving = TRUE])
    BY <2>1 DEF Trusted, Blank
  <2>5. QED
    BY <2>3, <2>4
<1>3. QED
  BY <1>1, <1>2

LEMMA Saved ==
  ASSUME RecordTypes, NoRecord, NEW a \in Int, NEW u \in BOOLEAN, SavePosition(a, u), safe' = safe
  PROVE  /\ RecordTypes' /\ NoRecord'
         /\ Trusted(wanted') => wanted'.cdeg = a /\ ~u
<1> DEFINE rec == [cdeg |-> a, moving |-> FALSE, saved |-> TRUE, susp |-> u]
<1>1. rec \in Records
  BY DEF Records
<1>2. RecordTypes' /\ NoRecord' /\ (wanted' = rec \/ wanted' = Blank)
  <2>1. CASE rec = wanted
    BY <2>1 DEF SavePosition, cellVars, RecordTypes, NoRecord
  <2>2. CASE rec # wanted
    BY <1>1, <2>2, Queued DEF SavePosition
  <2>3. QED
    BY <2>1, <2>2
<1>3. QED
  BY <1>2 DEF Trusted, Blank

LEMMA Found ==
  ASSUME RecordTypes, NoRecord, NEW rec \in {stored} \cup {flight[i] : i \in DOMAIN flight}
  PROVE  rec \in Records /\ (~Chip => rec = Blank)
BY DEF RecordTypes, NoRecord

LEMMA FoundLater ==
  ASSUME RecordTypes, NoRecord
  PROVE  LET rec == IF flight = <<>> THEN stored ELSE flight[1] IN rec \in Records /\ (~Chip => rec = Blank)
BY DEF RecordTypes, NoRecord

-----------------------------------------------------------------------------
(***************************************************************************)
(* The shape of the steps.                                                 *)
(***************************************************************************)
\* What a move that starts changes.
LEMMA MoveShape ==
  ASSUME Types, NoRecord, NEW target \in Int, StartMove(target), safe' = safe, ~moving
  PROVE  /\ AxisTypes' /\ RecordTypes' /\ NoRecord' /\ MoveTypes' /\ ~haltRequested'
         /\ ~AxisBusy /\ P' = P
         /\ \/ /\ moving' /\ AxisBusy' /\ tgt'[Rot] = Steps(target) /\ moveTarget' = target /\ angle' = angle
               /\ ~Trusted(wanted') /\ savePending' = "none"
            \/ /\ ~moving' /\ ~AxisBusy' /\ angle' = target /\ P = Steps(target)
               /\ UNCHANGED wanted
               /\ savePending' = IF target # angle THEN "waiting" ELSE savePending
<1>1. ~AxisBusy /\ ~haltRequested
  BY DEF Types, Phase
<1>2. Steps(target) \in Int
  BY SettingFacts, SpkFacts DEF Types, Steps
<1>3. CASE Go(target)
  <2>1. AxisTypes' /\ AxisBusy' /\ P' = P /\ tgt'[Rot] = Steps(target)
    BY <1>2, <1>3, Started DEF Go, Types
  <2>2. RecordTypes' /\ NoRecord' /\ ~Trusted(wanted')
    BY <1>3, Marked DEF Go, Types
  <2>3. MoveTypes' /\ ~haltRequested' /\ moving' /\ moveTarget' = target /\ angle' = angle /\ savePending' = "none"
    BY <1>3 DEF Go, Types, MoveTypes
  <2>4. QED
    BY <1>1, <2>1, <2>2, <2>3
<1>4. CASE Nudge(target)
  <2>1. AxisTypes' /\ P' = P /\ ~AxisBusy'
    BY <1>1, <1>4 DEF Nudge, axisVars, Types, AxisTypes, P, AxisBusy
  <2>2. RecordTypes' /\ NoRecord' /\ UNCHANGED wanted
    BY <1>4 DEF Nudge, cellVars, Types, RecordTypes, NoRecord
  <2>3. MoveTypes' /\ ~haltRequested' /\ ~moving' /\ angle' = target
    BY <1>1, <1>4 DEF Nudge, Types, MoveTypes
  <2>4. P = Steps(target) /\ savePending' = IF target # angle THEN "waiting" ELSE savePending
    BY <1>4 DEF Nudge
  <2>5. QED
    BY <1>1, <2>1, <2>2, <2>3, <2>4
<1>5. QED
  BY <1>3, <1>4 DEF StartMove

\* A move of the host: inside the range.
HostMoves(target) ==
  /\ ~Busy /\ target \in Int /\ Lo <= target /\ target <= Hi
  /\ HostMove(target)

LEMMA HostMoveShape ==
  ASSUME Types, (\E t \in MoveTargets : MoveTo(t)) \/ (\E d \in MoveDeltas : MoveBy(d))
  PROVE  \E target : HostMoves(target)
<1>1. Lo \in Int /\ Hi \in Int /\ angle \in Int
  BY SettingFacts DEF Types, MoveTypes
<1>2. ASSUME NEW t \in MoveTargets, MoveTo(t) PROVE \E target : HostMoves(target)
  <2> DEFINE p == PlanTarget(angle, t, Lo, Hi)
  <2>1. t \in Int /\ Turn \in Int
    BY RotatorAssumption, TurnAssumption
  <2>2. p \in {t - Turn, t, t + Turn} /\ Lo <= p /\ p <= Hi
    BY <1>1, <1>2, <2>1, PlanTargetCorrect DEF MoveTo
  <2> HIDE DEF p
  <2>3. p \in Int
    BY <2>1, <2>2
  <2>4. ~Busy /\ HostMove(p)
    BY <1>2 DEF MoveTo, p
  <2>5. HostMoves(p)
    BY <2>2, <2>3, <2>4 DEF HostMoves
  <2>6. QED
    BY <2>5
<1>3. ASSUME NEW d \in MoveDeltas, MoveBy(d) PROVE \E target : HostMoves(target)
  <2>1. angle + d \in Int
    BY <1>1, RotatorAssumption
  <2>2. HostMoves(angle + d)
    BY <1>3, <2>1 DEF MoveBy, HostMoves
  <2>3. QED
    BY <2>2
<1>4. QED
  BY <1>2, <1>3

\* The end of a move.
EndShape ==
  \/ EndMove /\ UNCHANGED <<imuCal, bearing>> /\ seq' = "none" /\ settle' = settle
  \/ /\ EndMove /\ UNCHANGED <<imuCal, bearing>> /\ settle' = "waiting"
     /\ Complete /\ seq \in DOMAIN NextSettle /\ seq' = NextSettle[seq]
  \/ SetZeroHere /\ imuCal' = TRUE /\ bearing' = (bearing - capture) % FineTurn /\ seq' = "none" /\ settle' = settle

LEMMA NoteEndShape ==
  ASSUME NoteEnd
  PROVE  /\ EndShape /\ ~AxisBusy /\ moving' = FALSE /\ haltRequested' = FALSE /\ lastMoveComplete' = Complete
         /\ UNCHANGED <<wanted, stored, flight, dirty, safe, set, savedSet, moveTarget, calStart, capture,
                        bootHomePending, imu>>
BY DEF NoteEnd, AfterMove, FinishCalibration, EndShape, cellVars, setVars

\* A sequence goes on: it is given up, has found the zero, or moves.
SeqEnds == seq' = "none" /\ UNCHANGED <<axisVars, cellVars, moveVars, flagVars, savePending, calStart, settle, truth>>
SeqZero ==
  /\ seq' = "none" /\ SetZeroHere
  /\ UNCHANGED <<cellVars, moving, moveTarget, haltRequested, lastMoveComplete, calStart, settle>>
SeqMoves(target) ==
  /\ StartMove(target) /\ target \in Int
  /\ UNCHANGED <<flagVars, calStart, settle, truth>>
  /\ \/ seq = "homeSettle" /\ seq' = "homeMove" /\ Lo <= target /\ target <= Hi
     \/ seq \in CalSettles /\ target = CalTarget /\ seq' = CalNext

LEMMA SeqShape ==
  ASSUME Types, SeqUpdate
  PROVE  /\ SeqEnds \/ SeqZero \/ \E target : SeqMoves(target)
         /\ ~moving /\ capture' \in {capture, bearing}
         /\ UNCHANGED <<safe, setVars, bootHomePending, imuVars, bearing>>
<1>1. ~moving /\ capture' \in {capture, bearing} /\ UNCHANGED <<safe, setVars, bootHomePending, imuVars, bearing>>
  BY DEF SeqUpdate
<1> SUFFICES SeqEnds \/ SeqZero \/ \E target : SeqMoves(target)
  BY <1>1
<1>2. CASE GiveUp
  BY <1>2 DEF GiveUp, Abort, SeqEnds
<1>3. Lo \in Int /\ Hi \in Int /\ Lo <= Hi /\ angle \in Int /\ Roll \in Int /\ calStart \in Int /\ CalStep \in Int
  BY SettingFacts, RollInt, RotatorAssumption DEF Types, MoveTypes, SeqTypes
<1>4. ASSUME NEW target \in Int, NEW next, SeqMove(target, next),
             \/ seq = "homeSettle" /\ next = "homeMove" /\ Lo <= target /\ target <= Hi
             \/ seq \in CalSettles /\ target = CalTarget /\ next = CalNext
      PROVE  SeqEnds \/ \E t : SeqMoves(t)
  <2>1. CASE Abort
    BY <2>1 DEF Abort, SeqEnds
  <2>2. CASE ~Abort
    <3>1. SeqMoves(target)
      BY <1>4, <2>2 DEF SeqMove, SeqMoves
    <3>2. QED
      BY <3>1
  <2>3. QED
    BY <2>1, <2>2
<1>5. CASE seq = "homeSettle" /\ HomeStep
  <2>1. CASE imu = "vertical"
    BY <1>5, <2>1 DEF HomeStep, Abort, SeqEnds
  <2>2. CASE imu # "vertical" /\ homeMoves = 0
    <3>1. CASE HomeCandidates(angle, Roll, Lo, Hi) = {}
      BY <1>5, <2>2, <3>1 DEF HomeStep, Abort, SeqEnds
    <3>2. CASE HomeCandidates(angle, Roll, Lo, Hi) # {}
      <4> DEFINE p == PlanHome(angle, Roll, Lo, Hi)
      <4>1. p \in Int /\ Lo <= p /\ p <= Hi
        BY <1>3, <3>2, PlanHomeCorrect
      <4>2. HomeZero \/ SeqMove(p, "homeMove")
        BY <1>5, <2>2, <3>2 DEF HomeStep
      <4> HIDE DEF p
      <4>3. QED
        BY <1>4, <1>5, <4>1, <4>2 DEF HomeZero, SeqZero
    <3>3. QED
      BY <3>1, <3>2
  <2>3. CASE imu # "vertical" /\ homeMoves # 0
    <3> DEFINE p == PlanCorrection(angle, Roll, Lo, Hi)
    <3>1. p \in Int /\ Lo <= p /\ p <= Hi
      BY <1>3 DEF PlanCorrection
    <3>2. HomeZero \/ Abort \/ SeqMove(p, "homeMove")
      BY <1>5, <2>3 DEF HomeStep
    <3> HIDE DEF p
    <3>3. QED
      BY <1>4, <1>5, <3>1, <3>2 DEF HomeZero, SeqZero, Abort, SeqEnds
  <2>4. QED
    BY <2>1, <2>2, <2>3
<1>6. CASE seq \in CalSettles /\ SeqMove(CalTarget, CalNext)
  <2>1. CalTarget \in Int
    BY <1>3 DEF CalTarget
  <2>2. QED
    BY <1>4, <1>6, <2>1
<1>7. QED
  BY <1>1, <1>2, <1>5, <1>6 DEF SeqUpdate

-----------------------------------------------------------------------------
(***************************************************************************)
(* Every step keeps the types, and keeps the record away without a chip.   *)
(***************************************************************************)
Typed == Types /\ NoRecord

LEMMA UnchangedTypes ==
  /\ AxisTypes /\ UNCHANGED axisVars => AxisTypes'
  /\ RecordTypes /\ NoRecord /\ UNCHANGED cellVars /\ UNCHANGED safe => RecordTypes' /\ NoRecord'
  /\ SettingTypes /\ UNCHANGED setVars => SettingTypes'
  /\ MoveTypes /\ UNCHANGED moveVars => MoveTypes'
  /\ FlagTypes /\ UNCHANGED flagVars /\ UNCHANGED <<savePending, bootHomePending, truth>> => FlagTypes'
  /\ SeqTypes /\ UNCHANGED seqVars => SeqTypes'
  /\ ImuTypes /\ UNCHANGED imuVars /\ UNCHANGED bearing => ImuTypes'
  /\ Phase /\ UNCHANGED <<mode, haltRequested, moving, seq>> => Phase'
BY DEF axisVars, cellVars, setVars, moveVars, flagVars, seqVars, imuVars, AxisTypes, RecordTypes, NoRecord, SettingTypes,
       MoveTypes, FlagTypes, SeqTypes, ImuTypes, Phase, AxisBusy

LEMMA SettleTypes ==
  ASSUME Typed, NEW n \in SpkValues, Settle(n)
  PROVE  AxisTypes' /\ RecordTypes' /\ NoRecord' /\ MoveTypes' /\ FlagTypes' /\ SeqTypes' /\ ImuTypes' /\ Phase'
<1>1. CdegToSteps(angle, n) \in Int
  BY SpkFacts DEF Typed, Types, MoveTypes
<1>2. AxisTypes'
  BY <1>1 DEF Settle, Typed, Types, AxisTypes
<1>3. UNCHANGED <<mode, haltRequested, moving, seq>>
  BY DEF Settle, moveVars, seqVars
<1>4. QED
  BY <1>2, <1>3, UnchangedTypes DEF Settle, Typed, Types

LEMMA ZeroTypes ==
  ASSUME Typed, SetZeroHere
  PROVE  /\ AxisTypes' /\ P' = 0 /\ angle' = 0 /\ mode' = mode
         /\ savePending' = "waiting" /\ truth' = "right" /\ unverified' = FALSE /\ suspect' = FALSE
<1>1. 0 \in Int
  OBVIOUS
<1>2. AxisTypes' /\ P' = 0 /\ mode' = mode
  BY <1>1, Placed DEF SetZeroHere, Typed, Types
<1>3. QED
  BY <1>2 DEF SetZeroHere

LEMMA EndAngleInt ==
  ASSUME Typed
  PROVE  EndAngle \in Int /\ Complete \in BOOLEAN /\ StoppedEarly \in BOOLEAN
<1>1. P \in Int /\ set.spk \in SpkValues
  BY SettingFacts DEF Typed, Types, AxisTypes, P
<1>2. StepsToCdeg(P, set.spk) \in Int
  BY <1>1, SpkFacts
<1>3. EndAngle \in Int
  BY <1>2 DEF EndAngle, Typed, Types, MoveTypes
<1>4. Complete \in BOOLEAN /\ StoppedEarly \in BOOLEAN
  BY DEF Complete, StoppedEarly, Typed, Types, MoveTypes
<1>5. QED
  BY <1>3, <1>4

LEMMA NoteEndTypes ==
  ASSUME Typed, NoteEnd
  PROVE  Typed'
<1>1. /\ EndShape /\ ~AxisBusy /\ moving' = FALSE /\ haltRequested' = FALSE /\ lastMoveComplete' = Complete
      /\ UNCHANGED <<wanted, stored, flight, dirty, safe, set, savedSet, moveTarget, calStart, capture,
                     bootHomePending, imu>>
  BY NoteEndShape
<1>2. RecordTypes' /\ NoRecord' /\ SettingTypes'
  BY <1>1, UnchangedTypes DEF Typed, Types, cellVars, setVars
<1>3. Complete \in BOOLEAN /\ EndAngle \in Int /\ StoppedEarly \in BOOLEAN
  BY EndAngleInt
<1>4. CASE /\ EndMove /\ UNCHANGED <<imuCal, bearing>>
           /\ \/ seq' = "none" /\ settle' = settle
              \/ settle' = "waiting" /\ seq \in DOMAIN NextSettle /\ seq' = NextSettle[seq]
  <2>1. AxisTypes' /\ ~AxisBusy'
    BY <1>1, <1>4, UnchangedTypes DEF EndMove, axisVars, Typed, Types, AxisBusy
  <2>2. MoveTypes'
    BY <1>1, <1>3, <1>4 DEF EndMove, Typed, Types, MoveTypes
  <2>3. FlagTypes'
    <3>1. unverified' \in BOOLEAN /\ suspect' \in BOOLEAN
      BY <1>3, <1>4 DEF EndMove, Typed, Types, FlagTypes
    <3>2. truth' \in {"right", "wrong", "lapsed"} /\ savePending' \in {"none", "waiting", "due"}
      BY <1>4 DEF EndMove, EndTruth, Typed, Types, FlagTypes
    <3>3. QED
      BY <1>1, <3>1, <3>2 DEF Typed, Types, FlagTypes
  <2>4. SeqTypes' /\ ImuTypes'
    <3>1. UNCHANGED <<imuCal, bearing>> /\ seq' \in {"none"} \cup Settles \cup MoveSteps
          /\ settle' \in {"waiting", "settled", "late"}
      <4>1. CASE seq' = "none" /\ settle' = settle
        BY <1>4, <4>1 DEF Typed, Types, SeqTypes
      <4>2. CASE settle' = "waiting" /\ seq \in DOMAIN NextSettle /\ seq' = NextSettle[seq]
        BY <1>4, <4>2, SequenceFacts
      <4>3. QED
        BY <1>4, <4>1, <4>2
    <3>2. QED
      BY <1>1, <3>1 DEF Typed, Types, SeqTypes, ImuTypes
  <2>5. Phase'
    BY <1>1, <2>1 DEF Phase
  <2>6. QED
    BY <1>2, <2>1, <2>2, <2>3, <2>4, <2>5 DEF Typed, Types
<1>5. CASE SetZeroHere /\ imuCal' = TRUE /\ bearing' = (bearing - capture) % FineTurn /\ seq' = "none" /\ settle' = settle
  <2>1. /\ AxisTypes' /\ angle' = 0 /\ mode' = mode
        /\ savePending' = "waiting" /\ truth' = "right" /\ unverified' = FALSE /\ suspect' = FALSE
    BY <1>5, ZeroTypes
  <2>2. MoveTypes' /\ FlagTypes'
    <3>1. moving' \in BOOLEAN /\ haltRequested' \in BOOLEAN /\ lastMoveComplete' \in BOOLEAN
      BY <1>1, <1>3
    <3>2. angle' \in Int /\ moveTarget' \in Int
      BY <1>1, <2>1 DEF Typed, Types, MoveTypes
    <3>3. FlagTypes'
      BY <1>1, <2>1 DEF Typed, Types, FlagTypes
    <3>4. QED
      BY <3>1, <3>2, <3>3 DEF MoveTypes
  <2>3. bearing' \in 0 .. FineTurn - 1
    <3>1. bearing - capture \in Int
      BY FineTurnPositive DEF Typed, Types, ImuTypes, SeqTypes
    <3>2. QED
      BY <1>5, <3>1, FineMod
  <2>4. SeqTypes' /\ ImuTypes'
    BY <1>1, <1>5, <2>3 DEF Typed, Types, SeqTypes, ImuTypes
  <2>5. Phase'
    BY <1>1, <1>5, <2>1 DEF Phase, AxisBusy
  <2>6. QED
    BY <1>2, <2>1, <2>2, <2>4, <2>5 DEF Typed, Types
<1>6. QED
  BY <1>1, <1>4, <1>5 DEF EndShape

LEMMA SeqUpdateTypes ==
  ASSUME Typed, SeqUpdate
  PROVE  Typed'
<1>1. /\ SeqEnds \/ SeqZero \/ \E target : SeqMoves(target)
      /\ ~moving /\ capture' \in {capture, bearing}
      /\ UNCHANGED <<safe, setVars, bootHomePending, imuVars, bearing>>
  BY SeqShape DEF Typed
<1>2. SettingTypes' /\ ImuTypes' /\ capture' \in 0 .. FineTurn - 1
  BY <1>1, UnchangedTypes DEF Typed, Types, SeqTypes, ImuTypes
<1>3. ~AxisBusy /\ ~haltRequested
  BY <1>1 DEF Typed, Types, Phase
<1>4. CASE SeqEnds
  <2>1. AxisTypes' /\ RecordTypes' /\ NoRecord' /\ MoveTypes' /\ FlagTypes'
    BY <1>1, <1>4, UnchangedTypes DEF SeqEnds, Typed, Types
  <2>2. SeqTypes' /\ Phase'
    BY <1>2, <1>4 DEF SeqEnds, Typed, Types, SeqTypes, Phase, axisVars, moveVars, AxisBusy, Settles, CalSettles
  <2>3. QED
    BY <1>2, <2>1, <2>2 DEF Typed, Types
<1>5. CASE SeqZero
  <2>1. /\ AxisTypes' /\ angle' = 0 /\ mode' = mode
        /\ savePending' = "waiting" /\ truth' = "right" /\ unverified' = FALSE /\ suspect' = FALSE
    BY <1>5, ZeroTypes DEF SeqZero
  <2>2. RecordTypes' /\ NoRecord'
    BY <1>1, <1>5, UnchangedTypes DEF SeqZero, Typed, Types
  <2>3. MoveTypes'
    BY <1>5, <2>1 DEF SeqZero, Typed, Types, MoveTypes
  <2>6. FlagTypes'
    BY <1>1, <2>1 DEF Typed, Types, FlagTypes
  <2>4. SeqTypes' /\ Phase'
    BY <1>2, <1>5, <2>1 DEF SeqZero, Typed, Types, SeqTypes, Phase, AxisBusy, Settles, CalSettles
  <2>5. QED
    BY <1>2, <2>1, <2>2, <2>3, <2>4, <2>6 DEF Typed, Types
<1>6. ASSUME NEW target, SeqMoves(target) PROVE Typed'
  <2>1. target \in Int /\ StartMove(target) /\ safe' = safe /\ ~moving
    BY <1>1, <1>6 DEF SeqMoves
  <2>2. /\ AxisTypes' /\ RecordTypes' /\ NoRecord' /\ MoveTypes' /\ ~haltRequested'
        /\ moving' \/ ~AxisBusy'
        /\ savePending' \in {"none", "waiting", savePending}
    BY <2>1, MoveShape DEF Typed
  <2>3. FlagTypes'
    BY <1>1, <1>6, <2>2 DEF SeqMoves, flagVars, Typed, Types, FlagTypes
  <2>4. seq' \in MoveSteps /\ seq' \notin Settles
    BY <1>6, SequenceFacts DEF SeqMoves, CalNext
  <2>5. SeqTypes' /\ Phase'
    BY <1>2, <1>6, <2>2, <2>4 DEF SeqMoves, Typed, Types, SeqTypes, Phase
  <2>6. QED
    BY <1>2, <2>2, <2>3, <2>5 DEF Typed, Types
<1>7. QED
  BY <1>1, <1>4, <1>5, <1>6

LEMMA BootTypes ==
  ASSUME Typed, NEW rec \in Records, ~Chip => rec = Blank, BootFrom(rec)
  PROVE  Typed' /\ ~AxisBusy' /\ P' = CdegToSteps(rec.cdeg, savedSet.spk)
<1>1. rec.cdeg \in Int /\ savedSet.spk \in SpkValues
  BY SettingFacts DEF Records, Typed, Types
<1>2. CdegToSteps(rec.cdeg, savedSet.spk) \in Int
  BY <1>1, SpkFacts
<1>3. AxisTypes' /\ ~AxisBusy' /\ P' = CdegToSteps(rec.cdeg, savedSet.spk)
  BY <1>2 DEF BootFrom, Restart, Typed, Types, AxisTypes, AxisBusy, P
<1>4. RecordTypes' /\ NoRecord'
  BY DEF BootFrom, Restart, RecordTypes, NoRecord
<1>5. SettingTypes' /\ savedSet.bootHome \in BOOLEAN
  BY RotatorAssumption DEF BootFrom, Restart, Typed, Types, SettingTypes, Settings
<1>6. MoveTypes'
  <2>1. moving' \in BOOLEAN /\ haltRequested' \in BOOLEAN /\ lastMoveComplete' \in BOOLEAN
    BY DEF BootFrom, Restart
  <2>2. angle' \in Int /\ moveTarget' \in Int
    BY <1>1 DEF BootFrom, Restart
  <2>3. QED
    BY <2>1, <2>2 DEF MoveTypes
<1>7. FlagTypes'
  <2>1. suspect' \in BOOLEAN
    BY DEF BootFrom, Trusted, Records
  <2>2. truth' \in {"right", "wrong", "lapsed"}
    BY DEF BootFrom
  <2>3. QED
    BY <1>5, <2>1, <2>2 DEF BootFrom, Restart, FlagTypes
<1>8. 0 \in 0 .. FineTurn - 1
  BY FineTurnPositive
<1>9. SeqTypes' /\ Phase'
  BY <1>3, <1>8 DEF BootFrom, Restart, SeqTypes, Phase, Settles, CalSettles
<1>10. imuCal' \in BOOLEAN
  BY RotatorAssumption DEF BootFrom, Typed, Types, ImuTypes
<1>11. ImuTypes'
  BY <1>10 DEF BootFrom, Restart, Typed, Types, ImuTypes
<1>12. QED
  BY <1>3, <1>4, <1>5, <1>6, <1>7, <1>9, <1>11 DEF Typed, Types

LEMMA WatchdogTypes ==
  ASSUME Typed, WatchdogReset
  PROVE  Typed' /\ ~AxisBusy' /\ P' = CdegToSteps(0, Defaults.spk)
<1>1. CdegToSteps(0, Defaults.spk) \in Int
  BY DefaultsFacts, SpkFacts
<1>2. AxisTypes' /\ ~AxisBusy' /\ P' = CdegToSteps(0, Defaults.spk)
  BY <1>1 DEF WatchdogReset, Restart, Typed, Types, AxisTypes, AxisBusy, P
<1>3. Blank \in Records
  BY DEF Blank, Records
<1>4. stored' \in Records /\ (~Chip => stored' = Blank)
  BY FoundLater DEF WatchdogReset, Typed, Types
<1>5. RecordTypes' /\ NoRecord'
  BY <1>3, <1>4 DEF WatchdogReset, Restart, RecordTypes, NoRecord
<1>6. SettingTypes' /\ MoveTypes'
  <2>1. SettingTypes'
    BY DefaultsFacts DEF WatchdogReset, Restart, Typed, Types, SettingTypes
  <2>2. moving' \in BOOLEAN /\ haltRequested' \in BOOLEAN /\ lastMoveComplete' \in BOOLEAN
    BY DEF WatchdogReset, Restart
  <2>3. angle' \in Int /\ moveTarget' \in Int
    BY DEF WatchdogReset, Restart
  <2>4. QED
    BY <2>1, <2>2, <2>3 DEF MoveTypes
<1>7. FlagTypes'
  BY DefaultsFacts DEF WatchdogReset, Restart, FlagTypes
<1>8. 0 \in 0 .. FineTurn - 1
  BY FineTurnPositive
<1>9. SeqTypes' /\ Phase'
  BY <1>2, <1>8 DEF WatchdogReset, Restart, SeqTypes, Phase, Settles, CalSettles
<1>10. ImuTypes'
  BY DEF WatchdogReset, Restart, Typed, Types, ImuTypes
<1>11. QED
  BY <1>2, <1>5, <1>6, <1>7, <1>9, <1>10 DEF Typed, Types

LEMMA TypedHost ==
  ASSUME Typed, Host
  PROVE  Typed'
<1>1. ASSUME NEW target, HostMoves(target) PROVE Typed'
  <2>1. target \in Int /\ StartMove(target) /\ safe' = safe /\ ~moving /\ seq = "none"
    BY <1>1 DEF HostMoves, HostMove, Busy
  <2>2. /\ AxisTypes' /\ RecordTypes' /\ NoRecord' /\ MoveTypes' /\ ~haltRequested'
        /\ moving' \/ ~AxisBusy'
        /\ savePending' \in {"none", "waiting", savePending}
    BY <2>1, MoveShape DEF Typed
  <2>3. SettingTypes' /\ SeqTypes' /\ ImuTypes' /\ seq' = "none"
    BY <1>1, <2>1, UnchangedTypes DEF HostMoves, HostMove, Typed, Types, seqVars
  <2>4. FlagTypes'
    BY <1>1, <2>2 DEF HostMoves, HostMove, flagVars, Typed, Types, FlagTypes
  <2>5. Phase'
    BY <2>2, <2>3, SequenceFacts DEF Phase
  <2>6. QED
    BY <2>2, <2>3, <2>4, <2>5 DEF Typed, Types
<1>2. CASE (\E t \in MoveTargets : MoveTo(t)) \/ (\E d \in MoveDeltas : MoveBy(d))
  BY <1>1, <1>2, HostMoveShape DEF Typed
<1>3. CASE Halt
  <2>1. AxisTypes' /\ (AxisBusy' => AxisBusy)
    <3>1. CASE A!RequestHalt(Rot)
      BY <3>1, Halted DEF Typed, Types
    <3>2. CASE UNCHANGED axisVars
      BY <3>2, UnchangedTypes DEF Typed, Types, axisVars, AxisBusy
    <3>3. QED
      BY <1>3, <3>1, <3>2 DEF Halt
  <2>2. RecordTypes' /\ NoRecord' /\ SettingTypes' /\ ImuTypes'
    BY <1>3, UnchangedTypes DEF Halt, Typed, Types
  <2>3. MoveTypes' /\ FlagTypes'
    BY <1>3 DEF Halt, flagVars, Typed, Types, MoveTypes, FlagTypes
  <2>4. SeqTypes'
    BY <1>3 DEF Halt, Typed, Types, SeqTypes
  <2>5. Phase'
    BY <1>3, <2>1, SequenceFacts DEF Halt, Typed, Types, Phase
  <2>6. QED
    BY <2>1, <2>2, <2>3, <2>4, <2>5 DEF Typed, Types
<1>4. ASSUME NEW a \in SyncValues, Sync(a) PROVE Typed'
  <2>1. a \in Int /\ Steps(a) \in Int
    BY RotatorAssumption, SettingFacts, SpkFacts DEF Typed, Types, Steps
  <2>2. AxisTypes' /\ mode' = mode
    BY <1>4, <2>1, Placed DEF Sync, Typed, Types
  <2>3. RecordTypes' /\ NoRecord' /\ SettingTypes' /\ SeqTypes' /\ ImuTypes'
    BY <1>4, UnchangedTypes DEF Sync, Typed, Types
  <2>4. MoveTypes'
    BY <1>4, <2>1 DEF Sync, Typed, Types, MoveTypes
  <2>7. FlagTypes'
    BY <1>4 DEF Sync, Typed, Types, FlagTypes
  <2>5. Phase'
    BY <1>4, <2>2 DEF Sync, seqVars, Typed, Types, Phase, AxisBusy
  <2>6. QED
    BY <2>2, <2>3, <2>4, <2>5, <2>7 DEF Typed, Types
<1>5. ASSUME NEW first \in Settles, StartSequence(first), ~moving, calStart' \in Int, bootHomePending' \in BOOLEAN
      PROVE  Typed'
  <2>1. AxisTypes' /\ RecordTypes' /\ NoRecord' /\ SettingTypes' /\ MoveTypes' /\ ImuTypes'
    BY <1>5, UnchangedTypes DEF StartSequence, Typed, Types
  <2>2. FlagTypes'
    BY <1>5 DEF StartSequence, flagVars, Typed, Types, FlagTypes
  <2>3. SeqTypes'
    BY <1>5 DEF StartSequence, Typed, Types, SeqTypes
  <2>4. Phase'
    BY <1>5 DEF StartSequence, axisVars, moveVars, Typed, Types, Phase, AxisBusy
  <2>5. QED
    BY <2>1, <2>2, <2>3, <2>4 DEF Typed, Types
<1>6. CASE ImuHome
  <2>1. StartSequence("homeSettle") /\ ~moving /\ calStart' = calStart /\ bootHomePending' = bootHomePending
    BY <1>6 DEF ImuHome, BeginHome, Busy
  <2>2. QED
    BY <1>5, <2>1, SequenceFacts DEF Typed, Types, SeqTypes, FlagTypes
<1>7. CASE ImuCalibrate
  <2>1. StartSequence("calSettle0") /\ ~moving /\ calStart' = angle /\ bootHomePending' = bootHomePending
    BY <1>7 DEF ImuCalibrate, Busy
  <2>2. QED
    BY <1>5, <2>1, SequenceFacts DEF Typed, Types, MoveTypes, FlagTypes
<1>8. ASSUME set' \in Settings, UNCHANGED <<axisVars, cellVars, safe, savedSet, moveVars, flagVars, savePending, seqVars,
                                          bootHomePending, imuVars, bearing, truth>>
      PROVE  Typed'
  <2>1. SettingTypes'
    BY <1>8 DEF Typed, Types, SettingTypes
  <2>2. UNCHANGED <<mode, haltRequested, moving, seq>>
    BY <1>8 DEF axisVars, moveVars, seqVars
  <2>3. QED
    BY <1>8, <2>1, <2>2, UnchangedTypes DEF Typed, Types
<1>9. ASSUME NEW w \in WrapRanges, SetWrap(w) PROVE Typed'
  <2>1. set' \in Settings
    BY <1>9 DEF SetWrap, Typed, Types, SettingTypes, Settings
  <2>2. QED
    BY <1>8, <1>9, <2>1 DEF SetWrap
<1>10. ASSUME NEW g \in GuardValues, NEW b \in BootHomeValues, SetFlags(g, b) PROVE Typed'
  <2>1. set' \in Settings
    BY <1>10 DEF SetFlags, Typed, Types, SettingTypes, Settings
  <2>2. QED
    BY <1>8, <1>10, <2>1 DEF SetFlags
<1>11. ASSUME NEW n \in SpkValues, Settle(n), set' \in Settings, savedSet' \in Settings PROVE Typed'
  BY <1>11, SettleTypes DEF Typed, Types, SettingTypes
<1>12. ASSUME NEW n \in SpkValues, SetSpk(n) PROVE Typed'
  <2>1. set' \in Settings /\ savedSet' \in Settings
    BY <1>12 DEF SetSpk, Typed, Types, SettingTypes, Settings
  <2>2. QED
    BY <1>11, <1>12, <2>1 DEF SetSpk
<1>13. CASE SetSpeed
  BY <1>11, <1>13, SettingFacts DEF SetSpeed, setVars, Typed, Types, SettingTypes
<1>14. CASE ResetDefaults
  BY <1>11, <1>14, DefaultsFacts DEF ResetDefaults, Typed, Types, SettingTypes
<1>15. CASE SaveSettings
  <2>1. RecordTypes' /\ NoRecord' /\ SettingTypes'
    BY <1>15 DEF SaveSettings, Typed, Types, RecordTypes, NoRecord, SettingTypes
  <2>2. UNCHANGED <<mode, haltRequested, moving, seq>>
    BY <1>15 DEF SaveSettings, axisVars, moveVars, seqVars
  <2>3. QED
    BY <1>15, <2>1, <2>2, UnchangedTypes DEF SaveSettings, Typed, Types
<1>16. CASE Reboot
  BY <1>16, FoundLater, BootTypes DEF Reboot, Typed, Types
<1>17. QED
  BY <1>2, <1>3, <1>4, <1>6, <1>7, <1>9, <1>10, <1>12, <1>13, <1>14, <1>15, <1>16 DEF Host

LEMMA TypedKept ==
  ASSUME Typed, [Next]_vars
  PROVE  Typed'
<1> USE DEF Typed, Types
<1>1. CASE Host
  BY <1>1, TypedHost
<1>2. ASSUME AxisTypes', AxisBusy' => AxisBusy, truth' \in {"right", "wrong", "lapsed"}, bearing' \in 0 .. FineTurn - 1,
             UNCHANGED <<cellVars, safe, setVars, moveVars, flagVars, savePending, seqVars, bootHomePending, imuVars>>
      PROVE  Typed'
  <2>1. FlagTypes' /\ ImuTypes'
    BY <1>2 DEF FlagTypes, ImuTypes, flagVars, imuVars
  <2>2. Phase'
    BY <1>2 DEF Phase, moveVars, seqVars
  <2>3. QED
    BY <1>2, <2>1, <2>2, UnchangedTypes
<1>3. CASE Step \/ SlipStep \/ FaultStop
  <2>1. A!Step(Rot) \/ A!StopAtOnce(Rot)
    BY <1>3 DEF Step, SlipStep, FaultStop
  <2>2. AxisTypes' /\ AxisBusy
    BY <2>1, Stepped, Halted
  <2>3. bearing' \in 0 .. FineTurn - 1
    <3>1. CASE Step
      <4> DEFINE x == bearing + (P' - P) * (Fine \div set.spk)
      <4>1. bearing \in Int /\ P \in Int /\ P' \in Int
        BY <2>2, FineTurnPositive DEF ImuTypes, AxisTypes, P
      <4>2. (Fine \div set.spk) \in Int
        BY SettingFacts, RotatorAssumption
      <4>3. x \in Int
        <5> DEFINE f == Fine \div set.spk
        <5>1. f \in Int
          BY <4>2
        <5> HIDE DEF f
        <5>2. (P' - P) * f \in Int
          BY <4>1, <5>1
        <5>3. bearing + (P' - P) * f \in Int
          BY <4>1, <5>2
        <5>4. QED
          BY <5>3 DEF f
      <4>4. bearing' = x % FineTurn
        BY <3>1 DEF Step
      <4> HIDE DEF x
      <4>5. QED
        BY <4>3, <4>4, FineMod
    <3>2. CASE SlipStep \/ FaultStop
      BY <3>2 DEF SlipStep, FaultStop, ImuTypes
    <3>3. QED
      BY <1>3, <3>1, <3>2
  <2>4. truth' \in {"right", "wrong", "lapsed"}
    BY <1>3 DEF Step, SlipStep, FaultStop, FlagTypes
  <2>5. UNCHANGED <<cellVars, safe, setVars, moveVars, flagVars, savePending, seqVars, bootHomePending, imuVars>>
    BY <1>3 DEF Step, SlipStep, FaultStop
  <2>6. QED
    BY <1>2, <2>2, <2>3, <2>4, <2>5
<1>4. CASE NoteEnd
  BY <1>4, NoteEndTypes
<1>5. CASE SeqUpdate
  BY <1>5, SeqUpdateTypes
<1>6. CASE SaveWhenIdle
  <2>1. angle \in Int /\ suspect \in BOOLEAN
    BY DEF MoveTypes, FlagTypes
  <2>2. RecordTypes' /\ NoRecord'
    BY <1>6, <2>1, Saved DEF SaveWhenIdle
  <2>3. FlagTypes'
    BY <1>6 DEF SaveWhenIdle, flagVars, FlagTypes
  <2>4. UNCHANGED <<mode, haltRequested, moving, seq>>
    BY <1>6 DEF SaveWhenIdle, axisVars, moveVars, seqVars
  <2>5. QED
    BY <1>6, <2>2, <2>3, <2>4, UnchangedTypes DEF SaveWhenIdle
<1>7. CASE DelayOver
  <2>1. FlagTypes'
    BY <1>7 DEF DelayOver, flagVars, FlagTypes
  <2>2. UNCHANGED <<mode, haltRequested, moving, seq>>
    BY <1>7 DEF DelayOver, axisVars, moveVars, seqVars
  <2>3. QED
    BY <1>7, <2>1, <2>2, UnchangedTypes DEF DelayOver
<1>8. CASE SettleEnds
  <2>1. SeqTypes'
    BY <1>8 DEF SettleEnds, SeqTypes
  <2>2. UNCHANGED <<mode, haltRequested, moving, seq>>
    BY <1>8 DEF SettleEnds, axisVars, moveVars
  <2>3. QED
    BY <1>8, <2>1, <2>2, UnchangedTypes DEF SettleEnds
<1>9. CASE ImuChange
  <2>1. ImuTypes'
    BY <1>9 DEF ImuChange, ImuTypes
  <2>2. UNCHANGED <<mode, haltRequested, moving, seq>>
    BY <1>9 DEF ImuChange, axisVars, moveVars, seqVars
  <2>3. QED
    BY <1>9, <2>1, <2>2, UnchangedTypes DEF ImuChange
<1>10. CASE HandOver \/ Land
  <2>1. RecordTypes' /\ NoRecord'
    <3>1. CASE HandOver
      BY <3>1 DEF HandOver, C!HandOver, RecordTypes, NoRecord
    <3>2. CASE Land
      BY <3>2 DEF Land, C!Land, RecordTypes, NoRecord
    <3>3. QED
      BY <1>10, <3>1, <3>2
  <2>2. UNCHANGED <<mode, haltRequested, moving, seq>>
    BY <1>10 DEF HandOver, Land, axisVars, moveVars, seqVars
  <2>3. QED
    BY <1>10, <2>1, <2>2, UnchangedTypes DEF HandOver, Land
<1>11. CASE BootHome
  <2>1. CASE BeginHome
    <3>1. AxisTypes' /\ RecordTypes' /\ NoRecord' /\ SettingTypes' /\ MoveTypes' /\ ImuTypes'
      BY <2>1, UnchangedTypes DEF BeginHome, StartSequence
    <3>2. FlagTypes'
      BY <1>11, <2>1 DEF BootHome, BeginHome, StartSequence, flagVars, FlagTypes
    <3>3. SeqTypes'
      BY <2>1, SequenceFacts DEF BeginHome, StartSequence, SeqTypes
    <3>4. Phase'
      BY <2>1 DEF BeginHome, StartSequence, Busy, axisVars, moveVars, Phase, AxisBusy
    <3>5. QED
      BY <3>1, <3>2, <3>3, <3>4
  <2>2. CASE UNCHANGED <<axisVars, cellVars, safe, setVars, moveVars, flagVars, savePending, seqVars, imuVars, bearing, truth>>
    <3>1. FlagTypes'
      BY <1>11, <2>2 DEF BootHome, flagVars, FlagTypes
    <3>2. UNCHANGED <<mode, haltRequested, moving, seq>>
      BY <2>2 DEF axisVars, moveVars, seqVars
    <3>3. QED
      BY <2>2, <3>1, <3>2, UnchangedTypes
  <2>3. QED
    BY <1>11, <2>1, <2>2 DEF BootHome
<1>12. CASE PowerCut
  BY <1>12, Found, BootTypes DEF PowerCut
<1>13. CASE WatchdogReset
  BY <1>13, WatchdogTypes
<1>14. CASE UNCHANGED vars
  <2>1. UNCHANGED <<axisVars, cellVars, safe, setVars, moveVars, flagVars, savePending, seqVars, bootHomePending, imuVars,
                    bearing, truth>>
    BY <1>14 DEF vars, axisVars, cellVars, setVars, moveVars, flagVars, seqVars, imuVars
  <2>2. UNCHANGED <<mode, haltRequested, moving, seq>>
    BY <1>14 DEF vars
  <2>3. QED
    BY <2>1, <2>2, UnchangedTypes
<1>15. QED
  BY <1>1, <1>3, <1>4, <1>5, <1>6, <1>7, <1>8, <1>9, <1>10, <1>11, <1>12, <1>13, <1>14 DEF Next, Environment, Update

-----------------------------------------------------------------------------
(***************************************************************************)
(* An angle that is not suspect stays the real one.                        *)
(***************************************************************************)
Trusting == Typed /\ TrustedRight /\ RecordTrue

\* A move that starts.
LEMMA TrustMove ==
  ASSUME Trusting, NEW target \in Int, StartMove(target), UNCHANGED <<safe, suspect, truth>>, ~moving
  PROVE  (TrustedRight /\ RecordTrue)'
<1>1. \/ moving' /\ ~Trusted(wanted')
      \/ /\ ~moving' /\ angle' = target /\ UNCHANGED wanted
         /\ savePending' = IF target # angle THEN "waiting" ELSE savePending
  BY MoveShape DEF Trusting, Typed
<1>2. QED
  BY <1>1 DEF Trusting, TrustedRight, RecordTrue

LEMMA TrustUnchanged ==
  ASSUME Trusting, UNCHANGED <<wanted, suspect, truth, angle, moving>>, savePending' \in {savePending, "waiting"}
  PROVE  (TrustedRight /\ RecordTrue)'
BY DEF Trusting, TrustedRight, RecordTrue

LEMMA TrustZero ==
  ASSUME truth' = "right", savePending' = "waiting"
  PROVE  (TrustedRight /\ RecordTrue)'
BY DEF TrustedRight, RecordTrue

LEMMA TrustBooted ==
  ASSUME Trusting, Typed', NEW rec \in Records, BootFrom(rec)
  PROVE  (TrustedRight /\ RecordTrue)'
<1>1. wanted' = rec /\ suspect' = ~Trusted(rec) /\ angle' = rec.cdeg /\ ~moving' /\ savePending' = "none"
  BY DEF BootFrom, Restart
<1>2. ASSUME Trusted(rec), truth' # "lapsed" PROVE truth' = "right"
  <2>1. ~safe /\ rec = wanted /\ savePending = "none" /\ truth # "lapsed"
    BY <1>2 DEF BootFrom, BootLoses
  <2>2. truth = "right" /\ ~moving /\ rec.cdeg = angle
    BY <1>2, <2>1 DEF Trusting, RecordTrue
  <2>3. QED
    BY <1>2, <2>1, <2>2 DEF BootFrom, BootLoses
<1>3. TrustedRight'
  <2>1. SUFFICES ASSUME Trusted(rec) PROVE truth' # "wrong"
    BY <1>1 DEF TrustedRight
  <2>2. QED
    BY <1>2, <2>1
<1>4. RecordTrue'
  BY <1>1, <1>2 DEF RecordTrue
<1>5. QED
  BY <1>3, <1>4

LEMMA TrustKept ==
  ASSUME Trusting, [Next]_vars
  PROVE  (TrustedRight /\ RecordTrue)'
<1>1. Typed'
  BY TypedKept DEF Trusting
<1> USE DEF Trusting
<1>2. CASE (\E t \in MoveTargets : MoveTo(t)) \/ (\E d \in MoveDeltas : MoveBy(d))
  <2>1. PICK target : HostMoves(target)
    BY <1>2, HostMoveShape DEF Typed
  <2>2. target \in Int /\ StartMove(target) /\ UNCHANGED <<safe, suspect, truth>> /\ ~moving
    BY <2>1 DEF HostMoves, HostMove, Busy, flagVars
  <2>3. QED
    BY <2>2, TrustMove
<1>3. ASSUME UNCHANGED <<wanted, suspect, truth, angle, moving, savePending>> PROVE (TrustedRight /\ RecordTrue)'
  BY <1>3, TrustUnchanged
<1>4. CASE Halt \/ ImuHome \/ ImuCalibrate \/ SettleEnds \/ ImuChange \/ UNCHANGED vars
  <2>1. UNCHANGED <<wanted, suspect, truth, angle, moving, savePending>>
    BY <1>4 DEF Halt, ImuHome, BeginHome, ImuCalibrate, StartSequence, SettleEnds, ImuChange, vars, cellVars, flagVars, moveVars
  <2>2. QED
    BY <1>3, <2>1
<1>5. CASE HandOver \/ Land \/ BootHome \/ SaveSettings
  <2>1. UNCHANGED <<wanted, suspect, truth, angle, moving, savePending>>
    BY <1>5 DEF HandOver, C!HandOver, Land, C!Land, BootHome, BeginHome, StartSequence, SaveSettings, cellVars, flagVars, moveVars
  <2>2. QED
    BY <1>3, <2>1
<1>6. ASSUME \/ \E w \in WrapRanges : SetWrap(w)
             \/ \E n \in SpkValues : SetSpk(n)
             \/ SetSpeed \/ ResetDefaults
             \/ \E g \in GuardValues, b \in BootHomeValues : SetFlags(g, b)
      PROVE  (TrustedRight /\ RecordTrue)'
  <2>1. UNCHANGED <<wanted, suspect, truth, angle, moving, savePending>>
    BY <1>6 DEF SetWrap, SetSpk, SetSpeed, ResetDefaults, SetFlags, Settle, cellVars, flagVars, moveVars
  <2>2. QED
    BY <1>3, <2>1
<1>7. ASSUME NEW a \in SyncValues, Sync(a) PROVE (TrustedRight /\ RecordTrue)'
  BY <1>7, TrustZero DEF Sync
<1>8. CASE Reboot
  BY <1>1, <1>8, FoundLater, TrustBooted DEF Reboot, Typed, Types
<1>9. CASE PowerCut
  BY <1>1, <1>9, Found, TrustBooted DEF PowerCut, Typed, Types
<1>10. CASE WatchdogReset
  BY <1>10 DEF WatchdogReset, Restart, Blank, Trusted, TrustedRight, RecordTrue
<1>11. CASE Step \/ SlipStep \/ FaultStop
  <2>1. A!Step(Rot) \/ A!StopAtOnce(Rot)
    BY <1>11 DEF Step, SlipStep, FaultStop
  <2>2. moving
    BY <2>1, Stepped, Halted DEF Typed, Types, Phase
  <2>3. /\ UNCHANGED <<wanted, suspect, angle, moving, savePending>>
        /\ truth' = truth \/ truth' = IF truth = "lapsed" THEN "lapsed" ELSE "wrong"
    BY <1>11 DEF Step, SlipStep, FaultStop, cellVars, flagVars, moveVars
  <2>4. QED
    BY <2>2, <2>3 DEF TrustedRight, RecordTrue
<1>12. CASE NoteEnd
  <2>1. /\ EndShape /\ moving' = FALSE /\ wanted' = wanted
    BY <1>12, NoteEndShape
  <2>2. CASE SetZeroHere
    BY <2>2, TrustZero DEF SetZeroHere
  <2>3. CASE EndMove
    <3>1. CASE moving
      BY <2>1, <2>3, <3>1 DEF EndMove, EndTruth, TrustedRight, RecordTrue
    <3>2. CASE ~moving
      <4>1. angle' = angle /\ truth' = truth /\ suspect' = suspect /\ savePending' = savePending
        BY <2>3, <3>2 DEF EndMove, EndAngle, EndTruth, StoppedEarly, Typed, Types, FlagTypes
      <4>2. QED
        BY <2>1, <3>2, <4>1 DEF TrustedRight, RecordTrue
    <3>3. QED
      BY <3>1, <3>2
  <2>4. QED
    BY <2>1, <2>2, <2>3 DEF EndShape
<1>13. CASE SeqUpdate
  <2>1. (SeqEnds \/ SeqZero \/ \E target : SeqMoves(target)) /\ ~moving /\ safe' = safe
    BY <1>13, SeqShape DEF Typed
  <2>2. CASE SeqEnds
    BY <1>3, <2>2 DEF SeqEnds, cellVars, flagVars, moveVars
  <2>3. CASE SeqZero
    BY <2>3, TrustZero DEF SeqZero, SetZeroHere
  <2>4. ASSUME NEW target, SeqMoves(target) PROVE (TrustedRight /\ RecordTrue)'
    BY <2>1, <2>4, TrustMove DEF SeqMoves, flagVars
  <2>5. QED
    BY <2>1, <2>2, <2>3, <2>4
<1>14. CASE SaveWhenIdle
  <2>1. angle \in Int /\ suspect \in BOOLEAN /\ truth \in {"right", "wrong", "lapsed"}
    BY DEF Typed, Types, MoveTypes, FlagTypes
  <2>2. Trusted(wanted') => wanted'.cdeg = angle /\ ~suspect
    BY <1>14, <2>1, Saved DEF SaveWhenIdle, Typed, Types
  <2>3. ~moving /\ UNCHANGED <<suspect, truth, angle, moving>>
    BY <1>14 DEF SaveWhenIdle, Busy, flagVars, moveVars
  <2>4. QED
    BY <2>1, <2>2, <2>3 DEF TrustedRight, RecordTrue
<1>15. CASE DelayOver
  BY <1>15 DEF DelayOver, cellVars, flagVars, moveVars, TrustedRight, RecordTrue
<1>16. QED
  BY <1>2, <1>4, <1>5, <1>6, <1>7, <1>8, <1>9, <1>10, <1>11, <1>12, <1>13, <1>14, <1>15 DEF Next, Host, Environment, Update

-----------------------------------------------------------------------------
(***************************************************************************)
(* No move leaves the cable-wrap range.                                    *)
(***************************************************************************)
Wrapping == Typed /\ Wrap

\* Integers behind the steps of the range and of a target.
LEMMA WrapInts ==
  ASSUME Typed
  PROVE  /\ P \in Int /\ tgt[Rot] \in Int /\ angle \in Int /\ calStart \in Int /\ moveTarget \in Int
         /\ set.spk \in Nat \ {0} /\ Lo \in Int /\ Hi \in Int /\ Lo <= 0 /\ 0 <= Hi
         /\ Steps(Lo) \in Int /\ Steps(Hi) \in Int /\ Steps(calStart) \in Int
<1>1. /\ P \in Int /\ tgt[Rot] \in Int /\ angle \in Int /\ calStart \in Int /\ moveTarget \in Int
  BY DEF Typed, Types, AxisTypes, P, MoveTypes, SeqTypes
<1>2. set.spk \in Nat \ {0} /\ set.spk \in SpkValues /\ Lo \in Int /\ Hi \in Int /\ Lo <= 0 /\ 0 <= Hi
  BY SettingFacts DEF Typed, Types
<1>3. Steps(Lo) \in Int /\ Steps(Hi) \in Int /\ Steps(calStart) \in Int
  BY <1>1, <1>2, SpkFacts DEF Steps
<1>4. QED
  BY <1>1, <1>2, <1>3

\* From where the rotator rests no step leads back to a greater angle.
LEMMA AheadOf ==
  ASSUME Typed, AtAngle, ~moving, NEW t \in Int, angle < t
  PROVE  Steps(t) \in Int /\ P <= Steps(t)
<1>1. P \in Int /\ angle \in Int /\ set.spk \in Nat \ {0}
  BY WrapInts
<1>2. Steps(t) \in Int
  BY <1>1, AnglesInt DEF Steps
<1>3. CASE P = Steps(angle)
  BY <1>1, <1>3, StepsMonotone DEF Steps
<1>4. CASE angle = StepsToCdeg(P, set.spk)
  <2>1. StepsToCdeg(P, set.spk) + 1 <= t
    BY <1>1, <1>4
  <2>2. QED
    BY <1>1, <1>2, <2>1, NextAngleAhead DEF Steps
<1>5. QED
  BY <1>2, <1>3, <1>4 DEF AtAngle

\* A target that a move may be given.
MayMoveTo(t) ==
  /\ t <= Hi
  /\ Lo <= t \/ t = calStart \/ angle < t

LEMMA WrapMove ==
  ASSUME Wrapping, NEW target \in Int, StartMove(target), MayMoveTo(target), ~moving,
         UNCHANGED <<safe, setVars, calStart>>
  PROVE  (AtAngle /\ TargetInWrap)'
<1>1. /\ P' = P
      /\ \/ moving' /\ AxisBusy' /\ tgt'[Rot] = Steps(target)
         \/ ~moving' /\ ~AxisBusy' /\ angle' = target /\ P = Steps(target)
  BY MoveShape DEF Wrapping, Typed
<1>2. Lo' = Lo /\ Hi' = Hi /\ Steps(Lo)' = Steps(Lo) /\ Steps(Hi)' = Steps(Hi) /\ Steps(calStart)' = Steps(calStart)
      /\ Steps(angle)' = CdegToSteps(angle', set.spk)
  BY DEF setVars, Lo, Hi, Steps
<1>3. CASE ~moving' /\ ~AxisBusy' /\ angle' = target /\ P = Steps(target)
  BY <1>1, <1>2, <1>3 DEF AtAngle, TargetInWrap, Steps
<1>4. CASE moving' /\ AxisBusy' /\ tgt'[Rot] = Steps(target)
  <2>1. P \in Int /\ set.spk \in Nat \ {0} /\ Lo \in Int /\ Hi \in Int
    BY WrapInts DEF Wrapping
  <2>2. Steps(target) \in Int /\ Steps(target) <= Steps(Hi)
    BY <2>1, StepsMonotone DEF MayMoveTo, Steps
  <2>3. Steps(Lo) <= Steps(target) \/ Steps(target) = Steps(calStart) \/ P <= Steps(target)
    <3>1. CASE Lo <= target
      BY <2>1, <3>1, StepsMonotone DEF Steps
    <3>2. CASE target = calStart
      BY <3>2
    <3>3. CASE angle < target
      BY <3>3, AheadOf DEF Wrapping, Wrap
    <3>4. QED
      BY <3>1, <3>2, <3>3 DEF MayMoveTo
  <2>4. Steps(Lo) \in Int
    BY WrapInts DEF Wrapping
  <2>5. TargetInWrap'
    BY <1>1, <1>2, <1>4, <2>1, <2>2, <2>3, <2>4 DEF TargetInWrap
  <2>6. QED
    BY <1>4, <2>5 DEF AtAngle
<1>5. QED
  BY <1>1, <1>3, <1>4

\* While a move runs, and when it was stopped.
LEMMA WrapRunning ==
  ASSUME Wrapping, moving, UNCHANGED <<moving, set, calStart, tgt>>, AxisBusy' => AxisBusy,
         \/ P' = P
         \/ (P < tgt[Rot] /\ P' = P + 1) \/ (P > tgt[Rot] /\ P' = P - 1)
  PROVE  (AtAngle /\ TargetInWrap)'
<1>1. Lo' = Lo /\ Hi' = Hi /\ Steps(Lo)' = Steps(Lo) /\ Steps(Hi)' = Steps(Hi) /\ Steps(calStart)' = Steps(calStart)
  BY DEF Lo, Hi, Steps
<1>2. P \in Int /\ tgt[Rot] \in Int
  BY WrapInts DEF Wrapping
<1>3. TargetInWrap'
  BY <1>1, <1>2 DEF Wrapping, Wrap, TargetInWrap
<1>4. QED
  BY <1>3 DEF AtAngle

\* Steps of no account for the range.
LEMMA WrapUnchanged ==
  ASSUME Wrapping, UNCHANGED <<pos, tgt, mode, angle, moving, moveTarget, seq, calStart>>,
         set'.wrap = set.wrap, set'.spk = set.spk
  PROVE  Wrap'
BY DEF Wrapping, Wrap, AtAngle, CalPlace, TargetInWrap, P, Lo, Hi, Steps, AxisBusy

\* The rotator rests, no sequence runs, and its steps were just set from its angle.
LEMMA WrapAtRest ==
  ASSUME ~AxisBusy', seq' = "none", P' = CdegToSteps(angle', set'.spk)
  PROVE  Wrap'
<1>1. (P = Steps(angle))'
  BY DEF Steps
<1>2. QED
  BY <1>1, SequenceFacts DEF Wrap, AtAngle, CalPlace, TargetInWrap

LEMMA ZeroSteps ==
  ASSUME NEW spk \in Nat \ {0}
  PROVE  CdegToSteps(0, spk) = 0
<1>1. 0 * spk = 0 /\ 0 * Den = 0 /\ Den \in Nat \ {0}
  BY DenAssumption
<1>2. DivRound(0 * Den, Den) = 0
  BY <1>1, DivRoundWhole
<1>3. QED
  BY <1>1, <1>2 DEF CdegToSteps

\* setZeroHere()
LEMMA WrapZero ==
  ASSUME Wrapping, SetZeroHere, seq' = "none", set' = set
  PROVE  Wrap'
<1>1. ~AxisBusy' /\ P' = 0 /\ angle' = 0
  <2>1. P' = 0 /\ angle' = 0 /\ mode' = mode
    BY ZeroTypes DEF Wrapping
  <2>2. ~AxisBusy
    BY Placed DEF SetZeroHere, Wrapping, Typed, Types
  <2>3. QED
    BY <2>1, <2>2 DEF AxisBusy
<1>2. set'.spk \in Nat \ {0}
  BY WrapInts DEF Wrapping
<1>3. QED
  BY <1>1, <1>2, ZeroSteps, WrapAtRest

\* Steps set anew from the angle while idle.
LEMMA WrapSettled ==
  ASSUME Wrapping, NEW n \in SpkValues, Settle(n), ~Busy, set'.spk = n
  PROVE  Wrap'
<1>1. seq' = "none" /\ angle' = angle /\ ~AxisBusy'
  BY DEF Settle, Busy, seqVars, moveVars, AxisBusy
<1>2. P' = CdegToSteps(angle', set'.spk)
  BY <1>1 DEF Settle, Wrapping, Typed, Types, AxisTypes, P
<1>3. QED
  BY <1>1, <1>2, WrapAtRest

LEMMA WrapNoteEnd ==
  ASSUME Wrapping, NoteEnd
  PROVE  Wrap'
<1>1. /\ EndShape /\ ~AxisBusy /\ moving' = FALSE /\ set' = set /\ calStart' = calStart
  BY NoteEndShape
<1>2. CASE SetZeroHere /\ seq' = "none"
  BY <1>1, <1>2, WrapZero
<1>3. CASE /\ EndMove
           /\ seq' = "none" \/ (Complete /\ seq \in DOMAIN NextSettle /\ seq' = NextSettle[seq])
  <2>1. P' = P /\ ~AxisBusy' /\ angle' = EndAngle
    BY <1>1, <1>3 DEF EndMove, axisVars, P, AxisBusy
  <2>2. Hi' = Hi /\ (Steps(angle))' = Steps(angle')
    BY <1>1 DEF Hi, Steps
  <2>3. AtAngle'
    BY <1>1, <2>1, <2>2 DEF AtAngle, EndAngle, Complete, Wrapping, Wrap
  <2>4. TargetInWrap'
    BY <2>1 DEF TargetInWrap
  <2>5. CalPlace'
    <3>1. CASE seq' = "none"
      BY <3>1, SequenceFacts DEF CalPlace
    <3>2. CASE Complete /\ seq = "homeMove" /\ seq' = "homeSettle"
      BY <3>2, SequenceFacts DEF CalPlace
    <3>3. CASE Complete /\ seq = "calMove90" /\ seq' = "calSettle90"
      <4>1. angle' = calStart + CalStep
        BY <2>1, <3>3 DEF EndAngle, Wrapping, Wrap, CalPlace
      <4>2. calStart + 2 * CalStep <= Hi
        BY <3>3, SequenceFacts DEF Wrapping, Wrap, CalPlace
      <4>3. QED
        BY <1>1, <2>2, <3>3, <4>1, <4>2 DEF CalPlace
    <3>4. CASE Complete /\ seq = "calMove180" /\ seq' = "calSettle180"
      <4>1. calStart + 2 * CalStep <= Hi
        BY <3>4, SequenceFacts DEF Wrapping, Wrap, CalPlace
      <4>2. QED
        BY <1>1, <2>2, <3>4, <4>1 DEF CalPlace
    <3>5. QED
      BY <1>3, <3>1, <3>2, <3>3, <3>4, SequenceFacts
  <2>6. QED
    BY <2>3, <2>4, <2>5 DEF Wrap
<1>4. QED
  BY <1>1, <1>2, <1>3 DEF EndShape

LEMMA WrapSeqUpdate ==
  ASSUME Wrapping, SeqUpdate
  PROVE  Wrap'
<1>1. /\ SeqEnds \/ SeqZero \/ \E target : SeqMoves(target)
      /\ ~moving /\ safe' = safe /\ UNCHANGED setVars /\ set' = set
  BY SeqShape DEF Wrapping, Typed, setVars
<1>2. CASE SeqEnds
  <2>1. seq' = "none" /\ UNCHANGED <<pos, tgt, mode, angle, moving, moveTarget, calStart>>
    BY <1>2 DEF SeqEnds, axisVars, moveVars
  <2>2. QED
    BY <1>1, <2>1, SequenceFacts DEF Wrapping, Wrap, AtAngle, CalPlace, TargetInWrap, P, Lo, Hi, Steps, AxisBusy
<1>3. CASE SeqZero
  BY <1>1, <1>3, WrapZero DEF SeqZero
<1>4. ASSUME NEW target, SeqMoves(target) PROVE Wrap'
  <2>1. target \in Int /\ StartMove(target) /\ calStart' = calStart
    BY <1>4 DEF SeqMoves
  <2>2. calStart \in Int /\ CalStep \in Nat /\ angle \in Int /\ Hi \in Int /\ Lo \in Int
    BY WrapInts, RotatorAssumption DEF Wrapping
  <2>3. Hi' = Hi
    BY <1>1 DEF Hi
  <2>4. CASE seq = "homeSettle" /\ seq' = "homeMove" /\ Lo <= target /\ target <= Hi
    <3>1. MayMoveTo(target)
      BY <2>4 DEF MayMoveTo
    <3>2. CalPlace'
      BY <2>4, SequenceFacts DEF CalPlace
    <3>3. QED
      BY <1>1, <2>1, <3>1, <3>2, WrapMove DEF Wrap
  <2>5. CASE seq \in CalSettles /\ target = CalTarget /\ seq' = CalNext
    <3>1. calStart + 2 * CalStep <= Hi
      BY <2>5 DEF Wrapping, Wrap, CalPlace, CalSteps
    <3>2. CASE seq = "calSettle0"
      <4>1. target = calStart + CalStep /\ seq' = "calMove90" /\ angle = calStart
        BY <2>5, <3>2 DEF CalTarget, CalNext, Wrapping, Wrap, CalPlace
      <4>2. MayMoveTo(target)
        BY <2>2, <3>1, <4>1 DEF MayMoveTo
      <4>3. (AtAngle /\ TargetInWrap)'
        BY <1>1, <2>1, <4>2, WrapMove
      <4>4. IF moving' THEN moveTarget' = target ELSE angle' = target
        BY <1>1, <2>1, MoveShape DEF Wrapping, Typed
      <4>5. CalPlace'
        BY <2>1, <2>3, <3>1, <4>1, <4>4 DEF CalPlace
      <4>6. QED
        BY <4>3, <4>5 DEF Wrap
    <3>3. CASE seq = "calSettle90"
      <4>1. target = calStart + 2 * CalStep /\ seq' = "calMove180" /\ angle = calStart + CalStep
        BY <2>5, <3>3 DEF CalTarget, CalNext, Wrapping, Wrap, CalPlace
      <4>2. MayMoveTo(target)
        BY <2>2, <3>1, <4>1 DEF MayMoveTo
      <4>3. CalPlace'
        BY <2>1, <2>3, <3>1, <4>1 DEF CalPlace
      <4>4. QED
        BY <1>1, <2>1, <4>2, <4>3, WrapMove DEF Wrap
    <3>4. CASE seq = "calSettle180"
      <4>1. target = calStart /\ seq' = "calMoveBack"
        BY <2>2, <2>5, <3>4 DEF CalTarget, CalNext
      <4>2. MayMoveTo(target)
        BY <2>2, <3>1, <4>1 DEF MayMoveTo
      <4>3. CalPlace'
        BY <2>1, <2>3, <3>1, <4>1 DEF CalPlace
      <4>4. QED
        BY <1>1, <2>1, <4>2, <4>3, WrapMove DEF Wrap
    <3>5. QED
      BY <2>5, <3>2, <3>3, <3>4 DEF CalSettles
  <2>6. QED
    BY <1>4, <2>4, <2>5 DEF SeqMoves
<1>5. QED
  BY <1>1, <1>2, <1>3, <1>4

LEMMA WrapKept ==
  ASSUME Wrapping, [Next]_vars
  PROVE  Wrap'
<1>1. CASE (\E t \in MoveTargets : MoveTo(t)) \/ (\E d \in MoveDeltas : MoveBy(d))
  <2>1. PICK target : HostMoves(target)
    BY <1>1, HostMoveShape DEF Wrapping, Typed
  <2>2. target \in Int /\ StartMove(target) /\ UNCHANGED <<safe, setVars>> /\ ~moving /\ MayMoveTo(target)
        /\ seq' = "none" /\ calStart' = calStart
    BY <2>1 DEF HostMoves, HostMove, Busy, MayMoveTo, seqVars
  <2>3. (AtAngle /\ TargetInWrap)'
    BY <2>2, WrapMove
  <2>4. CalPlace'
    BY <2>2, SequenceFacts DEF CalPlace
  <2>5. QED
    BY <2>3, <2>4 DEF Wrap
<1>2. CASE Step \/ SlipStep \/ FaultStop
  <2>1. A!Step(Rot) \/ A!StopAtOnce(Rot)
    BY <1>2 DEF Step, SlipStep, FaultStop
  <2>2. /\ AxisBusy /\ tgt' = tgt
        /\ P' = P \/ (P < tgt[Rot] /\ P' = P + 1) \/ (P > tgt[Rot] /\ P' = P - 1)
    <3>1. CASE A!Step(Rot)
      BY <3>1, Stepped DEF Wrapping, Typed, Types
    <3>2. CASE A!StopAtOnce(Rot)
      BY <3>2, Halted DEF Wrapping, Typed, Types, P
    <3>3. QED
      BY <2>1, <3>1, <3>2
  <2>3. moving
    BY <2>2 DEF Wrapping, Typed, Types, Phase
  <2>4. UNCHANGED <<moving, set, calStart, seq, angle, moveTarget>>
    BY <1>2 DEF Step, SlipStep, FaultStop, moveVars, setVars, seqVars
  <2>5. (AtAngle /\ TargetInWrap)'
    BY <2>2, <2>3, <2>4, WrapRunning
  <2>6. CalPlace'
    BY <2>4 DEF Wrapping, Wrap, CalPlace, Hi
  <2>7. QED
    BY <2>5, <2>6 DEF Wrap
<1>3. CASE Halt
  <2>1. UNCHANGED <<pos, tgt>> /\ (AxisBusy' => AxisBusy)
    <3>1. CASE A!RequestHalt(Rot)
      BY <3>1, Halted DEF Wrapping, Typed, Types
    <3>2. CASE UNCHANGED axisVars
      BY <3>2 DEF axisVars, AxisBusy
    <3>3. QED
      BY <1>3, <3>1, <3>2 DEF Halt
  <2>2. seq' = "none" /\ UNCHANGED <<moving, set, calStart, angle>>
    BY <1>3 DEF Halt, setVars
  <2>3. CalPlace'
    BY <2>2, SequenceFacts DEF CalPlace
  <2>4. AtAngle' /\ TargetInWrap'
    BY <2>1, <2>2 DEF Wrapping, Wrap, AtAngle, TargetInWrap, P, Lo, Hi, Steps
  <2>5. QED
    BY <2>3, <2>4 DEF Wrap
<1>4. ASSUME NEW a \in SyncValues, Sync(a) PROVE Wrap'
  <2>1. a \in Int /\ Steps(a) \in Int
    BY RotatorAssumption, SettingFacts, SpkFacts DEF Wrapping, Typed, Types, Steps
  <2>2. P' = Steps(a) /\ ~AxisBusy'
    BY <1>4, <2>1, Placed DEF Sync, Wrapping, Typed, Types, AxisBusy
  <2>3. angle' = a /\ seq' = "none" /\ set' = set
    BY <1>4 DEF Sync, Busy, seqVars, setVars
  <2>4. QED
    BY <2>2, <2>3, WrapAtRest DEF Steps
<1>5. CASE ImuHome \/ BootHome
  <2>1. CASE BeginHome
    <3>1. UNCHANGED <<pos, tgt, mode, angle, moving, set>> /\ seq' = "homeSettle" /\ ~Busy
      BY <2>1 DEF BeginHome, StartSequence, axisVars, moveVars, setVars
    <3>2. CalPlace' /\ TargetInWrap'
      BY <3>1, SequenceFacts DEF CalPlace, TargetInWrap, AxisBusy, Busy
    <3>3. AtAngle'
      BY <3>1 DEF Wrapping, Wrap, AtAngle, P, Steps
    <3>4. QED
      BY <3>2, <3>3 DEF Wrap
  <2>2. CASE UNCHANGED <<axisVars, cellVars, safe, setVars, moveVars, flagVars, savePending, seqVars, imuVars, bearing, truth>>
    <3>1. UNCHANGED <<pos, tgt, mode, angle, moving, moveTarget, seq, calStart>> /\ set'.wrap = set.wrap /\ set'.spk = set.spk
      BY <2>2 DEF axisVars, moveVars, seqVars, setVars
    <3>2. QED
      BY <3>1, WrapUnchanged
  <2>3. QED
    BY <1>5, <2>1, <2>2 DEF ImuHome, BootHome
<1>6. CASE ImuCalibrate
  <2>1. /\ UNCHANGED <<pos, tgt, mode, angle, moving, set>> /\ seq' = "calSettle0" /\ ~Busy
        /\ calStart' = angle /\ angle + 2 * CalStep <= Hi
    BY <1>6 DEF ImuCalibrate, StartSequence, axisVars, moveVars, setVars
  <2>2. CalPlace'
    BY <2>1 DEF CalPlace, Hi
  <2>3. AtAngle' /\ TargetInWrap'
    BY <2>1 DEF Wrapping, Wrap, AtAngle, P, Steps, TargetInWrap, AxisBusy, Busy
  <2>4. QED
    BY <2>2, <2>3 DEF Wrap
<1>7. ASSUME NEW w \in WrapRanges, SetWrap(w) PROVE Wrap'
  <2>1. UNCHANGED <<pos, tgt, mode, angle, moving, seq>> /\ set'.spk = set.spk /\ ~Busy
    BY <1>7 DEF SetWrap, axisVars, moveVars, seqVars, Wrapping, Typed, Types, SettingTypes, Settings
  <2>2. QED
    BY <2>1, SequenceFacts DEF Wrapping, Wrap, AtAngle, CalPlace, TargetInWrap, P, Steps, AxisBusy, Busy
<1>8. ASSUME NEW n \in SpkValues, SetSpk(n) PROVE Wrap'
  <2>1. set'.spk = n
    BY <1>8 DEF SetSpk, Wrapping, Typed, Types, SettingTypes, Settings
  <2>2. QED
    BY <1>8, <2>1, WrapSettled DEF SetSpk
<1>9. CASE SetSpeed
  <2>1. set.spk \in SpkValues /\ Settle(set.spk) /\ set' = set
    BY <1>9, SettingFacts DEF SetSpeed, setVars, Wrapping, Typed, Types
  <2>2. CASE Busy
    <3>1. UNCHANGED <<tgt, mode, angle, moving, moveTarget, seq, calStart>>
      BY <2>1 DEF Settle, moveVars, seqVars
    <3>2. pos' = pos
      BY <2>1, <2>2 DEF Settle, Wrapping, Typed, Types, AxisTypes
    <3>3. QED
      BY <2>1, <3>1, <3>2, WrapUnchanged
  <2>3. CASE ~Busy
    BY <2>1, <2>3, WrapSettled
  <2>4. QED
    BY <2>2, <2>3
<1>10. CASE ResetDefaults
  BY <1>10, DefaultsFacts, WrapSettled DEF ResetDefaults
<1>11. ASSUME NEW g \in GuardValues, NEW b \in BootHomeValues, SetFlags(g, b) PROVE Wrap'
  <2>1. UNCHANGED <<pos, tgt, mode, angle, moving, moveTarget, seq, calStart>>
    BY <1>11 DEF SetFlags, axisVars, moveVars, seqVars
  <2>2. set'.wrap = set.wrap /\ set'.spk = set.spk
    BY <1>11 DEF SetFlags, Wrapping, Typed, Types, SettingTypes, Settings
  <2>3. QED
    BY <2>1, <2>2, WrapUnchanged
<1>12. CASE SaveSettings \/ SaveWhenIdle \/ DelayOver \/ SettleEnds \/ ImuChange \/ HandOver \/ Land \/ UNCHANGED vars
  <2>1. UNCHANGED <<pos, tgt, mode, angle, moving, moveTarget, seq, calStart>> /\ set'.wrap = set.wrap /\ set'.spk = set.spk
    BY <1>12 DEF SaveSettings, SaveWhenIdle, DelayOver, SettleEnds, ImuChange, HandOver, Land, vars,
                 axisVars, moveVars, seqVars, setVars
  <2>2. QED
    BY <2>1, WrapUnchanged
<1>13. ASSUME NEW rec \in Records, ~Chip => rec = Blank, BootFrom(rec) PROVE Wrap'
  <2>1. ~AxisBusy' /\ P' = CdegToSteps(rec.cdeg, savedSet.spk)
    BY <1>13, BootTypes DEF Wrapping
  <2>2. angle' = rec.cdeg /\ set' = savedSet /\ seq' = "none"
    BY <1>13 DEF BootFrom, Restart
  <2>3. QED
    BY <2>1, <2>2, WrapAtRest
<1>14. CASE Reboot \/ PowerCut
  BY <1>13, <1>14, Found, FoundLater DEF Reboot, PowerCut, Wrapping, Typed, Types
<1>15. CASE WatchdogReset
  <2>1. ~AxisBusy' /\ P' = CdegToSteps(0, Defaults.spk)
    BY <1>15, WatchdogTypes DEF Wrapping
  <2>2. angle' = 0 /\ set' = Defaults /\ seq' = "none"
    BY <1>15 DEF WatchdogReset, Restart
  <2>3. QED
    BY <2>1, <2>2, WrapAtRest
<1>16. CASE NoteEnd
  BY <1>16, WrapNoteEnd
<1>17. CASE SeqUpdate
  BY <1>17, WrapSeqUpdate
<1>18. QED
  BY <1>1, <1>2, <1>3, <1>4, <1>5, <1>6, <1>7, <1>8, <1>9, <1>10, <1>11, <1>12, <1>14, <1>15, <1>16, <1>17
  DEF Next, Host, Environment, Update

-----------------------------------------------------------------------------
(***************************************************************************)
(* The invariant, and what follows from it.                                *)
(***************************************************************************)
LEMMA RotInit == Init => RotInv
<1> SUFFICES ASSUME Init PROVE RotInv
  OBVIOUS
<1>1. AxisTypes /\ ~AxisBusy /\ P = 0
  BY DEF Init, AxisTypes, AxisBusy, P
<1>2. Blank \in Records
  BY DEF Blank, Records
<1>3. RecordTypes /\ NoRecord
  BY <1>2 DEF Init, C!CellInit, RecordTypes, NoRecord
<1>4. SettingTypes /\ Defaults.bootHome \in BOOLEAN
  BY DefaultsFacts DEF Init, SettingTypes
<1>5. MoveTypes
  <2>1. moving \in BOOLEAN /\ haltRequested \in BOOLEAN /\ lastMoveComplete \in BOOLEAN
    BY DEF Init
  <2>2. angle \in Int /\ moveTarget \in Int
    BY DEF Init
  <2>3. QED
    BY <2>1, <2>2 DEF MoveTypes
<1>6. FlagTypes
  BY <1>4 DEF Init, FlagTypes
<1>7. 0 \in 0 .. FineTurn - 1
  BY FineTurnPositive
<1>8. SeqTypes /\ ImuTypes
  <2>1. capture \in 0 .. FineTurn - 1 /\ bearing \in 0 .. FineTurn - 1
    BY <1>7 DEF Init
  <2>2. seq \in {"none"} \cup Settles \cup MoveSteps /\ settle \in {"waiting", "settled", "late"} /\ calStart \in Int
    BY DEF Init
  <2>3. imu \in ImuStates /\ imuCal \in BOOLEAN
    BY DEF Init
  <2>4. QED
    BY <2>1, <2>2, <2>3 DEF SeqTypes, ImuTypes
<1>9. Phase
  BY <1>1, SequenceFacts DEF Init, Phase
<1>10. TrustedRight /\ RecordTrue
  BY DEF Init, C!CellInit, TrustedRight, RecordTrue, Trusted, Blank
<1>11. Wrap
  <2>1. CdegToSteps(0, set.spk) = 0
    BY <1>4, SettingFacts, ZeroSteps
  <2>2. P = Steps(angle)
    BY <1>1, <2>1 DEF Init, Steps
  <2>3. QED
    BY <1>1, <2>2, SequenceFacts DEF Init, Wrap, AtAngle, CalPlace, TargetInWrap
<1>12. QED
  BY <1>1, <1>3, <1>4, <1>5, <1>6, <1>8, <1>9, <1>10, <1>11 DEF RotInv, Types, Trust

LEMMA RotNext == RotInv /\ [Next]_vars => RotInv'
BY TypedKept, TrustKept, WrapKept DEF RotInv, Typed, Trust, Trusting, Wrapping

\* The inductive invariant holds always.
THEOREM RotAlways == Spec => []RotInv
BY RotInit, RotNext, PTL DEF Spec

\* Types of the rotator, its settings, its record and its sequences.
THEOREM RotTypesCorrect == Spec => []TypeOK
<1>1. RotInv => TypeOK
  <2> SUFFICES ASSUME RotInv PROVE TypeOK
    OBVIOUS
  <2> USE DEF RotInv, Types
  <2>1. P \in Int /\ tgt[Rot] \in Int /\ mode[Rot] \in {"idle", "moving", "halting"} /\ stoppedFlag[Rot] \in BOOLEAN
    BY DEF AxisTypes, P
  <2>2. wanted \in Records /\ stored \in Records /\ (flight = <<>> \/ flight[1] \in Records)
    BY DEF RecordTypes
  <2>3. {stoppedFlag[Rot], dirty, safe, moving, haltRequested, lastMoveComplete, unverified, suspect,
         bootHomePending, imuCal} \subseteq BOOLEAN
    BY <2>1 DEF RecordTypes, MoveTypes, FlagTypes, ImuTypes
  <2>4. {angle, moveTarget, calStart} \subseteq Int /\ seq \in {"none"} \cup Settles \cup MoveSteps
    BY DEF MoveTypes, SeqTypes
  <2>5. savePending \in {"none", "waiting", "due"} /\ settle \in {"waiting", "settled", "late"}
    BY DEF FlagTypes, SeqTypes
  <2>6. imu \in ImuStates /\ {bearing, capture} \subseteq 0 .. FineTurn - 1
    BY DEF ImuTypes, SeqTypes
  <2>7. QED
    BY <2>1, <2>2, <2>3, <2>4, <2>5, <2>6 DEF Phase, TypeOK
<1>2. QED
  BY <1>1, RotAlways, PTL

\* An angle that is not marked suspect is the real one, but for the lapses: through moves, halts, fault stops,
\* delayed saves, power cuts, resets and reboots, with and without an EEPROM (rotator.cpp:12-15).
THEOREM TrustedRightAlways == Spec => []TrustedRight
BY RotAlways, PTL DEF RotInv, Trust

\* No step leaves the cable-wrap range or goes further out, for any range, microsteps per angle and rounding,
\* but for a calibration on its way back to where it began (docs/PROTOCOL.md "A move never leaves min..max").
THEOREM StaysInWrapAlways == Spec => StaysInWrap
<1> DEFINE Inside == Step \/ SlipStep =>
                       /\ (P' <= Steps(Hi) \/ P' < P)
                       /\ (P' >= Steps(Lo) \/ P' > P \/ tgt[Rot] = Steps(calStart))
<1>1. RotInv /\ [Next]_vars => [Inside]_vars
  <2> SUFFICES ASSUME RotInv, Step \/ SlipStep PROVE Inside
    OBVIOUS
  <2>1. /\ P \in Int /\ tgt[Rot] \in Int /\ Steps(Lo) \in Int /\ Steps(Hi) \in Int /\ Steps(calStart) \in Int
    BY WrapInts DEF RotInv, Typed, Trust
  <2>2. AxisBusy /\ ((P < tgt[Rot] /\ P' = P + 1) \/ (P > tgt[Rot] /\ P' = P - 1))
    BY Stepped DEF Step, SlipStep, RotInv, Types
  <2>3. /\ tgt[Rot] > P => tgt[Rot] <= Steps(Hi)
        /\ tgt[Rot] < P => tgt[Rot] >= Steps(Lo) \/ tgt[Rot] = Steps(calStart)
    BY <2>2 DEF RotInv, Wrap, TargetInWrap
  <2>4. QED
    BY <2>1, <2>2, <2>3
<1>2. QED
  BY <1>1, RotAlways, PTL DEF Spec, StaysInWrap

-----------------------------------------------------------------------------
(***************************************************************************)
(* The zero that a calibration and a home find.                            *)
(***************************************************************************)
\* A calibration that has captured its first bearing.
Captured == seq \in CalSteps \ {"calSettle0"}

FinePerStep == Fine \div set.spk

\* Where the steps stood at the first capture: at the angle a calibration began from, or rounded to it.
Origin(p) == p \in Int /\ (p = Steps(calStart) \/ calStart = StepsToCdeg(p, set.spk))

\* The camera has turned by the steps made since, and m whole turns.
TurnedSince(p, m) == m \in Int /\ bearing - capture = (P - p) * FinePerStep + m * FineTurn

\* A halt ends every sequence, a calibration goes back to its beginning, and the IMU and the steps agree about
\* how far the camera has turned since the first capture.
ZeroSound ==
  /\ haltRequested => seq = "none"
  /\ seq = "calMoveBack" => IF moving THEN moveTarget = calStart ELSE P = Steps(calStart)
  /\ Captured /\ truth = "right" => \E p, m : Origin(p) /\ TurnedSince(p, m)

LEMMA CapturedWhen ==
  /\ Captured => seq # "none"
  /\ Captured' => seq' \in {"calMove90", "calSettle90", "calMove180", "calSettle180", "calMoveBack"}
BY SequenceFacts DEF Captured

\* No sequence runs, or one that has captured nothing.
LEMMA ZeroNone ==
  ASSUME ~haltRequested' \/ seq' = "none", seq' \in {"none", "homeSettle", "homeMove", "calSettle0"}
  PROVE  ZeroSound'
BY CapturedWhen DEF ZeroSound

\* Steps of no account for the zero.
LEMMA ZeroUnchanged ==
  ASSUME ZeroSound, P' = P, set'.spk = set.spk,
         UNCHANGED <<bearing, capture, calStart, seq, haltRequested, moving, moveTarget>>,
         truth' = "right" => truth = "right"
  PROVE  ZeroSound'
<1>1. Steps(calStart)' = Steps(calStart)
  BY DEF Steps
<1>2. Captured' = Captured
  BY DEF Captured
<1>3. ASSUME NEW p, NEW m, Origin(p), TurnedSince(p, m)
      PROVE  Origin(p)' /\ TurnedSince(p, m)'
  BY <1>1, <1>3 DEF Origin, TurnedSince, FinePerStep
<1>4. QED
  BY <1>1, <1>2, <1>3 DEF ZeroSound

LEMMA DivMod ==
  ASSUME NEW x \in Int, NEW d \in Nat \ {0}
  PROVE  (x \div d) \in Int /\ (x % d) \in Int /\ x = d * (x \div d) + (x % d)
OBVIOUS

LEMMA OneMore ==
  ASSUME NEW a \in Int, NEW b \in Int, NEW p \in Int, NEW k \in Int, b = a + 1 \/ b = a - 1
  PROVE  (b - a) * k \in Int /\ (a - p) * k \in Int /\ (b - p) * k = (a - p) * k + (b - a) * k
OBVIOUS

\* A step of the axis turns the camera by as much.
LEMMA ZeroStep ==
  ASSUME Types, ZeroSound, Step
  PROVE  ZeroSound'
<1> DEFINE k == FinePerStep
<1>1. /\ AxisBusy /\ P \in Int
      /\ P' = P + 1 \/ P' = P - 1
      /\ UNCHANGED <<set, capture, calStart, seq, haltRequested, moving, moveTarget, truth>>
      /\ bearing' = (bearing + (P' - P) * k) % FineTurn
  BY Stepped DEF Step, setVars, seqVars, moveVars, Types, AxisTypes, P, FinePerStep
<1>2. k \in Int
  BY SettingFacts, RotatorAssumption DEF Types, FinePerStep
<1>3. k' = k /\ Steps(calStart)' = Steps(calStart) /\ Captured' = Captured
  BY <1>1 DEF FinePerStep, Steps, Captured
<1>4. FineTurn \in Nat \ {0} /\ bearing \in Int /\ capture \in Int
  BY FineTurnPositive DEF Types, ImuTypes, SeqTypes
<1>5. moving
  BY <1>1 DEF Types, Phase
<1>6. ASSUME NEW p, NEW m, Origin(p), TurnedSince(p, m)
      PROVE  \E n : Origin(p)' /\ TurnedSince(p, n)'
  <2> DEFINE d == (P' - P) * k
             e == (P - p) * k
             x == bearing + d
             q == x \div FineTurn
             r == x % FineTurn
  <2>1. p \in Int /\ m \in Int
    BY <1>6 DEF Origin, TurnedSince
  <2>2. d \in Int /\ e \in Int /\ (P' - p) * k = e + d
    <3>1. P \in Int /\ P' \in Int /\ (P' = P + 1 \/ P' = P - 1) /\ k \in Int /\ p \in Int
      BY <1>1, <1>2, <2>1
    <3> HIDE DEF k
    <3>2. QED
      BY <3>1, OneMore
  <2>3. bearing - capture = e + m * FineTurn
    BY <1>6 DEF TurnedSince
  <2>4. x \in Int
    BY <1>4, <2>2
  <2>5. q \in Int /\ r \in Int /\ x = q * FineTurn + r
    <3> HIDE DEF x
    <3>1. (x \div FineTurn) \in Int /\ (x % FineTurn) \in Int /\ x = FineTurn * (x \div FineTurn) + (x % FineTurn)
      BY <1>4, <2>4, DivMod
    <3>2. QED
      BY <1>4, <3>1
  <2>6. (m - q) \in Int /\ (m - q) * FineTurn = m * FineTurn - q * FineTurn
        /\ m * FineTurn \in Int /\ q * FineTurn \in Int
    BY <1>4, <2>1, <2>5
  <2>7. bearing' = r
    BY <1>1
  <2> DEFINE mt == m * FineTurn
             qt == q * FineTurn
             nt == (m - q) * FineTurn
             pk == (P' - p) * k
  <2>8. /\ mt \in Int /\ qt \in Int /\ nt = mt - qt /\ bearing - capture = e + mt
        /\ bearing + d = qt + r /\ pk = e + d
    BY <2>2, <2>3, <2>5, <2>6
  <2> HIDE DEF d, e, q, r, mt, qt, nt, pk
  <2>9. r - capture = pk + nt
    BY <1>4, <2>2, <2>5, <2>8
  <2>10. PICK n \in Int : n * FineTurn = nt
    BY <2>6 DEF nt, q
  <2>11. TurnedSince(p, n)'
    <3>1. FineTurn' = FineTurn
      BY DEF FineTurn
    <3>2. bearing' - capture' = (P' - p) * FinePerStep' + n * FineTurn'
      BY <1>1, <1>3, <2>7, <2>9, <2>10, <3>1 DEF pk
    <3>3. QED
      BY <3>2 DEF TurnedSince
  <2>12. Origin(p)'
    BY <1>1, <1>3, <1>6 DEF Origin
  <2>13. QED
    BY <2>11, <2>12
<1>7. QED
  BY <1>1, <1>3, <1>5, <1>6 DEF ZeroSound

\* The end of a move: a sequence goes on to its next rest where the axis stands, or is over.
LEMMA ZeroNoteEnd ==
  ASSUME Types, ZeroSound, NoteEnd
  PROVE  ZeroSound'
<1>1. EndShape /\ haltRequested' = FALSE /\ moving' = FALSE /\ UNCHANGED <<set, calStart, capture>>
  BY NoteEndShape
<1>2. CASE seq' = "none"
  BY <1>1, <1>2, ZeroNone
<1>3. CASE EndMove /\ bearing' = bearing /\ seq \in DOMAIN NextSettle /\ seq' = NextSettle[seq]
  <2>1. P' = P /\ truth' = EndTruth
    BY <1>3 DEF EndMove, axisVars, P
  <2>2. truth' = "right" => truth = "right"
    BY <2>1 DEF EndTruth
  <2>3. seq \in {"homeMove", "calMove90", "calMove180"} /\ seq' \in {"homeSettle", "calSettle90", "calSettle180"}
        /\ (seq = "homeMove" => seq' = "homeSettle")
    BY <1>3, SequenceFacts
  <2>4. CASE seq = "homeMove"
    BY <1>1, <2>3, <2>4, ZeroNone
  <2>5. CASE seq # "homeMove"
    <3>1. Captured
      BY <2>3, <2>5, SequenceFacts DEF Captured
    <3>2. Steps(calStart)' = Steps(calStart) /\ FinePerStep' = FinePerStep
      BY <1>1 DEF Steps, FinePerStep
    <3>3. ASSUME NEW p, NEW m, Origin(p), TurnedSince(p, m)
          PROVE  Origin(p)' /\ TurnedSince(p, m)'
      <4>1. Origin(p)'
        BY <1>1, <3>2, <3>3 DEF Origin
      <4>2. FineTurn' = FineTurn
        BY DEF FineTurn
      <4>3. TurnedSince(p, m)'
        BY <1>1, <1>3, <2>1, <3>2, <3>3, <4>2 DEF TurnedSince
      <4>4. QED
        BY <4>1, <4>3
    <3>4. seq' # "calMoveBack"
      BY <2>3
    <3>5. QED
      BY <1>1, <2>2, <3>1, <3>3, <3>4 DEF ZeroSound
  <2>6. QED
    BY <2>4, <2>5
<1>4. QED
  BY <1>1, <1>2, <1>3 DEF EndShape

\* A sequence goes on from a rest: the first capture is where the steps stand, later ones are none.
LEMMA ZeroSeqUpdate ==
  ASSUME Wrapping, ZeroSound, SeqUpdate
  PROVE  ZeroSound'
<1>1. /\ SeqEnds \/ SeqZero \/ \E target : SeqMoves(target)
      /\ ~moving /\ UNCHANGED <<safe, set, bearing>> /\ Types /\ NoRecord
  BY SeqShape DEF Wrapping, Typed, setVars
<1>2. CASE SeqEnds \/ SeqZero
  BY <1>2, ZeroNone DEF SeqEnds, SeqZero
<1>3. ASSUME NEW target, SeqMoves(target) PROVE ZeroSound'
  <2>1. target \in Int /\ StartMove(target) /\ UNCHANGED <<calStart, truth>>
    BY <1>3 DEF SeqMoves
  <2>2. /\ ~haltRequested' /\ P' = P /\ calStart' = calStart
        /\ IF moving' THEN moveTarget' = target ELSE P = Steps(target)
    BY <1>1, <2>1, MoveShape
  <2>3. CASE seq = "homeSettle" /\ seq' = "homeMove"
    BY <2>2, <2>3, ZeroNone
  <2>4. CASE seq \in CalSettles /\ target = CalTarget /\ seq' = CalNext
    <3>1. Steps(calStart)' = Steps(calStart) /\ FinePerStep' = FinePerStep /\ FineTurn' = FineTurn
      BY <1>1, <2>1 DEF Steps, FinePerStep, FineTurn
    <3>2. seq' = "calMoveBack" => IF moving' THEN moveTarget' = calStart' ELSE P' = Steps(calStart)'
      <4>1. seq' = "calMoveBack" => target = calStart + 0
        BY <2>4 DEF CalTarget, CalNext, CalSettles
      <4>2. calStart + 0 = calStart
        BY DEF Wrapping, Typed, Types, SeqTypes
      <4>3. QED
        BY <2>1, <2>2, <3>1, <4>1, <4>2
    <3>3. CASE seq = "calSettle0"
      <4>1. capture' = bearing
        BY <2>4, <3>3 DEF SeqUpdate, GiveUp, Abort, CalNext, Settled, Settles
      <4>2. angle = calStart /\ (P = Steps(angle) \/ angle = StepsToCdeg(P, set.spk))
        BY <1>1, <3>3 DEF Wrapping, Wrap, CalPlace, AtAngle
      <4>3. P \in Int /\ FinePerStep \in Int /\ FineTurn \in Int /\ bearing \in Int
        BY <1>1, SettingFacts, RotatorAssumption, FineTurnPositive DEF Types, AxisTypes, P, FinePerStep, ImuTypes
      <4>4. PICK p \in Int : p = P
        BY <4>3
      <4>5. Origin(p)'
        BY <1>1, <2>1, <3>1, <4>2, <4>4 DEF Origin
      <4>6. bearing' - capture' = 0 /\ (P' - p) * FinePerStep' = 0 /\ 0 * FineTurn' = 0
        BY <1>1, <2>2, <3>1, <4>1, <4>3, <4>4
      <4>7. TurnedSince(p, 0)'
        BY <4>6 DEF TurnedSince
      <4>8. QED
        BY <2>2, <3>2, <4>5, <4>7 DEF ZeroSound
    <3>4. CASE seq # "calSettle0"
      <4>1. Captured /\ capture' = capture
        BY <2>4, <3>4 DEF Captured, CalSteps, CalSettles, SeqUpdate
      <4>2. ASSUME NEW p, NEW m, Origin(p), TurnedSince(p, m)
            PROVE  Origin(p)' /\ TurnedSince(p, m)'
        BY <1>1, <2>1, <2>2, <3>1, <4>1, <4>2 DEF Origin, TurnedSince
      <4>3. QED
        BY <2>1, <2>2, <3>2, <4>1, <4>2 DEF ZeroSound
    <3>5. QED
      BY <3>3, <3>4
  <2>5. QED
    BY <1>3, <2>3, <2>4 DEF SeqMoves
<1>4. QED
  BY <1>1, <1>2, <1>3

LEMMA ZeroKept ==
  ASSUME Wrapping, ZeroSound, [Next]_vars
  PROVE  ZeroSound'
<1> USE DEF Wrapping, Typed
<1>1. CASE (\E t \in MoveTargets : MoveTo(t)) \/ (\E d \in MoveDeltas : MoveBy(d))
  <2>1. PICK target : HostMoves(target)
    BY <1>1, HostMoveShape
  <2>2. target \in Int /\ StartMove(target) /\ safe' = safe /\ ~moving /\ seq' = "none"
    BY <2>1 DEF HostMoves, HostMove, Busy, seqVars
  <2>3. QED
    BY <2>2, ZeroNone
<1>2. CASE Step
  BY <1>2, ZeroStep
<1>3. CASE SlipStep \/ FaultStop
  <2>1. truth' # "right" /\ UNCHANGED <<set, calStart, seq, haltRequested, moving, moveTarget>>
    BY <1>3 DEF SlipStep, FaultStop, moveVars, setVars, seqVars
  <2>2. moving
    <3>1. A!Step(Rot) \/ A!StopAtOnce(Rot)
      BY <1>3 DEF SlipStep, FaultStop
    <3>2. AxisBusy
      BY <3>1, Stepped, Halted DEF Types
    <3>3. QED
      BY <3>2 DEF Types, Phase
  <2>3. QED
    BY <2>1, <2>2 DEF ZeroSound
<1>4. CASE Halt
  BY <1>4, ZeroNone DEF Halt
<1>5. ASSUME NEW a \in SyncValues, Sync(a) PROVE ZeroSound'
  BY <1>5, ZeroNone DEF Sync, Busy, seqVars
<1>6. CASE ImuHome \/ BootHome
  <2>1. CASE BeginHome
    <3>1. seq' = "homeSettle" /\ haltRequested' = haltRequested /\ ~moving
      BY <2>1 DEF BeginHome, StartSequence, moveVars, Busy
    <3>2. QED
      BY <3>1, ZeroNone DEF Types, Phase, MoveTypes
  <2>2. CASE UNCHANGED <<axisVars, cellVars, safe, setVars, moveVars, flagVars, savePending, seqVars, imuVars, bearing, truth>>
    <3>1. P' = P /\ UNCHANGED <<set, bearing, capture, calStart, seq, haltRequested, moving, moveTarget, truth>>
      BY <2>2 DEF axisVars, moveVars, seqVars, setVars, P
    <3>2. QED
      BY <3>1, ZeroUnchanged
  <2>3. QED
    BY <1>6, <2>1, <2>2 DEF ImuHome, BootHome
<1>7. CASE ImuCalibrate
  <2>1. seq' = "calSettle0" /\ haltRequested' = haltRequested /\ ~moving
    BY <1>7 DEF ImuCalibrate, StartSequence, moveVars, Busy
  <2>2. QED
    BY <2>1, ZeroNone DEF Types, Phase, MoveTypes
<1>8. ASSUME NEW w \in WrapRanges, SetWrap(w) PROVE ZeroSound'
  BY <1>8, ZeroNone DEF SetWrap, Busy, seqVars
<1>9. ASSUME NEW n \in SpkValues, SetSpk(n) PROVE ZeroSound'
  BY <1>9, ZeroNone DEF SetSpk, Settle, Busy, seqVars
<1>10. CASE SetSpeed
  <2>1. CASE Busy
    <3>1. /\ UNCHANGED <<set, bearing, capture, calStart, seq, haltRequested, moving, moveTarget, truth>>
      BY <1>10 DEF SetSpeed, Settle, setVars, moveVars, seqVars
    <3>2. P' = P
      BY <1>10, <2>1 DEF SetSpeed, Settle, Types, AxisTypes, P
    <3>3. QED
      BY <3>1, <3>2, ZeroUnchanged
  <2>2. CASE ~Busy
    BY <1>10, <2>2, ZeroNone DEF SetSpeed, Settle, Busy, seqVars
  <2>3. QED
    BY <2>1, <2>2
<1>11. CASE ResetDefaults
  BY <1>11, ZeroNone DEF ResetDefaults, Settle, Busy, seqVars
<1>12. ASSUME NEW g \in GuardValues, NEW b \in BootHomeValues, SetFlags(g, b) PROVE ZeroSound'
  <2>1. /\ P' = P /\ UNCHANGED <<bearing, capture, calStart, seq, haltRequested, moving, moveTarget, truth>>
    BY <1>12 DEF SetFlags, axisVars, moveVars, seqVars, P
  <2>2. set'.spk = set.spk
    BY <1>12 DEF SetFlags, Types, SettingTypes, Settings
  <2>3. QED
    BY <2>1, <2>2, ZeroUnchanged
<1>13. CASE SaveSettings \/ SaveWhenIdle \/ DelayOver \/ SettleEnds \/ ImuChange \/ HandOver \/ Land \/ UNCHANGED vars
  <2>1. UNCHANGED <<pos, bearing, capture, calStart, seq, haltRequested, moving, moveTarget, truth>> /\ set' = set
    BY <1>13 DEF SaveSettings, SaveWhenIdle, DelayOver, SettleEnds, ImuChange, HandOver, Land, vars,
                 axisVars, moveVars, seqVars, setVars
  <2>2. QED
    BY <2>1, ZeroUnchanged DEF P
<1>14. CASE Reboot \/ PowerCut \/ WatchdogReset
  <2>1. seq' = "none"
    BY <1>14 DEF Reboot, PowerCut, WatchdogReset, BootFrom, Restart
  <2>2. QED
    BY <2>1, ZeroNone
<1>15. CASE NoteEnd
  BY <1>15, ZeroNoteEnd
<1>16. CASE SeqUpdate
  BY <1>16, ZeroSeqUpdate
<1>17. QED
  BY <1>1, <1>2, <1>3, <1>4, <1>5, <1>6, <1>7, <1>8, <1>9, <1>10, <1>11, <1>12, <1>13, <1>14, <1>15, <1>16
  DEF Next, Host, Environment, Update

-----------------------------------------------------------------------------
(***************************************************************************)
(* What the zero is worth: the arithmetic of a turn.                       *)
(***************************************************************************)
LEMMA TurnInFine ==
  /\ Turn \in Nat /\ Fine \in Nat \ {0} /\ Den \in Nat \ {0} /\ FineTurn \in Nat \ {0}
  /\ FineTurn * Den = Turn * Fine /\ Turn >= 2
<1>1. Turn \in Nat /\ Fine \in Nat \ {0} /\ Den \in Nat \ {0} /\ Turn >= 2 /\ FineTurn \in Nat \ {0}
  BY FineTurnPositive, RotatorAssumption, TurnAssumption, DenAssumption
<1> DEFINE x == Turn * Fine
<1>2. x \in Int /\ x % Den = 0
  BY <1>1, RotatorAssumption
<1> HIDE DEF x
<1>3. x = Den * (x \div Den) + (x % Den) /\ (x \div Den) \in Int
  BY <1>1, <1>2, DivMod
<1>4. FineTurn = x \div Den
  BY DEF FineTurn, x
<1>5. FineTurn * Den = x
  BY <1>1, <1>2, <1>3, <1>4
<1>6. QED
  BY <1>1, <1>5 DEF x

\* What two multiples of the same number say of their factors.
LEMMA CancelLess ==
  ASSUME NEW a \in Int, NEW b \in Int, NEW d \in Nat \ {0}, a * d <= b * d
  PROVE  a <= b
<1>1. SUFFICES ASSUME a >= b + 1 PROVE FALSE
  OBVIOUS
<1>2. (a - b - 1) * d >= 0 /\ (a - b - 1) * d = a * d - b * d - d /\ a * d \in Int /\ b * d \in Int
  BY <1>1
<1>3. QED
  BY <1>2

\* An angle of at most h units of Fine each is rounded to at most h.
LEMMA RoundedInside ==
  ASSUME NEW s \in Int, NEW h \in Nat, s * Den <= h * Fine, (-h) * Fine <= s * Den
  PROVE  DivRound(s * Den, Fine) \in Int /\ DivRound(s * Den, Fine) <= h /\ -h <= DivRound(s * Den, Fine)
<1> DEFINE x == s * Den
           y == h * Fine
           z == (-h) * Fine
<1>1. x \in Int /\ y \in Int /\ z \in Int /\ Fine \in Nat \ {0} /\ x <= y /\ z <= x
  BY TurnInFine
<1>2. -h \in Int
  OBVIOUS
<1>3. DivRound(y, Fine) = h /\ DivRound(z, Fine) = -h
  BY <1>1, <1>2, DivRoundWhole
<1> HIDE DEF x, y, z
<1>4. DivRound(x, Fine) \in Int /\ DivRound(x, Fine) <= DivRound(y, Fine) /\ DivRound(z, Fine) <= DivRound(x, Fine)
  BY <1>1, DivRoundMonotone
<1>5. QED
  BY <1>3, <1>4 DEF x

\* The roll is at most half a turn.
LEMMA RollBound ==
  ASSUME Types
  PROVE  Roll \in Int /\ 2 * Roll <= Turn /\ -Turn <= 2 * Roll
<1> DEFINE s == Signed(bearing)
<1>1. bearing \in Int /\ 0 <= bearing /\ bearing <= FineTurn - 1 /\ FineTurn \in Nat
  BY TurnInFine DEF Types, ImuTypes
<1>2. s \in Int /\ 2 * s <= FineTurn /\ -FineTurn <= 2 * s
  BY <1>1 DEF Signed
<1> HIDE DEF s
<1>3. PICK h \in Nat : Turn = 2 * h
  <2>1. (Turn \div 2) \in Int /\ Turn = 2 * (Turn \div 2) + (Turn % 2)
    BY TurnAssumption, DivMod
  <2>2. (Turn \div 2) \in Nat /\ Turn = 2 * (Turn \div 2)
    BY <2>1, TurnAssumption
  <2>3. QED
    BY <2>2
<1> DEFINE sd == s * Den
           fd == FineTurn * Den
           hf == h * Fine
           nf == (-h) * Fine
<1>4. sd \in Int /\ fd \in Int /\ hf \in Int /\ nf = -hf /\ fd = 2 * hf
  BY <1>2, <1>3, TurnInFine
<1>5. 2 * sd <= fd /\ -fd <= 2 * sd
  <2>1. (FineTurn - 2 * s) * Den >= 0 /\ (FineTurn - 2 * s) * Den = fd - 2 * sd
    BY <1>1, <1>2, TurnInFine
  <2>2. (FineTurn + 2 * s) * Den >= 0 /\ (FineTurn + 2 * s) * Den = fd + 2 * sd
    BY <1>1, <1>2, TurnInFine
  <2> HIDE DEF sd, fd
  <2>3. QED
    BY <1>4, <2>1, <2>2
<1>6. sd <= hf /\ nf <= sd
  <2> HIDE DEF sd, fd, hf, nf
  <2>1. QED
    BY <1>4, <1>5
<1>7. DivRound(sd, Fine) \in Int /\ DivRound(sd, Fine) <= h /\ -h <= DivRound(sd, Fine)
  BY <1>2, <1>6, RoundedInside
<1>8. Roll = DivRound(sd, Fine)
  BY DEF Roll, s
<1> HIDE DEF sd
<1>9. QED
  BY <1>3, <1>7, <1>8

\* Steps that an angle was rounded from are not far from those of the angle: the same, if steps are no finer
\* than angle units, and else by less than two of the rounded halves.
LEMMA StepsBack ==
  ASSUME NEW p \in Int, NEW spk \in Nat \ {0}, NEW c, c = StepsToCdeg(p, spk)
  PROVE  LET d == CdegToSteps(c, spk) - p
         IN /\ d \in Int /\ (spk <= Den => d = 0)
            /\ spk > Den => Den * d < spk /\ -spk < Den * d
<1> DEFINE s == CdegToSteps(c, spk)
<1>1. Den \in Nat \ {0} /\ c \in Int /\ s \in Int
  BY AnglesInt, DenAssumption
<1> DEFINE pd == p * Den
           cs == c * spk
           sd == Den * s
           dp == Den * p
<1>2. pd \in Int /\ cs \in Int /\ pd = dp /\ spk * c = cs /\ sd \in Int
  BY <1>1
<1>3. c = DivRound(pd, spk) /\ s = DivRound(cs, Den)
  BY DEF StepsToCdeg, CdegToSteps
<1> HIDE DEF pd, cs, s
<1>4. 2 * pd <= 2 * (spk * c) + spk /\ 2 * (spk * c) <= 2 * pd + spk
  BY <1>2, <1>3, DivRoundNear
<1>5. 2 * cs <= 2 * (Den * s) + Den /\ 2 * (Den * s) <= 2 * cs + Den
  BY <1>1, <1>2, <1>3, DivRoundNear
<1> HIDE DEF sd, dp
<1>6. 2 * (sd - dp) <= spk + Den /\ -(spk + Den) <= 2 * (sd - dp)
  <2>1. sd = Den * s
    BY DEF sd
  <2>2. 2 * cs <= 2 * sd + Den /\ 2 * sd <= 2 * cs + Den
    BY <1>5, <2>1
  <2>3. 2 * dp <= 2 * cs + spk /\ 2 * cs <= 2 * dp + spk
    BY <1>2, <1>4
  <2>4. QED
    BY <1>1, <1>2, <2>2, <2>3
<1>7. s - p \in Int /\ Den * (s - p) = sd - dp
  BY <1>1 DEF sd, dp
<1>8. CASE spk < Den
  <2>1. Den * (s - p) < Den /\ -Den < Den * (s - p)
    BY <1>1, <1>2, <1>6, <1>7, <1>8
  <2>2. s - p = 0
    <3>1. ASSUME s - p >= 1 PROVE FALSE
      <4>1. Den * (s - p - 1) >= 0 /\ Den * (s - p - 1) = Den * (s - p) - Den
        BY <1>1, <3>1
      <4>2. QED
        BY <1>1, <1>2, <1>7, <2>1, <4>1
    <3>2. ASSUME s - p <= -1 PROVE FALSE
      <4>1. Den * (p - s - 1) >= 0 /\ Den * (p - s - 1) = -(Den * (s - p)) - Den
        BY <1>1, <3>2
      <4>2. QED
        BY <1>1, <1>2, <1>7, <2>1, <4>1
    <3>3. QED
      BY <1>7, <3>1, <3>2
  <2>3. QED
    BY <1>1, <1>7, <1>8, <2>2 DEF s
<1>9. CASE spk = Den
  <2>1. DivRound(p * Den, Den) = p
    BY <1>1, DivRoundWhole
  <2>2. c = p
    BY <1>3, <1>9, <2>1 DEF pd
  <2>3. s = p
    BY <1>3, <1>9, <2>1, <2>2 DEF cs
  <2>4. QED
    BY <1>1, <1>7, <1>9, <2>3 DEF s
<1>10. CASE spk > Den
  <2>1. Den * (s - p) < spk /\ -spk < Den * (s - p)
    BY <1>1, <1>2, <1>6, <1>7, <1>10
  <2>2. QED
    BY <1>1, <1>7, <1>10, <2>1 DEF s
<1>11. QED
  BY <1>1, <1>8, <1>9, <1>10

-----------------------------------------------------------------------------
(***************************************************************************)
(* Who sets the zero, and where.                                           *)
(***************************************************************************)
ZeroSet ==
  /\ seq \in {"homeSettle", "calMoveBack"}
  /\ seq' = "none" /\ unverified' = FALSE /\ angle' = 0 /\ savePending' = "waiting"
  /\ <<angle, unverified, savePending>>' # <<angle, unverified, savePending>>

LEMMA WhoSetsZero ==
  ASSUME [Next]_vars, ZeroSet
  PROVE  SeqUpdate \/ NoteEnd
<1>1. seq # "none" /\ seq' # seq /\ Busy
  BY DEF ZeroSet, Busy
<1>2. ASSUME UNCHANGED <<angle, unverified, savePending>> PROVE FALSE
  BY <1>2 DEF ZeroSet
<1>3. ASSUME UNCHANGED seq PROVE FALSE
  BY <1>1, <1>3
<1>4. ASSUME unverified' = TRUE PROVE FALSE
  BY <1>4 DEF ZeroSet
<1>5. CASE (\E t \in MoveTargets : MoveTo(t)) \/ (\E d \in MoveDeltas : MoveBy(d)) \/ (\E a \in SyncValues : Sync(a))
           \/ ImuHome \/ ImuCalibrate \/ (\E w \in WrapRanges : SetWrap(w)) \/ (\E n \in SpkValues : SetSpk(n))
           \/ ResetDefaults \/ Reboot \/ SaveWhenIdle
  BY <1>1, <1>5 DEF MoveTo, MoveBy, Sync, ImuHome, BeginHome, ImuCalibrate, SetWrap, SetSpk, ResetDefaults, Reboot,
                    SaveWhenIdle
<1>6. CASE Halt
  BY <1>2, <1>6 DEF Halt, flagVars
<1>7. CASE SetSpeed \/ (\E g \in GuardValues, b \in BootHomeValues : SetFlags(g, b)) \/ SaveSettings
           \/ Step \/ FaultStop \/ SlipStep \/ DelayOver \/ ImuChange \/ HandOver \/ Land
  BY <1>3, <1>7 DEF SetSpeed, Settle, SetFlags, SaveSettings, Step, FaultStop, SlipStep, DelayOver, ImuChange,
                    HandOver, Land, seqVars
<1>8. CASE SettleEnds \/ UNCHANGED vars
  BY <1>3, <1>8 DEF SettleEnds, vars
<1>9. CASE BootHome
  <2>1. CASE BeginHome
    BY <1>1, <2>1 DEF BeginHome
  <2>2. CASE UNCHANGED seqVars
    BY <1>3, <2>2 DEF seqVars
  <2>3. QED
    BY <1>9, <2>1, <2>2 DEF BootHome
<1>10. CASE PowerCut \/ WatchdogReset
  BY <1>4, <1>10 DEF PowerCut, BootFrom, WatchdogReset, Restart
<1>11. QED
  BY <1>5, <1>6, <1>7, <1>8, <1>9, <1>10 DEF Next, Host, Environment, Update

LEMMA RollSame ==
  ASSUME bearing' = bearing
  PROVE  Roll' = Roll
<1>1. FineTurn' = FineTurn
  BY DEF FineTurn
<1>2. QED
  BY <1>1 DEF Roll, Signed

\* The home sets the zero where the roll is small: the nearest candidate within the tolerance is the one without
\* a turn added.
LEMMA HomeAtZero ==
  ASSUME Types, SeqUpdate, ZeroSet
  PROVE  Small(Roll')
<1>1. seq = "homeSettle" /\ HomeStep /\ ~Abort
  <2>1. ~Abort
    BY DEF ZeroSet, Abort, moveVars, flagVars
  <2>2. seq \notin CalSettles
    BY DEF ZeroSet, CalSettles
  <2>3. QED
    BY <2>1, <2>2 DEF SeqUpdate, GiveUp, ZeroSet
<1>2. ASSUME NEW t, SeqMove(t, "homeMove") PROVE FALSE
  BY <1>1, <1>2 DEF SeqMove, ZeroSet
<1>3. Roll' = Roll
  BY RollSame DEF SeqUpdate
<1> SUFFICES Small(Roll)
  BY <1>3 DEF Small
<1>4. CASE homeMoves # 0
  BY <1>1, <1>2, <1>4 DEF HomeStep
<1>5. CASE homeMoves = 0
  <2> DEFINE p == PlanHome(angle, Roll, Lo, Hi)
  <2>1. HomeCandidates(angle, Roll, Lo, Hi) # {} /\ Small(p - angle)
    BY <1>1, <1>2, <1>5 DEF HomeStep
  <2>2. /\ Lo \in Int /\ Hi \in Int /\ angle \in Int /\ Roll \in Int /\ Turn \in Nat /\ Tol \in Nat
        /\ 2 * Tol < Turn /\ 2 * Roll <= Turn /\ -Turn <= 2 * Roll
    BY SettingFacts, RollBound, TurnAssumption, RotatorAssumption, ToleranceAssumption DEF Types, MoveTypes
  <2>3. PICK k \in -3 .. 3 : p = angle - Roll + k * Turn
    BY <2>1, <2>2, PlanHomeCorrect
  <2> HIDE DEF p
  <2>4. k \in {-3, -2, -1, 0, 1, 2, 3}
    BY <2>3
  <2>5. -Tol <= p - angle /\ p - angle <= Tol
    BY <2>1 DEF Small
  <2>6. k = 0
    <3>1. p - angle = k * Turn - Roll
      BY <2>2, <2>3
    <3>2. ASSUME k \in {-3, -2, -1} PROVE FALSE
      BY <2>2, <2>5, <3>1, <3>2
    <3>3. ASSUME k \in {1, 2, 3} PROVE FALSE
      BY <2>2, <2>5, <3>1, <3>3
    <3>4. QED
      BY <2>4, <3>2, <3>3
  <2>7. QED
    BY <2>2, <2>3, <2>5, <2>6 DEF Small
<1>6. QED
  BY <1>4, <1>5

\* A calibration that sets the zero stands where it began.
LEMMA BackWhereItBegan ==
  ASSUME Types, ZeroSound, NoteEnd, ZeroSet
  PROVE  seq = "calMoveBack" /\ P = Steps(calStart)
<1>1. seq = "calMoveBack"
  BY SequenceFacts DEF NoteEnd, AfterMove, ZeroSet, Types, Phase
<1>2. ~haltRequested /\ (IF moving THEN moveTarget = calStart ELSE P = Steps(calStart))
  BY <1>1 DEF ZeroSound, Types, MoveTypes
<1>3. CASE ~moving
  BY <1>1, <1>2, <1>3
<1>4. CASE moving /\ Complete
  BY <1>1, <1>2, <1>4 DEF Complete, Steps
<1>5. CASE moving /\ ~Complete
  <2>1. EndMove /\ StoppedEarly
    BY <1>2, <1>5 DEF NoteEnd, AfterMove, StoppedEarly
  <2>2. unverified' # FALSE
    BY <2>1 DEF EndMove
  <2>3. QED
    BY <2>2 DEF ZeroSet
<1>6. QED
  BY <1>1, <1>3, <1>4, <1>5

-----------------------------------------------------------------------------
(***************************************************************************)
(* A calibration that is back where it began is at the first capture.      *)
(***************************************************************************)
\* A bearing that is e past whole turns, with e at most half a turn, is e.
LEMMA SignedOf ==
  ASSUME NEW e \in Int, NEW m \in Int, 2 * e <= FineTurn, -FineTurn <= 2 * e
  PROVE  Signed((e + m * FineTurn) % FineTurn) \in {e, -e}
<1> DEFINE F == FineTurn
           mf == m * F
           x == e + mf
           q == x \div F
           r == x % F
           j == m - q
           jf == j * F
           fq == F * q
<1>1. F \in Nat \ {0} /\ mf \in Int /\ x \in Int
  BY FineTurnPositive
<1>2. q \in Int /\ r \in Int /\ x = fq + r /\ 0 <= r /\ r < F
  <2> HIDE DEF x, F
  <2>1. QED
    BY <1>1, DivMod
<1> HIDE DEF q, r
<1>3. j \in Int /\ fq \in Int /\ jf \in Int /\ jf = mf - fq
  BY <1>1, <1>2
<1>4. r = e + jf
  <2> HIDE DEF mf, fq, jf, F, j
  <2>1. QED
    BY <1>1, <1>2, <1>3
<1> HIDE DEF mf, fq
<1>5. j \in {0, 1}
  <2>1. ASSUME j >= 2 PROVE FALSE
    <3>1. (j - 2) * F >= 0 /\ (j - 2) * F = jf - 2 * F
      BY <1>1, <1>3, <2>1
    <3> HIDE DEF jf, j
    <3>2. QED
      BY <1>1, <1>2, <1>3, <1>4, <3>1
  <2>2. ASSUME j <= -1 PROVE FALSE
    <3>1. (-1 - j) * F >= 0 /\ (-1 - j) * F = -F - jf
      BY <1>1, <1>3, <2>2
    <3> HIDE DEF jf, j
    <3>2. QED
      BY <1>1, <1>2, <1>3, <1>4, <3>1
  <2> HIDE DEF j
  <2>3. QED
    BY <1>3, <2>1, <2>2
<1>6. jf = 0 \/ jf = F
  <2> HIDE DEF j
  <2>1. QED
    BY <1>1, <1>5
<1> HIDE DEF jf
<1>7. (IF 2 * r > F THEN r - F ELSE r) \in {e, -e}
  BY <1>1, <1>2, <1>4, <1>6
<1>8. QED
  BY <1>7 DEF Signed, r, mf

\* The steps back to the angle a calibration began from turn the camera by less than one angle unit, and by none if
\* the home tolerates none.
LEMMA BackTurn ==
  ASSUME Types, NEW p, Origin(p), P = Steps(calStart)
  PROVE  \E e \in Int, h \in {0, 1} :
           /\ e = (P - p) * FinePerStep /\ h <= Tol
           /\ e * Den <= h * Fine /\ (-h) * Fine <= e * Den
<1> DEFINE n == set.spk
           d == P - p
           k == FinePerStep
<1>1. /\ n \in SpkValues /\ n \in Nat \ {0} /\ P \in Int /\ p \in Int /\ Fine \in Nat \ {0} /\ Den \in Nat \ {0}
      /\ Tol \in Nat
  BY SettingFacts, TurnInFine, RotatorAssumption DEF Types, AxisTypes, P, Origin
<1>2. k \in Int /\ n * k <= Fine /\ Fine < n * k + n
  <2>1. k = Fine \div n
    BY DEF FinePerStep
  <2> HIDE DEF n, k
  <2>2. (Fine \div n) \in Int /\ n * (Fine \div n) <= Fine /\ Fine < n * (Fine \div n) + n
    BY <1>1, Quotient
  <2>3. QED
    BY <2>1, <2>2
<1>3. k >= 0
  <2>1. ASSUME k <= -1 PROVE FALSE
    <3>1. n * (-1 - k) >= 0 /\ n * (-1 - k) = -n - n * k /\ n * k \in Int
      BY <1>1, <1>2, <2>1
    <3>2. QED
      BY <1>1, <1>2, <3>1
  <2>2. QED
    BY <1>2, <2>1
<1>4. d \in Int
  BY <1>1
<1>5. CASE d = 0
  <2>1. (P - p) * FinePerStep = 0 /\ 0 * Den = 0 /\ 0 * Fine = 0 /\ (-0) * Fine = 0
    BY <1>1, <1>2, <1>5
  <2>2. QED
    BY <1>1, <2>1
<1>6. CASE d # 0
  <2>1. calStart = StepsToCdeg(p, n) /\ P = CdegToSteps(calStart, n)
    BY <1>1, <1>6 DEF Origin, Steps
  <2>2. n > Den /\ Den * d < n /\ -n < Den * d
    BY <1>1, <1>6, <2>1, StepsBack
  <2>3. Tol >= 1
    BY <1>1, <2>2, ToleranceAssumption
  <2> DEFINE dd == Den * d
             e == d * k
             a == n * k
             b == e * Den
  <2>4. dd \in Int /\ e \in Int /\ a \in Int /\ b \in Int /\ b = dd * k
    BY <1>1, <1>2, <1>4
  <2>5. b <= a /\ -a <= b
    <3>1. (n - dd) * k >= 0 /\ (n - dd) * k = a - dd * k
      BY <1>1, <1>2, <1>3, <2>2, <2>4
    <3>2. (n + dd) * k >= 0 /\ (n + dd) * k = a + dd * k
      BY <1>1, <1>2, <1>3, <2>2, <2>4
    <3> HIDE DEF dd, a, b
    <3>3. dd * k \in Int
      BY <1>2, <2>4
    <3>4. QED
      BY <2>4, <3>1, <3>2, <3>3
  <2>6. b <= 1 * Fine /\ (-1) * Fine <= b
    <3> HIDE DEF b
    <3>1. a <= Fine
      BY <1>2
    <3> HIDE DEF a
    <3>2. QED
      BY <1>1, <2>4, <2>5, <3>1
  <2>7. e = (P - p) * FinePerStep
    OBVIOUS
  <2> HIDE DEF e
  <2>8. QED
    BY <2>3, <2>4, <2>6, <2>7
<1>7. QED
  BY <1>5, <1>6

LEMMA BackAtZero ==
  ASSUME Types, ZeroSound, Captured, truth = "right", P = Steps(calStart),
         bearing' = (bearing - capture) % FineTurn
  PROVE  Small(Roll')
<1>1. PICK p, m : Origin(p) /\ TurnedSince(p, m)
  BY DEF ZeroSound
<1>2. PICK e \in Int, h \in {0, 1} :
        /\ e = (P - p) * FinePerStep /\ h <= Tol
        /\ e * Den <= h * Fine /\ (-h) * Fine <= e * Den
  BY <1>1, BackTurn
<1>3. m \in Int /\ bearing - capture = e + m * FineTurn
  BY <1>1, <1>2 DEF TurnedSince
<1>4. 2 * e <= FineTurn /\ -FineTurn <= 2 * e
  <2> DEFINE b == e * Den
             tf == Turn * Fine
             fd == FineTurn * Den
             u == (2 * e) * Den
             v == (-2 * e) * Den
  <2>1. /\ Fine \in Nat \ {0} /\ Den \in Nat \ {0} /\ FineTurn \in Nat \ {0} /\ Turn \in Nat /\ fd = tf
        /\ tf >= 2 * Fine /\ b \in Int /\ tf \in Int /\ u \in Int /\ v \in Int /\ u = 2 * b /\ v = -u
    <3>1. /\ Fine \in Nat \ {0} /\ Den \in Nat \ {0} /\ FineTurn \in Nat \ {0} /\ Turn \in Nat /\ Turn >= 2
          /\ fd = tf
      BY TurnInFine
    <3>2. (Turn - 2) * Fine >= 0 /\ (Turn - 2) * Fine = tf - 2 * Fine
      BY <3>1
    <3>3. QED
      BY <3>1, <3>2
  <2>2. b <= Fine /\ -Fine <= b
    BY <1>2, <2>1
  <2>3. u <= fd /\ v <= fd
    <3> HIDE DEF b, tf, fd, u, v
    <3>1. QED
      BY <2>1, <2>2
  <2>4. 2 * e \in Int /\ -2 * e \in Int
    BY <1>2
  <2>5. 2 * e <= FineTurn
    BY <2>1, <2>3, <2>4, CancelLess
  <2>6. -2 * e <= FineTurn
    BY <2>1, <2>3, <2>4, CancelLess
  <2>7. QED
    BY <2>1, <2>4, <2>5, <2>6
<1>5. PICK r : r = bearing'
  OBVIOUS
<1>6. Signed(r) \in {e, -e}
  BY <1>3, <1>4, <1>5, SignedOf
<1>7. PICK s \in {e, -e} : Signed(r) = s
  BY <1>6
<1>8. s \in Int /\ s * Den <= h * Fine /\ (-h) * Fine <= s * Den /\ h \in Nat
  <2>1. CASE s = e
    BY <1>2, <2>1
  <2>2. CASE s = -e
    <3>1. s * Den = -(e * Den) /\ (-h) * Fine = -(h * Fine) /\ e * Den \in Int /\ h * Fine \in Int /\ h \in Nat
      BY <1>2, <2>2, TurnInFine
    <3>2. QED
      BY <1>2, <2>2, <3>1
  <2>3. QED
    BY <2>1, <2>2
<1>9. DivRound(s * Den, Fine) \in Int /\ DivRound(s * Den, Fine) <= h /\ -h <= DivRound(s * Den, Fine)
  BY <1>8, RoundedInside
<1>10. FineTurn' = FineTurn
  BY DEF FineTurn
<1>11. Roll' = DivRound(s * Den, Fine)
  BY <1>5, <1>7, <1>10 DEF Roll, Signed
<1>12. Tol \in Nat
  BY RotatorAssumption
<1>13. QED
  BY <1>2, <1>8, <1>9, <1>11, <1>12 DEF Small

\* Every new board starts without a sequence.
LEMMA ZeroInit == Init => ZeroSound
BY SequenceFacts DEF Init, ZeroSound, Captured, CalSteps

\* The inductive invariant with what the zero needs.
LEMMA ZeroAlways == Spec => [](RotInv /\ ZeroSound)
<1>1. Init => RotInv /\ ZeroSound
  BY RotInit, ZeroInit
<1>2. RotInv /\ ZeroSound /\ [Next]_vars => (RotInv /\ ZeroSound)'
  BY RotNext, ZeroKept DEF RotInv, Typed, Trust, Trusting, Wrapping
<1>3. QED
  BY <1>1, <1>2, PTL DEF Spec

\* When a home or a calibration sets the angle to 0, the camera stands at the IMU zero, within the tolerance, for
\* any turn, ranges, microsteps and tolerance the settings allow; for a calibration, unless steps were lost
\* (rotator.cpp:138, 173-193, 233-237).
THEOREM ZeroIsImuZeroAlways == Spec => ZeroIsImuZero
<1> DEFINE Zero == /\ seq \in {"homeSettle", "calMoveBack"}
                   /\ seq' = "none" /\ unverified' = FALSE /\ angle' = 0 /\ savePending' = "waiting"
                   /\ <<angle, unverified, savePending>>' # <<angle, unverified, savePending>>
                   /\ (seq = "calMoveBack" => bearing' = (bearing - capture) % FineTurn /\ truth = "right")
                   => Small(Roll')
<1>1. RotInv /\ ZeroSound /\ [Next]_vars => [Zero]_vars
  <2> SUFFICES ASSUME RotInv, ZeroSound, [Next]_vars, ZeroSet,
                      seq = "calMoveBack" => bearing' = (bearing - capture) % FineTurn /\ truth = "right"
               PROVE  Small(Roll')
    BY DEF ZeroSet
  <2>1. Types
    BY DEF RotInv
  <2>2. CASE SeqUpdate
    BY <2>1, <2>2, HomeAtZero
  <2>3. CASE NoteEnd
    <3>1. seq = "calMoveBack" /\ P = Steps(calStart)
      BY <2>1, <2>3, BackWhereItBegan
    <3>2. Captured
      BY <3>1, SequenceFacts DEF Captured
    <3>3. QED
      BY <2>1, <3>1, <3>2, BackAtZero
  <2>4. QED
    BY <2>2, <2>3, WhoSetsZero
<1>2. QED
  BY <1>1, ZeroAlways, PTL DEF Spec, ZeroIsImuZero
===============================================================================
