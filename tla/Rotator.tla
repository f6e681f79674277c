------------------------------- MODULE Rotator -------------------------------
(***************************************************************************)
(* The rotator of fw/src/rotator.cpp with the commands that change it      *)
(* (protocol_rotator.cpp), on top of the contract of its axis and of the   *)
(* durable record: moves under the cable-wrap rule, halts, stalls, the     *)
(* "suspect" angle, IMU home and IMU zero calibration, the delayed save,   *)
(* power cuts, reboots and safe mode.                                      *)
(*                                                                         *)
(* A refused command changes nothing and is left out; a dead driver may    *)
(* refuse any move.  The focuser shows up only as a reason for refusals.   *)
(* Steps move the camera by the angle the settings say (:85 is right).     *)
(***************************************************************************)
EXTENDS RotatorMath

CONSTANTS
  Rot,           \* axisRot
  Chip,          \* the EEPROM was found at boot
  MaxPasses,     \* HOME_MAX_PASSES (3)
  CalStep,       \* CAL_STEP_CDEG: a quarter turn
  Tol,           \* settings.rot.homeTolCdeg
  Jog,           \* SAFE_JOG_ROT_CDEG
  Fine,          \* the real camera angle is counted in Fine units per Den angle units
  Mishaps,       \* what may go wrong: subset of {"fault", "slip", "cut", "watchdog"}
  ImuStates,     \* subset of {"ok", "vertical", "dead"} the IMU goes through
  MoveTargets, MoveDeltas, SyncValues, WrapRanges, SpkValues, GuardValues, BootHomeValues,  \* what a host
                                                                                           \* may ask for
  Defaults       \* settingsDefaults(): [wrap, spk, guard, bootHome]

ASSUME RotatorAssumption ==
  /\ MaxPasses \in Nat \ {0} /\ CalStep \in Nat /\ Tol \in Nat /\ Jog \in Nat /\ Fine \in Nat \ {0}
  /\ Chip \in BOOLEAN /\ GuardValues \subseteq BOOLEAN /\ BootHomeValues \subseteq BOOLEAN
  /\ SpkValues \subseteq Nat \ {0}
  /\ MoveTargets \subseteq 0 .. Turn - 1 /\ MoveDeltas \subseteq Int /\ SyncValues \subseteq Int
  /\ \A w \in WrapRanges : w[1] \in -Turn .. 0 /\ w[2] \in 0 .. Turn
  /\ (Turn * Fine) % Den = 0
  /\ "ok" \in ImuStates => \A n \in SpkValues : Fine % n = 0
  /\ Defaults \in [wrap : WrapRanges, spk : SpkValues, guard : GuardValues, bootHome : BootHomeValues]

\* 5..500 of 36000 (settings.h:39); a tolerance of less than one angle unit would not cover the rounding of fine steps.
ASSUME ToleranceAssumption == 2 * Tol < Turn /\ (Tol = 0 => \A n \in SpkValues : n <= Den)

VARIABLES
  pos, tgt, lead, mode, stoppedFlag,   \* axisRot, see AxisContract
  wanted, stored, flight, dirty,       \* the saved record, see DurableCell
  safe,            \* statusSafeMode()
  set, savedSet,   \* settings: running and in the EEPROM
  angle,           \* angleIdle
  moving, moveTarget, haltRequested, lastMoveComplete,
  unverified, suspect,
  savePending,     \* "none", "waiting", or "due" once POSITION_SAVE_DELAY_MS since idleSinceMs are over
  seq,             \* Seq
  homeMoves, calStart, bootHomePending,
  imu,             \* "ok", "vertical" or "dead"
  imuCal,          \* imuCalibrated()
  settle,          \* since imuRestartFilter(): "waiting", "settled", or "late" after IMU_SETTLE_TIMEOUT_MS
  bearing,         \* real camera angle past the IMU zero, in fine units, modulo a turn
  capture,         \* bearing at imuCalCaptureG0()
  truth            \* history: the angle is the real one ("right"), is not ("wrong"), or was lost or
                   \* replaced since the last sync in one of the ways called lapses below ("lapsed")

axisVars == <<pos, tgt, lead, mode, stoppedFlag>>
cellVars == <<wanted, stored, flight, dirty>>
setVars  == <<set, savedSet>>
moveVars == <<angle, moving, moveTarget, haltRequested, lastMoveComplete>>
flagVars == <<unverified, suspect>>
seqVars  == <<seq, homeMoves, calStart, settle, capture>>
imuVars  == <<imu, imuCal>>
vars == <<pos, tgt, lead, mode, stoppedFlag, wanted, stored, flight, dirty, safe, set, savedSet, angle,
          moving, moveTarget, haltRequested, lastMoveComplete, unverified, suspect, savePending, seq,
          homeMoves, calStart, bootHomePending, imu, imuCal, settle, bearing, capture, truth>>

Records == [cdeg : Int, moving : BOOLEAN, saved : BOOLEAN, susp : BOOLEAN]
Blank   == [cdeg |-> 0, moving |-> FALSE, saved |-> FALSE, susp |-> FALSE]

A == INSTANCE AxisContract WITH Axes <- {Rot}, Targets <- Int, Leads <- {0}
C == INSTANCE DurableCell WITH Contents <- Records, Empty <- Blank

P        == pos[Rot]
Lo       == set.wrap[1]
Hi       == set.wrap[2]
Steps(a) == CdegToSteps(a, set.spk)

\* The sequences: while a move of theirs runs, and what follows when it has ended at its target.
NextSettle == [homeMove |-> "homeSettle", calMove90 |-> "calSettle90", calMove180 |-> "calSettle180"]
MoveSteps  == DOMAIN NextSettle \cup {"calMoveBack"}
CalSettles == {"calSettle0", "calSettle90", "calSettle180"}
Settles    == {"homeSettle"} \cup CalSettles

AxisBusy == mode[Rot] # "idle"
Busy     == moving \/ AxisBusy \/ seq # "none"

(***************************************************************************)
(* The record.                                                             *)
(***************************************************************************)
\* Without a chip nothing is ever loaded again: the record is left as it is.
Queue(rec) == IF Chip /\ ~safe THEN C!Put(rec) ELSE UNCHANGED cellVars

\* Mutant of MarkMoving: no mark.
MarkNothing == UNCHANGED cellVars

\* nvMarkMoving(AXIS_ROT)
MarkMoving == IF wanted.moving THEN UNCHANGED cellVars ELSE Queue([wanted EXCEPT !.moving = TRUE])

\* nvSavePosition(AXIS_ROT)
SavePosition(a, susp) ==
  LET rec == [cdeg |-> a, moving |-> FALSE, saved |-> TRUE, susp |-> susp]
  IN IF rec = wanted THEN UNCHANGED cellVars ELSE Queue(rec)

\* SavedPositions.rotValid
Trusted(rec) == rec.saved /\ ~rec.moving /\ ~rec.susp

(***************************************************************************)
(* Moves.                                                                  *)
(***************************************************************************)

\* moveGuard() for the rotator
GuardAllows(absolute, delta) ==
  suspect => IF safe THEN ~absolute /\ -Jog <= delta /\ delta <= Jog ELSE ~set.guard

\* startMove(): to another microstep.
Go(target) ==
  /\ Steps(target) # P
  /\ MarkMoving
  /\ A!Start(Rot, Steps(target), 0)
  /\ moving' = TRUE /\ moveTarget' = target /\ haltRequested' = FALSE
  /\ savePending' = "none"
  /\ UNCHANGED <<angle, lastMoveComplete>>

\* startMove(): within the same microstep, done at once.
Nudge(target) ==
  /\ Steps(target) = P
  /\ angle' = target
  /\ savePending' = IF target # angle THEN "waiting" ELSE savePending
  /\ lastMoveComplete' = TRUE
  /\ UNCHANGED <<axisVars, cellVars, moving, moveTarget, haltRequested>>

StartMove(target) == Go(target) \/ Nudge(target)

HostMove(target) ==
  /\ StartMove(target)
  /\ UNCHANGED <<safe, setVars, flagVars, seqVars, imuVars, bootHomePending, bearing, truth>>

\* rotatorMoveTo()
MoveTo(t) ==
  /\ ~Busy
  /\ GuardAllows(TRUE, 0)
  /\ MoveCandidates(t, Lo, Hi) # {}
  /\ HostMove(PlanTarget(angle, t, Lo, Hi))

\* rotatorMoveBy()
MoveBy(d) ==
  /\ ~Busy
  /\ GuardAllows(FALSE, d)
  /\ Lo <= angle + d /\ angle + d <= Hi
  /\ HostMove(angle + d)

\* Mutant of Halt: an idle rotator remembers it.
HaltIdle ==
  /\ seq' = "none"
  /\ haltRequested' = TRUE
  /\ A!RequestHalt(Rot) \/ (mode[Rot] # "moving" /\ UNCHANGED axisVars)
  /\ UNCHANGED <<cellVars, safe, setVars, angle, moving, moveTarget, lastMoveComplete, flagVars, savePending,
                 homeMoves, calStart, settle, capture, bootHomePending, imuVars, bearing, truth>>

\* rotatorHalt()
Halt ==
  /\ seq' = "none"
  /\ haltRequested' = (haltRequested \/ moving)
  /\ A!RequestHalt(Rot) \/ (mode[Rot] # "moving" /\ UNCHANGED axisVars)
  /\ UNCHANGED <<cellVars, safe, setVars, angle, moving, moveTarget, lastMoveComplete, flagVars, savePending,
                 homeMoves, calStart, settle, capture, bootHomePending, imuVars, bearing, truth>>

FineTurn == (Turn * Fine) \div Den

Step ==
  /\ A!Step(Rot)
  /\ bearing' = (bearing + (P' - P) * (Fine \div set.spk)) % FineTurn
  /\ UNCHANGED <<cellVars, safe, setVars, moveVars, flagVars, savePending, seqVars, bootHomePending, imuVars, truth>>

\* The motor misses a step and nobody notices (StallGuard off).
SlipStep ==
  /\ A!Step(Rot)
  /\ truth' = IF truth = "lapsed" THEN "lapsed" ELSE "wrong"
  /\ UNCHANGED <<cellVars, safe, setVars, moveVars, flagVars, savePending, seqVars, bootHomePending, imuVars, bearing>>

\* faultStop() of tmc2209.cpp, also when the last step was made while the driver was being read; the
\* angle is no longer sure to be the real one.
FaultStop ==
  /\ A!StopAtOnce(Rot) \/ (A!Step(Rot) /\ mode'[Rot] = "idle")
  /\ truth' = IF truth = "lapsed" THEN "lapsed" ELSE "wrong"
  /\ UNCHANGED <<cellVars, safe, setVars, moveVars, flagVars, savePending, seqVars, bootHomePending, imuVars, bearing>>

(***************************************************************************)
(* rotatorUpdate(): checkMoveEnd() and what seqUpdate() does in the same   *)
(* pass.                                                                   *)
(***************************************************************************)
\* lastMoveComplete after checkMoveEnd()
Complete == IF moving THEN P = Steps(moveTarget) ELSE lastMoveComplete

\* stopped early without a halt
StoppedEarly == moving /\ ~Complete /\ ~haltRequested

EndAngle ==
  IF ~moving THEN angle ELSE IF Complete THEN moveTarget ELSE StepsToCdeg(P, set.spk)

\* A lapse: a stop nobody asked for that checkMoveEnd() does not see as one, because of a halt or
\* because the motor had just made its last step.
EndTruth == IF moving /\ truth = "wrong" /\ ~StoppedEarly /\ ~suspect THEN "lapsed" ELSE truth

\* setZeroHere()
SetZeroHere ==
  /\ angle' = 0
  /\ A!Place(Rot, 0)
  /\ unverified' = FALSE /\ suspect' = FALSE
  /\ savePending' = "waiting"
  /\ truth' = "right"

\* The move ended and no zero is set.
EndMove ==
  /\ angle' = EndAngle
  /\ unverified' = (unverified \/ StoppedEarly) /\ suspect' = (suspect \/ StoppedEarly)
  /\ savePending' = IF moving THEN "waiting" ELSE savePending
  /\ truth' = EndTruth
  /\ UNCHANGED axisVars

\* imuCalFinish(): the bearing captured first is the new IMU zero, unless the captures do not fit; the
\* EEPROM may fail.
FinishCalibration ==
  /\ SetZeroHere
  /\ imuCal' = TRUE
  /\ bearing' = (bearing - capture) % FineTurn

\* What follows the end of a move.
AfterMove ==
  \/ /\ Complete /\ seq = "calMoveBack"
     /\ seq' = "none"
     /\ FinishCalibration \/ (EndMove /\ UNCHANGED <<imuCal, bearing>>)
     /\ UNCHANGED settle
  \/ /\ Complete /\ seq \in DOMAIN NextSettle
     /\ EndMove
     /\ seq' = NextSettle[seq] /\ settle' = "waiting"
     /\ UNCHANGED <<imuCal, bearing>>
  \/ /\ ~Complete \/ seq = "none"           \* abortSeq()
     /\ EndMove
     /\ seq' = "none"
     /\ UNCHANGED <<imuCal, bearing, settle>>

NoteEnd ==
  /\ ~AxisBusy
  /\ moving \/ seq \in MoveSteps
  /\ moving' = FALSE /\ haltRequested' = FALSE
  /\ lastMoveComplete' = Complete
  /\ AfterMove
  /\ UNCHANGED <<cellVars, safe, setVars, moveTarget, homeMoves, calStart, capture, bootHomePending, imu>>

(***************************************************************************)
(* rotatorUpdate(): the sequences while no move runs.                      *)
(***************************************************************************)
Signed(b) == IF 2 * b > FineTurn THEN b - FineTurn ELSE b

\* imuRollCdeg() of a usable IMU
Roll == DivRound(Signed(bearing) * Den, Fine)

\* settled() is true.
Settled == seq \in Settles /\ imu # "dead" /\ settle = "settled"

\* abortSeq() while no move runs
Abort ==
  /\ seq' = "none"
  /\ UNCHANGED <<axisVars, cellVars, moveVars, flagVars, savePending, calStart, settle, truth>>

\* Mutant of GiveUp: no time limit.
GiveUpDead ==
  /\ seq \in Settles
  /\ imu = "dead"
  /\ Abort

\* settled(): no answer, or not settled in time.
GiveUp ==
  /\ seq \in Settles
  /\ imu = "dead" \/ settle = "late"
  /\ Abort

\* startMove() in a sequence: a dead driver aborts it.
SeqMove(target, next) ==
  \/ /\ StartMove(target)
     /\ seq' = next
     /\ UNCHANGED <<flagVars, calStart, settle, truth>>
  \/ Steps(target) # P /\ Abort

HomeZero ==
  /\ seq' = "none"
  /\ SetZeroHere
  /\ UNCHANGED <<cellVars, moving, moveTarget, haltRequested, lastMoveComplete, calStart, settle>>

Small(a) == -Tol <= a /\ a <= Tol

\* Mutant of HomeStep: the first pass takes the angle for the roll.
HomeStepBlind ==
  IF imu = "vertical" THEN Abort
  ELSE IF homeMoves = 0 THEN
    IF HomeCandidates(angle, Roll, Lo, Hi) = {} THEN Abort
    ELSE LET target == PlanHome(angle, Roll, Lo, Hi)
         IN IF Small(target) THEN HomeZero ELSE SeqMove(target, "homeMove")
  ELSE LET target == PlanCorrection(angle, Roll, Lo, Hi)
       IN IF Small(Roll) THEN HomeZero
          ELSE IF homeMoves >= MaxPasses \/ target = angle THEN Abort
          ELSE SeqMove(target, "homeMove")

\* homeStep()
HomeStep ==
  IF imu = "vertical" THEN Abort
  ELSE IF homeMoves = 0 THEN
    IF HomeCandidates(angle, Roll, Lo, Hi) = {} THEN Abort
    ELSE LET target == PlanHome(angle, Roll, Lo, Hi)
         IN IF Small(target - angle) THEN HomeZero ELSE SeqMove(target, "homeMove")
  ELSE LET target == PlanCorrection(angle, Roll, Lo, Hi)
       IN IF Small(Roll) THEN HomeZero
          ELSE IF homeMoves >= MaxPasses \/ target = angle THEN Abort
          ELSE SeqMove(target, "homeMove")

\* Where the calibration goes after each capture.
CalTarget == calStart + CASE seq = "calSettle0" -> CalStep [] seq = "calSettle90" -> 2 * CalStep [] OTHER -> 0
CalNext == CASE seq = "calSettle0" -> "calMove90" [] seq = "calSettle90" -> "calMove180" [] OTHER -> "calMoveBack"

SeqUpdate ==
  /\ ~moving
  /\ \/ GiveUp
     \/ Settled /\ seq = "homeSettle" /\ HomeStep
     \/ Settled /\ seq \in CalSettles /\ SeqMove(CalTarget, CalNext)
  /\ homeMoves' = IF seq' = "homeMove" THEN homeMoves + 1 ELSE homeMoves
  /\ capture' = IF Settled /\ seq = "calSettle0" THEN bearing ELSE capture
  /\ UNCHANGED <<safe, setVars, bootHomePending, imuVars, bearing>>

SaveWhenIdle ==
  /\ savePending = "due" /\ ~Busy
  /\ savePending' = "none"
  /\ SavePosition(angle, suspect)
  /\ UNCHANGED <<axisVars, safe, setVars, moveVars, flagVars, seqVars, bootHomePending, imuVars, bearing, truth>>

(***************************************************************************)
(* Commands that start a sequence, syncs and settings.                     *)
(***************************************************************************)
StartSequence(first) ==
  /\ seq' = first
  /\ settle' = "waiting"
  /\ UNCHANGED <<axisVars, cellVars, safe, setVars, moveVars, flagVars, savePending, capture, imuVars, bearing, truth>>

\* rotatorImuHome()
BeginHome ==
  /\ ~Busy /\ ~safe /\ imu = "ok" /\ imuCal
  /\ homeMoves' = 0
  /\ StartSequence("homeSettle")
  /\ UNCHANGED calStart

ImuHome == BeginHome /\ UNCHANGED bootHomePending

\* Boot home, once; skipped when rotatorImuHome() refuses.
BootHome ==
  /\ bootHomePending
  /\ bootHomePending' = FALSE
  /\ \/ BeginHome
     \/ UNCHANGED <<axisVars, cellVars, safe, setVars, moveVars, flagVars, savePending, seqVars, imuVars, bearing, truth>>

\* rotatorImuCalibrate()
ImuCalibrate ==
  /\ ~Busy /\ ~safe /\ imu # "dead" /\ ~(imuCal /\ imu = "vertical")
  /\ GuardAllows(TRUE, 0)
  /\ angle + 2 * CalStep <= Hi
  /\ calStart' = angle
  /\ StartSequence("calSettle0")
  /\ UNCHANGED <<homeMoves, bootHomePending>>

\* rotatorSync()
Sync(a) ==
  /\ Lo <= a /\ a <= Hi
  /\ ~Busy
  /\ angle' = a
  /\ A!Place(Rot, Steps(a))
  /\ unverified' = FALSE /\ suspect' = FALSE
  /\ savePending' = "waiting"
  /\ truth' = "right"
  /\ UNCHANGED <<cellVars, safe, setVars, moving, moveTarget, haltRequested, lastMoveComplete, seqVars,
                 bootHomePending, imuVars, bearing>>

\* rotatorApplySettings() while idle: the step position follows the angle.
Settle(n) ==
  /\ pos' = [pos EXCEPT ![Rot] = IF Busy THEN @ ELSE CdegToSteps(angle, n)]
  /\ UNCHANGED <<tgt, lead, mode, stoppedFlag, cellVars, safe, moveVars, flagVars, savePending, seqVars,
                 bootHomePending, imuVars, bearing, truth>>

\* :75
SetWrap(w) ==
  /\ ~Busy
  /\ w[1] <= angle /\ angle <= w[2]
  /\ set' = [set EXCEPT !.wrap = w]
  /\ UNCHANGED <<axisVars, cellVars, safe, savedSet, moveVars, flagVars, savePending, seqVars, bootHomePending,
                 imuVars, bearing, truth>>

\* :85, and :48 of the rotator
SetSpk(n) ==
  /\ ~Busy
  /\ set' = [set EXCEPT !.spk = n]
  /\ Settle(n)
  /\ UNCHANGED savedSet

\* :79, :81 and :83
SetSpeed == Settle(set.spk) /\ UNCHANGED setVars

\* :87 and :98
SetFlags(guard, bootHome) ==
  /\ set' = [set EXCEPT !.guard = guard, !.bootHome = bootHome]
  /\ UNCHANGED <<axisVars, cellVars, safe, savedSet, moveVars, flagVars, savePending, seqVars, bootHomePending,
                 imuVars, bearing, truth>>

\* :24
ResetDefaults ==
  /\ ~Busy
  /\ set' = Defaults
  /\ Settle(Defaults.spk)
  /\ UNCHANGED savedSet

\* :23
SaveSettings ==
  /\ Chip /\ ~safe
  /\ savedSet' = set
  /\ stored' = IF flight = <<>> THEN stored ELSE flight[1]
  /\ flight' = <<>>
  /\ UNCHANGED <<axisVars, wanted, dirty, safe, set, moveVars, flagVars, savePending, seqVars, bootHomePending,
                 imuVars, bearing, truth>>

(***************************************************************************)
(* Time, the IMU, the chip, power cuts and boots.                          *)
(***************************************************************************)
DelayOver ==
  /\ savePending = "waiting"
  /\ savePending' = "due"
  /\ UNCHANGED <<axisVars, cellVars, safe, setVars, moveVars, flagVars, seqVars, bootHomePending, imuVars, bearing, truth>>

\* Enough fresh samples, or IMU_SETTLE_TIMEOUT_MS without them.
SettleEnds ==
  /\ seq \in Settles /\ settle = "waiting"
  /\ settle' \in {"late"} \cup (IF imu = "dead" THEN {} ELSE {"settled"})
  /\ UNCHANGED <<axisVars, cellVars, safe, setVars, moveVars, flagVars, savePending, seq, homeMoves, calStart, capture,
                 bootHomePending, imuVars, bearing, truth>>

\* The IMU stops or resumes answering, or the telescope turns towards or away from the vertical.  The
\* sequence sees each change before the next one: rotatorUpdate() and imuUpdate() run in every pass.
ImuChange ==
  /\ ~(seq \in Settles /\ (imu = "dead" \/ settle # "waiting"))
  /\ imu' \in ImuStates \ {imu}
  /\ UNCHANGED <<axisVars, cellVars, safe, setVars, moveVars, flagVars, savePending, seqVars, bootHomePending,
                 imuCal, bearing, truth>>

HandOver ==
  /\ Chip /\ ~safe /\ C!HandOver
  /\ UNCHANGED <<axisVars, safe, setVars, moveVars, flagVars, savePending, seqVars, bootHomePending, imuVars, bearing, truth>>

Land ==
  /\ C!Land
  /\ UNCHANGED <<axisVars, safe, setVars, moveVars, flagVars, savePending, seqVars, bootHomePending, imuVars, bearing, truth>>

\* Everything a boot starts anew, with angle a and spk n.
Restart(a, n) ==
  /\ angle' = a
  /\ pos' = [pos EXCEPT ![Rot] = CdegToSteps(a, n)]
  /\ tgt' = [tgt EXCEPT ![Rot] = 0] /\ mode' = [mode EXCEPT ![Rot] = "idle"]
  /\ stoppedFlag' = [stoppedFlag EXCEPT ![Rot] = FALSE] /\ UNCHANGED lead
  /\ moving' = FALSE /\ moveTarget' = 0 /\ haltRequested' = FALSE /\ lastMoveComplete' = TRUE
  /\ unverified' = TRUE
  /\ savePending' = "none"
  /\ seq' = "none" /\ homeMoves' = 0 /\ calStart' = 0 /\ settle' = "waiting" /\ capture' = 0
  /\ flight' = <<>> /\ dirty' = FALSE
  /\ UNCHANGED <<savedSet, imu, bearing>>

\* A lapse: the boot trusts a record that is not the last one the firmware held, or is older than the angle.
BootLoses(rec) == Trusted(rec) /\ (safe \/ rec # wanted \/ savePending # "none")

\* rotatorBegin(); the record of the IMU calibration may be missing.
BootFrom(rec) ==
  /\ wanted' = rec /\ stored' = rec
  /\ suspect' = ~Trusted(rec)
  /\ safe' = FALSE
  /\ set' = savedSet
  /\ bootHomePending' = savedSet.bootHome
  /\ imuCal' \in {FALSE, imuCal /\ Chip}
  /\ truth' = IF truth = "lapsed" \/ BootLoses(rec) THEN "lapsed"
               ELSE IF truth = "right" /\ ~moving /\ rec.cdeg = angle THEN "right" ELSE "wrong"
  /\ Restart(rec.cdeg, savedSet.spk)

PowerCut == \E rec \in {stored} \cup {flight[i] : i \in DOMAIN flight} : BootFrom(rec)

\* :22 (and :31), refused while busy; the reply takes longer than the write cycle.
Reboot ==
  /\ ~Busy
  /\ BootFrom(IF flight = <<>> THEN stored ELSE flight[1])

\* A watchdog reset boots into safe mode, which never looks at the EEPROM.
WatchdogReset ==
  /\ stored' = IF flight = <<>> THEN stored ELSE flight[1]
  /\ wanted' = Blank
  /\ suspect' = TRUE
  /\ safe' = TRUE
  /\ set' = Defaults
  /\ bootHomePending' = Defaults.bootHome
  /\ truth' = IF truth = "lapsed" THEN "lapsed" ELSE "wrong"
  /\ UNCHANGED imuCal
  /\ Restart(0, Defaults.spk)

\* A new board: nothing saved, the IMU zero not calibrated.
Init ==
  /\ pos = [a \in {Rot} |-> 0] /\ tgt = [a \in {Rot} |-> 0] /\ lead = [a \in {Rot} |-> 0]
  /\ mode = [a \in {Rot} |-> "idle"] /\ stoppedFlag = [a \in {Rot} |-> FALSE]
  /\ C!CellInit
  /\ safe = FALSE /\ set = Defaults /\ savedSet = Defaults
  /\ angle = 0 /\ moving = FALSE /\ moveTarget = 0 /\ haltRequested = FALSE /\ lastMoveComplete = TRUE
  /\ unverified = TRUE /\ suspect = TRUE /\ savePending = "none"
  /\ seq = "none" /\ homeMoves = 0 /\ calStart = 0 /\ settle = "waiting" /\ capture = 0
  /\ bootHomePending = Defaults.bootHome
  /\ imu \in ImuStates /\ imuCal = FALSE /\ bearing = 0 /\ truth = "wrong"

Host ==
  \/ \E t \in MoveTargets : MoveTo(t)
  \/ \E d \in MoveDeltas : MoveBy(d)
  \/ Halt
  \/ \E a \in SyncValues : Sync(a)
  \/ ImuHome \/ ImuCalibrate
  \/ \E w \in WrapRanges : SetWrap(w)
  \/ \E n \in SpkValues : SetSpk(n)
  \/ SetSpeed
  \/ \E guard \in GuardValues, bootHome \in BootHomeValues : SetFlags(guard, bootHome)
  \/ ResetDefaults \/ SaveSettings \/ Reboot

Update == NoteEnd \/ SeqUpdate \/ SaveWhenIdle

Environment ==
  \/ DelayOver \/ SettleEnds \/ ImuChange \/ HandOver \/ Land \/ BootHome
  \/ "fault" \in Mishaps /\ FaultStop
  \/ "slip" \in Mishaps /\ SlipStep
  \/ "cut" \in Mishaps /\ PowerCut
  \/ "watchdog" \in Mishaps /\ WatchdogReset

Next == Host \/ Step \/ Update \/ Environment

\* The step timer and the main loop keep running, time passes.
Spec == Init /\ [][Next]_vars /\ WF_vars(Step) /\ WF_vars(Update) /\ WF_vars(DelayOver) /\ WF_vars(SettleEnds)
-----------------------------------------------------------------------------
(***************************************************************************)
(* Properties.                                                             *)
(***************************************************************************)
\* Types of all variables, and what the phases of a sequence say about the move in progress.
TypeOK ==
  /\ P \in Int /\ tgt[Rot] \in Int /\ mode[Rot] \in {"idle", "moving", "halting"}
  /\ wanted \in Records /\ stored \in Records /\ (flight = <<>> \/ flight[1] \in Records)
  /\ {stoppedFlag[Rot], dirty, safe, moving, haltRequested, lastMoveComplete, unverified, suspect,
      bootHomePending, imuCal} \subseteq BOOLEAN
  /\ {angle, moveTarget, calStart} \subseteq Int
  /\ seq \in {"none"} \cup Settles \cup MoveSteps
  /\ savePending \in {"none", "waiting", "due"} /\ settle \in {"waiting", "settled", "late"}
  /\ imu \in ImuStates /\ {bearing, capture} \subseteq 0 .. FineTurn - 1
  /\ AxisBusy \/ haltRequested => moving
  /\ seq \in Settles => ~moving

\* While the angle is not marked suspect it is the real one, through moves, halts, stalls, saves, power
\* cuts and reboots (rotator.cpp:12-15), save for the lapses named in this module.
TrustedRight == ~suspect /\ ~moving => truth # "wrong"

\* No step takes the rotator out of the cable-wrap range or further out (docs/PROTOCOL.md "A move never
\* leaves min..max"), except that a calibration goes back to where it began.
StaysInWrap ==
  [][Step \/ SlipStep =>
       /\ (P' <= Steps(Hi) \/ P' < P)
       /\ (P' >= Steps(Lo) \/ P' > P \/ tgt[Rot] = Steps(calStart))]_vars

\* When a home or a calibration sets the angle to 0, the camera stands at the IMU zero, within the
\* tolerance (rotator.cpp:138, 173-193, 233-237); for a calibration, unless steps were lost on the way.
ZeroIsImuZero ==
  [][/\ seq \in {"homeSettle", "calMoveBack"}
     /\ seq' = "none" /\ unverified' = FALSE /\ angle' = 0 /\ savePending' = "waiting"
     /\ <<angle, unverified, savePending>>' # <<angle, unverified, savePending>>
     /\ (seq = "calMoveBack" => bearing' = (bearing - capture) % FineTurn /\ truth = "right")
     => Small(Roll')]_vars

\* Every home and every calibration ends.
SequenceEnds == seq # "none" ~> seq = "none"

\* rotator.cpp:12-15 "the saved angle is known to be untrustworthy - ... a move ended early without a
\* halt (stall, fault)": a move that has ended so makes the angle suspect.
StallShows == moving /\ ~AxisBusy /\ ~haltRequested /\ P # Steps(moveTarget) ~> suspect
=============================================================================
