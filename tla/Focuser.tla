------------------------------- MODULE Focuser -------------------------------
(***************************************************************************)
(* The focuser of fw/src/focuser.cpp with the commands that change it      *)
(* (protocol_focuser.cpp, protocol_common.cpp), on top of the step-level   *)
(* contract of its axis and of the durable record of the position store:   *)
(* soft limits, backlash take-up, the "unverified" flag, the delayed save, *)
(* microstep rescaling, power cuts, reboots and safe mode.                 *)
(*                                                                         *)
(* The rotator appears as a second writer of the record.  A refused        *)
(* command changes nothing here; a busy rotator or a dead driver may       *)
(* refuse any move.  Steps move the motor until a fault stop.              *)
(***************************************************************************)
EXTENDS Integers

CONSTANTS
  Foc,             \* axisFoc
  Limit,           \* largest value :55 and a rescale may give maxPos (10000000)
  Jog,             \* SAFE_JOG_FOC_STEPS
  Mishaps,         \* what may go wrong in a run: subset of {"fault", "cut", "watchdog"}
  MoveTargets, MaxPosValues, BacklashValues, UstepValues, SyncValues,   \* what a host may set
  Defaults         \* settingsDefaults(): [maxPos, backlash, usteps]

ASSUME LimitAssumption == Limit \in Nat \ {0} /\ Jog \in Nat
ASSUME SettingsAssumption ==
  /\ MaxPosValues \subseteq 1 .. Limit /\ BacklashValues \subseteq Nat
  /\ UstepValues \subseteq Nat \ {0} /\ SyncValues \subseteq Nat /\ MoveTargets \subseteq Nat
  /\ Defaults \in [maxPos : MaxPosValues, backlash : BacklashValues, usteps : UstepValues]

VARIABLES
  pos, tgt, lead, mode, stoppedFlag,   \* axisFoc, see AxisContract
  wanted, stored, flight, dirty,       \* the saved record, see DurableCell
  safe,         \* statusSafeMode(): the EEPROM was not looked at
  set,          \* settings: running values
  savedSet,     \* settings record in the EEPROM
  unverified, lastDir, moveDir,
  savePending,  \* "none", "waiting", or "due" once POSITION_SAVE_DELAY_MS since idleSince are over
  truth,        \* history: the counted position is the real one ("right"), is not ("wrong"), or was lost or
                \* replaced since the last sync in one of the ways called lapses below ("lapsed")
  trueDir,      \* history: direction of the last move whose take-up ran in full
  missed        \* history: since then the end of a move was overtaken by the next move

axisVars  == <<pos, tgt, lead, mode, stoppedFlag>>
cellVars  == <<wanted, stored, flight, dirty>>
setVars   == <<set, savedSet>>
focVars   == <<unverified, lastDir, moveDir, savePending>>
ghostVars == <<truth, trueDir, missed>>
vars == <<pos, tgt, lead, mode, stoppedFlag, wanted, stored, flight, dirty, safe, set, savedSet,
          unverified, lastDir, moveDir, savePending, truth, trueDir, missed>>

Records  == [pos : Int, usteps : UstepValues \cup {0}, moving : BOOLEAN, saved : BOOLEAN, unver : BOOLEAN]
Blank    == [pos |-> 0, usteps |-> 0, moving |-> FALSE, saved |-> FALSE, unver |-> FALSE]
Settings == [maxPos : 1 .. Limit, backlash : Nat, usteps : UstepValues]

A == INSTANCE AxisContract WITH Axes <- {Foc}, Targets <- 0 .. Limit, Leads <- Nat
C == INSTANCE DurableCell WITH Contents <- Records, Empty <- Blank

P    == pos[Foc]
Busy == mode[Foc] # "idle"

(***************************************************************************)
(* The record.                                                             *)
(***************************************************************************)
\* queuePosition(): without the chip the record stays in RAM.
Queue(rec) ==
  \/ ~safe /\ C!Put(rec)
  \/ safe /\ wanted' = rec /\ dirty' = TRUE /\ UNCHANGED <<stored, flight>>

\* Mutant of MarkMoving: no mark.
MarkNothing == UNCHANGED cellVars

\* nvMarkMoving(AXIS_FOC)
MarkMoving ==
  IF wanted.moving THEN UNCHANGED cellVars
  ELSE Queue([wanted EXCEPT !.moving = TRUE, !.usteps = set.usteps])

\* nvSavePosition(AXIS_FOC)
SavePosition(p, unver) ==
  LET rec == [pos |-> p, usteps |-> set.usteps, moving |-> FALSE, saved |-> TRUE, unver |-> unver]
  IN IF rec = wanted THEN UNCHANGED cellVars ELSE Queue(rec)

\* SavedPositions.focValid
Trusted(rec) == rec.saved /\ ~rec.moving /\ ~rec.unver

(***************************************************************************)
(* Moves.                                                                  *)
(***************************************************************************)

\* moveGuard() for the focuser (guardOn is false).
GuardAllows(absolute, delta) ==
  unverified /\ safe => ~absolute /\ -Jog <= delta /\ delta <= Jog

TargetAllowed(t) == 0 <= t /\ t <= set.maxPos

Direction(t) == IF t > P THEN 1 ELSE -1

\* Steps that take up the backlash after a change of direction, not counted in the position.
TakeUp(dir) == IF lastDir # 0 /\ dir # lastDir THEN set.backlash ELSE 0

\* focuserMoveTo(), focuserMoveBy(): a move that starts.
StartMove(t, absolute) ==
  /\ TargetAllowed(t)
  /\ ~Busy
  /\ GuardAllows(absolute, t - P)
  /\ t # P
  /\ MarkMoving
  /\ A!Start(Foc, t, TakeUp(Direction(t)))
  /\ moveDir' = Direction(t)
  /\ savePending' = "none"
  /\ missed' = (missed \/ stoppedFlag[Foc])
  /\ UNCHANGED <<safe, setVars, unverified, lastDir, truth, trueDir>>

\* History of directions when the move may end now with l take-up steps left.
EndDirection(l) ==
  LET full == mode'[Foc] = "idle" /\ l = 0
  IN trueDir' = (IF full THEN moveDir ELSE trueDir) /\ missed' = (missed /\ ~full)

Step ==
  /\ A!Step(Foc)
  /\ EndDirection(lead'[Foc])
  /\ UNCHANGED <<cellVars, safe, setVars, focVars, truth>>

Halt ==
  /\ A!RequestHalt(Foc)
  /\ EndDirection(lead[Foc])
  /\ UNCHANGED <<cellVars, safe, setVars, focVars, truth>>

\* faultStop() of tmc2209.cpp: a stall or a driver fault during the move; also when the last step was
\* made while the driver was being read.
FaultStop ==
  /\ \/ A!StopAtOnce(Foc) /\ EndDirection(lead[Foc])
     \/ A!Step(Foc) /\ mode'[Foc] = "idle" /\ EndDirection(lead'[Foc])
  /\ unverified' = TRUE
  /\ truth' = IF truth = "lapsed" THEN "lapsed" ELSE "wrong"
  /\ UNCHANGED <<cellVars, safe, setVars, lastDir, moveDir, savePending>>

\* Mutant of NoteStop: a halted take-up counts as run.
NoteStopAlways ==
  /\ A!Report(Foc)
  /\ lastDir' = IF moveDir # 0 THEN moveDir ELSE lastDir
  /\ moveDir' = 0
  /\ savePending' = "waiting"
  /\ UNCHANGED cellVars
\* Mutant of NoteStop: no save is planned.
NoteStopUnsaved ==
  /\ A!Report(Foc)
  /\ lastDir' = IF moveDir # 0 /\ lead[Foc] = 0 THEN moveDir ELSE lastDir
  /\ moveDir' = 0
  /\ UNCHANGED <<cellVars, savePending>>

\* First half of focuserUpdate(): the end of a move is noted, the save is planned.
NoteStop ==
  /\ A!Report(Foc)
  /\ lastDir' = IF moveDir # 0 /\ lead[Foc] = 0 THEN moveDir ELSE lastDir
  /\ moveDir' = 0
  /\ savePending' = "waiting"
  /\ UNCHANGED cellVars

\* Mutant of SaveWhenIdle: the pending flag stays.
SaveAgain ==
  /\ ~stoppedFlag[Foc] /\ savePending = "due" /\ ~Busy
  /\ SavePosition(P, unverified)
  /\ UNCHANGED <<axisVars, lastDir, moveDir, savePending>>

\* Second half: the save, once the axis has been idle long enough.
SaveWhenIdle ==
  /\ ~stoppedFlag[Foc] /\ savePending = "due" /\ ~Busy
  /\ savePending' = "none"
  /\ SavePosition(P, unverified)
  /\ UNCHANGED <<axisVars, lastDir, moveDir>>

\* focuserUpdate()
Update ==
  /\ NoteStop \/ SaveWhenIdle
  /\ UNCHANGED <<safe, setVars, unverified, ghostVars>>

DelayOver ==
  /\ savePending = "waiting"
  /\ savePending' = "due"
  /\ UNCHANGED <<axisVars, cellVars, safe, setVars, unverified, lastDir, moveDir, ghostVars>>

\* focuserSync(): the counted position is the real one by definition.
Sync(p) ==
  /\ TargetAllowed(p)
  /\ ~Busy
  /\ A!Place(Foc, p)
  /\ unverified' = FALSE /\ savePending' = "none"
  /\ SavePosition(p, FALSE)
  /\ truth' = "right"
  /\ UNCHANGED <<safe, setVars, lastDir, moveDir, trueDir, missed>>

(***************************************************************************)
(* Settings.                                                               *)
(***************************************************************************)
\* Mutant of MaxFloor: the target of a move up is forgotten.
MaxFloorHere == P

\* The smallest maxPos :55 accepts.
MaxFloor == IF Busy /\ tgt[Foc] > P THEN tgt[Foc] ELSE P

\* :55
SetMax(v) ==
  /\ v >= MaxFloor
  /\ set' = [set EXCEPT !.maxPos = v]
  /\ UNCHANGED <<axisVars, cellVars, safe, savedSet, focVars, ghostVars>>

\* :63
SetBacklash(b) ==
  /\ set' = [set EXCEPT !.backlash = b]
  /\ UNCHANGED <<axisVars, cellVars, safe, savedSet, focVars, ghostVars>>

Scale(v, o, n) == (v * n) \div o
Clamp(v, lo, hi) == IF v < lo THEN lo ELSE IF v > hi THEN hi ELSE v

\* focuserRescale(): what maxPos and the position become at n microsteps.
RescaledMax(n) == Clamp(Scale(set.maxPos, set.usteps, n), 1, Limit)
RescaledPos(n) == Clamp(Scale(P, set.usteps, n), 0, RescaledMax(n))

\* A lapse: a change to n microsteps rounds or clamps the position.
RescaleLoses(n) == RescaledPos(n) # Scale(P, set.usteps, n) \/ (P * n) % set.usteps # 0

Rescale(n) ==
  /\ pos' = [pos EXCEPT ![Foc] = RescaledPos(n)]
  /\ savePending' = "due"
  /\ truth' = IF truth = "right" /\ RescaleLoses(n) THEN "lapsed" ELSE truth
  /\ UNCHANGED <<tgt, lead, mode, stoppedFlag>>

RescaleAxis(n) == IF n = set.usteps THEN UNCHANGED <<axisVars, savePending, truth>> ELSE Rescale(n)

\* :48 of the focuser with this microstep value.
SetUsteps(n) ==
  /\ ~Busy
  /\ RescaleAxis(n)
  /\ set' = [maxPos |-> RescaledMax(n), usteps |-> n,
             backlash |-> Clamp(Scale(set.backlash, set.usteps, n), 0, 10000)]
  /\ UNCHANGED <<cellVars, safe, savedSet, unverified, lastDir, moveDir, trueDir, missed>>

\* :24
ResetDefaults ==
  /\ ~Busy
  /\ RescaleAxis(Defaults.usteps)
  /\ set' = Defaults
  /\ UNCHANGED <<cellVars, safe, savedSet, unverified, lastDir, moveDir, trueDir, missed>>

\* :23; the write waits for a position slot that is on its way.
SaveSettings ==
  /\ ~safe
  /\ savedSet' = set
  /\ stored' = IF flight = <<>> THEN stored ELSE flight[1]
  /\ flight' = <<>>
  /\ UNCHANGED <<axisVars, wanted, dirty, safe, set, focVars, ghostVars>>

(***************************************************************************)
(* A rotator move: it starts only while the focuser is idle and writes the *)
(* shared record with the focuser's present microstep label.  While it     *)
(* runs it only makes the board refuse commands, so it is one step here.   *)
(* A lapse: between :48 and the next focuserUpdate() the label is not that *)
(* of the position beside it.                                              *)
(***************************************************************************)
RotatorMoves ==
  /\ ~Busy
  /\ Queue([wanted EXCEPT !.usteps = set.usteps])
  /\ truth' = IF wanted.usteps # set.usteps /\ Trusted(wanted) THEN "lapsed" ELSE truth
  /\ UNCHANGED <<axisVars, safe, setVars, focVars, trueDir, missed>>

(***************************************************************************)
(* The chip, power cuts and boots.                                         *)
(***************************************************************************)
HandOver ==
  /\ ~safe /\ C!HandOver
  /\ UNCHANGED <<axisVars, safe, setVars, focVars, ghostVars>>

Land ==
  /\ C!Land
  /\ UNCHANGED <<axisVars, safe, setVars, focVars, ghostVars>>

\* Everything a boot starts anew.
Restart ==
  /\ tgt' = [tgt EXCEPT ![Foc] = 0] /\ lead' = [lead EXCEPT ![Foc] = 0]
  /\ mode' = [mode EXCEPT ![Foc] = "idle"] /\ stoppedFlag' = [stoppedFlag EXCEPT ![Foc] = FALSE]
  /\ lastDir' = 0 /\ moveDir' = 0 /\ savePending' = "none"
  /\ trueDir' = 0 /\ missed' = FALSE
  /\ flight' = <<>> /\ dirty' = FALSE
  /\ UNCHANGED savedSet

\* Mutant of LoadedPos: the microstep label is ignored.
LoadedPosRaw(rec) == rec.pos

\* focuserBegin(): the saved position in the loaded microsteps.
LoadedPos(rec) == IF rec.usteps \in {0, savedSet.usteps} THEN rec.pos ELSE Scale(rec.pos, rec.usteps, savedSet.usteps)

\* The record and the counted position are the same place, and loading it rounds nothing away.
SamePlace(rec) == /\ rec.saved /\ rec.pos * set.usteps = P * rec.usteps
                  /\ (rec.pos * savedSet.usteps) % rec.usteps = 0

\* A lapse: the boot trusts a record that is not the last one the firmware held, or rounds it.
BootLoses(rec) ==
  Trusted(rec) /\ (safe \/ rec # wanted \/ (rec.pos * savedSet.usteps) % rec.usteps # 0)

\* A boot that finds record rec; it may be cut from any state.
BootFrom(rec) ==
  /\ wanted' = rec /\ stored' = rec
  /\ pos' = [pos EXCEPT ![Foc] = LoadedPos(rec)]
  /\ unverified' = ~Trusted(rec)
  /\ safe' = FALSE
  /\ set' = savedSet
  /\ truth' = IF truth = "lapsed" \/ BootLoses(rec) THEN "lapsed"
               ELSE IF truth = "right" /\ ~Busy /\ SamePlace(rec) THEN "right" ELSE "wrong"
  /\ Restart

PowerCut == \E rec \in {stored} \cup {flight[i] : i \in DOMAIN flight} : BootFrom(rec)

\* :22 (and :31), refused while busy; the reply takes longer than the write cycle.
Reboot ==
  /\ ~Busy
  /\ BootFrom(IF flight = <<>> THEN stored ELSE flight[1])

\* A watchdog reset boots into safe mode, which never looks at the EEPROM.
WatchdogReset ==
  /\ stored' = IF flight = <<>> THEN stored ELSE flight[1]
  /\ wanted' = Blank
  /\ pos' = [pos EXCEPT ![Foc] = 0]
  /\ unverified' = TRUE
  /\ safe' = TRUE
  /\ set' = Defaults
  /\ truth' = IF truth = "lapsed" THEN "lapsed" ELSE "wrong"
  /\ Restart

Init ==
  /\ A!ContractInit /\ P = 0
  /\ C!CellInit
  /\ safe = FALSE
  /\ set = Defaults /\ savedSet = Defaults
  /\ unverified = TRUE /\ lastDir = 0 /\ moveDir = 0 /\ savePending = "none"
  /\ truth = "wrong" /\ trueDir = 0 /\ missed = FALSE

Host ==
  \/ \E t \in MoveTargets, absolute \in BOOLEAN : StartMove(t, absolute)
  \/ Halt
  \/ \E p \in SyncValues : Sync(p)
  \/ \E v \in MaxPosValues : SetMax(v)
  \/ \E b \in BacklashValues : SetBacklash(b)
  \/ \E n \in UstepValues : SetUsteps(n)
  \/ ResetDefaults \/ SaveSettings \/ Reboot

Environment ==
  \/ DelayOver \/ RotatorMoves \/ Land
  \/ "fault" \in Mishaps /\ FaultStop
  \/ "cut" \in Mishaps /\ PowerCut
  \/ "watchdog" \in Mishaps /\ WatchdogReset

Next == Host \/ Step \/ Update \/ HandOver \/ Environment

\* The step timer and the main loop keep running, time passes.
Spec == Init /\ [][Next]_vars /\ WF_vars(Step) /\ WF_vars(Update) /\ WF_vars(DelayOver)
-----------------------------------------------------------------------------
(***************************************************************************)
(* Properties.                                                             *)
(***************************************************************************)
\* Types of all variables.
TypeOK ==
  /\ P \in Int /\ tgt[Foc] \in Int /\ lead[Foc] \in Nat /\ mode[Foc] \in {"idle", "moving", "halting"}
  /\ wanted \in Records /\ stored \in Records
  /\ flight = <<>> \/ flight[1] \in Records
  /\ set \in Settings /\ savedSet \in Settings
  /\ lastDir \in {-1, 0, 1} /\ moveDir \in {-1, 0, 1} /\ trueDir \in {-1, 0, 1}
  /\ {stoppedFlag[Foc], dirty, safe, unverified, missed} \subseteq BOOLEAN
  /\ savePending \in {"none", "waiting", "due"}
  /\ truth \in {"right", "wrong", "lapsed"}

\* A position shown as verified is the real one, through moves, halts, fault stops, saves, power cuts
\* and reboots (focuser.cpp:15-18), save for the lapses named in this module.
TrustedRight == ~unverified => truth # "wrong"

\* No step takes the position out of the soft limits, or further out, whatever :55, :48, :24 or a
\* reboot did to the limits before or during the move.
StepsStayInside == [][Step => P' <= set.maxPos \/ P' <= P]_vars

\* A record marked "moving" does not stay so at rest: a save is still coming, or the position was
\* already unverified when the board started.
MarkWillClear == wanted.moving /\ ~Busy /\ ~unverified => stoppedFlag[Foc] \/ savePending # "none"

\* A planned save comes, or is made needless by a sync or the next move.
SaveComes == savePending # "none" ~> savePending = "none"

\* lastDir is the direction of the last move whose take-up ran in full (focuser.cpp:4-7), as long as
\* every end of a move was seen by focuserUpdate() before the next move.
DirectionKept == ~Busy /\ ~stoppedFlag[Foc] /\ ~missed => lastDir = trueDir

=============================================================================
