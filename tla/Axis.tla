-------------------------------- MODULE Axis --------------------------------
(***************************************************************************)
(* The stepper axes of fw/src/axis.cpp and the step timer they share       *)
(* (fw/src/step_timer.cpp).  The main loop starts, halts and stops moves;  *)
(* the timer interrupt makes the steps of the one axis that owns the       *)
(* timer, between any two main-loop operations.                            *)
(*                                                                         *)
(* Every main-loop operation is one atomic action: halt, stopNow and       *)
(* justStopped run with interrupts off, and moveTo, setPosition and update *)
(* change an axis only while the timer does not serve it.                  *)
(*                                                                         *)
(* Abstracted: step periods.  Where the source compares the new delay with *)
(* the cruise delay to leave the acceleration, the model lets the ramp end *)
(* at any step, which covers every speed and acceleration setting.         *)
(***************************************************************************)
EXTENDS Integers

CONSTANTS
  Axes,        \* the axes of the board
  NoAxis,      \* "active == nullptr" of the step timer
  Targets,     \* positions a caller may pass to moveTo or setPosition
  Leads,       \* numbers of uncounted take-up steps a caller may pass
  IdleTicks    \* clock ticks of the idle-off time

ASSUME AxesAssumption == NoAxis \notin Axes
ASSUME MoveAssumption == Targets \subseteq Int /\ Leads \subseteq Nat /\ 0 \in Leads
ASSUME TickAssumption == IdleTicks \in Nat \ {0}

VARIABLES
  pos,          \* counted position
  tgt,          \* target of the running or last move
  dirStep,      \* direction of the running or last move
  lead,         \* take-up steps not yet made
  total,        \* steps of the move, take-up included
  remain,       \* steps left, take-up included
  mot,          \* motion shown to the main loop
  phase,        \* ramp phase of the interrupt
  rampN,        \* acceleration steps made
  decelLeft,    \* deceleration steps left
  haltReq,      \* halt() not yet seen by the interrupt
  settle,       \* the next interrupt only waits for the driver
  stoppedFlag,  \* a move ended and justStopped() has not reported it
  active,       \* axis the step timer serves
  enabled,      \* driver powered
  idleOff,      \* an idle-off time is set (0: stays powered)
  wasBusy,      \* busy at the last update()
  stopAge,      \* ticks since stopMs, up to IdleTicks
  restAge       \* history: ticks since the motor really stopped, up to IdleTicks

rampVars  == <<dirStep, total, remain, phase, rampN, decelLeft, haltReq, settle>>
moveVars  == <<pos, tgt, lead, mot, stoppedFlag, active>>
powerVars == <<enabled, idleOff, wasBusy, stopAge, restAge>>
vars == <<pos, tgt, lead, mot, stoppedFlag, active, dirStep, total, remain, phase,
          rampN, decelLeft, haltReq, settle, enabled, idleOff, wasBusy, stopAge, restAge>>

Motion == {"idle", "accel", "cruise", "decel", "halting"}
Phase  == {"accel", "run", "decel"}

Busy(a) == mot[a] # "idle"
AnyBusy == \E a \in Axes : Busy(a)

\* What moveTo writes before it starts the timer; a target that needs no step changes nothing.
MoveTo(a, target, leadSteps) ==
  LET diff  == target - pos[a]
      steps == (IF diff < 0 THEN -diff ELSE diff) + leadSteps
  IN
  /\ ~AnyBusy
  /\ active = NoAxis
  /\ steps > 0
  /\ dirStep'     = [dirStep     EXCEPT ![a] = IF diff >= 0 THEN 1 ELSE -1]
  /\ tgt'         = [tgt         EXCEPT ![a] = target]
  /\ lead'        = [lead        EXCEPT ![a] = leadSteps]
  /\ total'       = [total       EXCEPT ![a] = steps]
  /\ remain'      = [remain      EXCEPT ![a] = steps]
  /\ rampN'       = [rampN       EXCEPT ![a] = 0]
  /\ decelLeft'   = [decelLeft   EXCEPT ![a] = 0]
  /\ phase'       = [phase       EXCEPT ![a] = "accel"]
  /\ haltReq'     = [haltReq     EXCEPT ![a] = FALSE]
  /\ settle'      = [settle      EXCEPT ![a] = ~enabled[a]]
  /\ enabled'     = [enabled     EXCEPT ![a] = TRUE]
  /\ stoppedFlag' = [stoppedFlag EXCEPT ![a] = FALSE]
  /\ mot'         = [mot         EXCEPT ![a] = "accel"]
  /\ wasBusy'     = [wasBusy     EXCEPT ![a] = TRUE]
  /\ active'      = a
  /\ restAge'     = [restAge     EXCEPT ![a] = 0]
  /\ UNCHANGED <<pos, idleOff, stopAge>>

\* Mutants of Stand: the timer keeps running; the main loop is not told.
StandTimerRuns(a) ==
  /\ remain'      = [remain      EXCEPT ![a] = 0]
  /\ mot'         = [mot         EXCEPT ![a] = "idle"]
  /\ stoppedFlag' = [stoppedFlag EXCEPT ![a] = TRUE]
  /\ restAge'     = [restAge     EXCEPT ![a] = 0]
  /\ UNCHANGED active
StandSilent(a) ==
  /\ active'      = IF active = a THEN NoAxis ELSE active
  /\ remain'      = [remain      EXCEPT ![a] = 0]
  /\ mot'         = [mot         EXCEPT ![a] = "idle"]
  /\ restAge'     = [restAge     EXCEPT ![a] = 0]
  /\ UNCHANGED stoppedFlag

\* The motor stands: the timer is released, the main loop is told.
Stand(a) ==
  /\ active'      = IF active = a THEN NoAxis ELSE active
  /\ remain'      = [remain      EXCEPT ![a] = 0]
  /\ mot'         = [mot         EXCEPT ![a] = "idle"]
  /\ stoppedFlag' = [stoppedFlag EXCEPT ![a] = TRUE]
  /\ restAge'     = [restAge     EXCEPT ![a] = 0]

Halt(a) ==
  /\ mot[a] \notin {"idle", "halting"}
  /\ \/ /\ remain[a] = total[a]            \* no step made yet
        /\ Stand(a)
        /\ UNCHANGED haltReq
     \/ /\ remain[a] # total[a]
        /\ haltReq' = [haltReq EXCEPT ![a] = TRUE]
        /\ mot'     = [mot EXCEPT ![a] = "halting"]
        /\ UNCHANGED <<active, remain, stoppedFlag, restAge>>
  /\ UNCHANGED <<pos, tgt, lead, dirStep, total, phase, rampN, decelLeft, settle,
                 enabled, idleOff, wasBusy, stopAge>>

StopNow(a) ==
  /\ Busy(a)
  /\ Stand(a)
  /\ haltReq' = [haltReq EXCEPT ![a] = FALSE]
  /\ UNCHANGED <<pos, tgt, lead, dirStep, total, phase, rampN, decelLeft, settle,
                 enabled, idleOff, wasBusy, stopAge>>

\* Mutant of AgeSeen: the clock is not restarted at the end of a move.
AgeRunsOn(a) == stopAge[a]

\* The idle-off clock starts at the first pass that sees the axis at rest.
AgeSeen(a) == IF wasBusy[a] /\ ~Busy(a) THEN 0 ELSE stopAge[a]

PowerAt(a, age) == IF Busy(a) THEN enabled[a] ELSE ~idleOff[a] \/ (enabled[a] /\ age < IdleTicks)

\* Once per loop pass.
Update(a) ==
  /\ stopAge' = [stopAge EXCEPT ![a] = AgeSeen(a)]
  /\ wasBusy' = [wasBusy EXCEPT ![a] = Busy(a)]
  /\ enabled' = [enabled EXCEPT ![a] = PowerAt(a, AgeSeen(a))]
  /\ UNCHANGED <<moveVars, rampVars, idleOff, restAge>>

SetPosition(a, p) ==
  /\ ~Busy(a)
  /\ pos' = [pos EXCEPT ![a] = p]
  /\ UNCHANGED <<tgt, lead, mot, stoppedFlag, active, rampVars, powerVars>>

JustStopped(a) ==
  /\ stoppedFlag[a]
  /\ stoppedFlag' = [stoppedFlag EXCEPT ![a] = FALSE]
  /\ UNCHANGED <<pos, tgt, lead, mot, active, rampVars, powerVars>>

SetIdleOff(a, on) ==
  /\ idleOff' = [idleOff EXCEPT ![a] = on]
  /\ UNCHANGED <<moveVars, rampVars, enabled, wasBusy, stopAge, restAge>>

(***************************************************************************)
(* The step interrupt.                                                     *)
(***************************************************************************)
\* Mutant of SettleTick: the settle flag stays set.
SettleForever(a) ==
  /\ active = a
  /\ settle[a]
  /\ UNCHANGED vars

SettleTick(a) ==
  /\ active = a
  /\ settle[a]
  /\ settle' = [settle EXCEPT ![a] = FALSE]
  /\ UNCHANGED <<moveVars, dirStep, total, remain, phase, rampN, decelLeft, haltReq, powerVars>>

\* Mutant of Pulse: take-up steps are counted in the position.
PulseCounted(a) ==
  /\ active = a
  /\ ~settle[a]
  /\ lead' = [lead EXCEPT ![a] = IF @ > 0 THEN @ - 1 ELSE 0]
  /\ pos'  = [pos EXCEPT ![a] = @ + dirStep[a]]

\* One pulse: a take-up step, or a step counted in the position.
Pulse(a) ==
  /\ active = a
  /\ ~settle[a]
  /\ \/ /\ lead[a] > 0
        /\ lead' = [lead EXCEPT ![a] = @ - 1]
        /\ UNCHANGED pos
     \/ /\ lead[a] = 0
        /\ pos' = [pos EXCEPT ![a] = @ + dirStep[a]]
        /\ UNCHANGED lead

\* finishIsr()
Finish(a) ==
  /\ Stand(a)
  /\ haltReq' = [haltReq EXCEPT ![a] = FALSE]
  /\ UNCHANGED <<phase, rampN>>

MotionOf(ph) == CASE ph = "accel" -> "accel" [] ph = "run" -> "cruise" [] ph = "decel" -> "decel"

\* The move goes on in phase ph with k deceleration steps left.
GoOn(a, ph, k) ==
  /\ remain'    = [remain    EXCEPT ![a] = @ - 1]
  /\ phase'     = [phase     EXCEPT ![a] = ph]
  /\ decelLeft' = [decelLeft EXCEPT ![a] = k]
  /\ haltReq'   = [haltReq   EXCEPT ![a] = FALSE]
  /\ mot'       = [mot       EXCEPT ![a] = IF @ = "halting" THEN @ ELSE MotionOf(ph)]
  /\ UNCHANGED <<active, stoppedFlag, restAge>>

\* Mutant of DecelSteps: one step short.
DecelStepsShort(left, n) == (IF left < n THEN left ELSE n) - 1

\* Slow down over as many steps as the ramp up took, or as many as are left.
DecelSteps(left, n) == IF left < n THEN left ELSE n

\* Mutants of MustSlow: one step early; one step late.
MustSlowEarly(a, left, n) == haltReq[a] \/ left <= n + 1
MustSlowLate(a, left, n) == haltReq[a] \/ left < n

\* Time to slow down: halted, or no more steps left than the ramp up took.
MustSlow(a, left, n) == haltReq[a] \/ left <= n

LastPulse(a) ==
  /\ remain[a] = 1
  /\ Finish(a)
  /\ UNCHANGED decelLeft

AccelPulse(a) ==
  LET left == remain[a] - 1
      n    == rampN[a] + 1
  IN
  /\ phase[a] = "accel"
  /\ left > 0
  /\ rampN' = [rampN EXCEPT ![a] = n]
  /\ \/ /\ MustSlow(a, left, n)
        /\ GoOn(a, "decel", DecelSteps(left, n))
     \/ /\ ~MustSlow(a, left, n)
        /\ \E ph \in {"accel", "run"} : GoOn(a, ph, decelLeft[a])

RunPulse(a) ==
  LET left == remain[a] - 1 IN
  /\ phase[a] = "run"
  /\ left > 0
  /\ \/ /\ MustSlow(a, left, rampN[a])
        /\ GoOn(a, "decel", DecelSteps(left, rampN[a]))
     \/ /\ ~MustSlow(a, left, rampN[a])
        /\ GoOn(a, "run", decelLeft[a])
  /\ UNCHANGED rampN

DecelPulse(a) ==
  /\ phase[a] = "decel"
  /\ remain[a] > 1
  /\ \/ /\ decelLeft[a] = 1                \* halt finished before the target
        /\ decelLeft' = [decelLeft EXCEPT ![a] = 0]
        /\ Finish(a)
     \/ /\ decelLeft[a] # 1
        /\ GoOn(a, "decel", decelLeft[a] - 1)
        /\ UNCHANGED rampN

StepPulse(a) ==
  /\ Pulse(a)
  /\ LastPulse(a) \/ AccelPulse(a) \/ RunPulse(a) \/ DecelPulse(a)
  /\ UNCHANGED <<tgt, dirStep, total, settle, enabled, idleOff, wasBusy, stopAge>>

Isr == \E a \in Axes : SettleTick(a) \/ StepPulse(a)

\* Time passes; both ages saturate at IdleTicks.
Tick ==
  LET older(n) == IF n < IdleTicks THEN n + 1 ELSE n IN
  /\ stopAge' = [a \in Axes |-> older(stopAge[a])]
  /\ restAge' = [a \in Axes |-> IF Busy(a) THEN 0 ELSE older(restAge[a])]
  /\ UNCHANGED <<moveVars, rampVars, enabled, idleOff, wasBusy>>

-----------------------------------------------------------------------------
Init ==
  /\ pos \in [Axes -> Targets]             \* the boot position, setPosition() in setup()
  /\ tgt         = [a \in Axes |-> 0]
  /\ dirStep     = [a \in Axes |-> 1]
  /\ lead        = [a \in Axes |-> 0]
  /\ total       = [a \in Axes |-> 0]
  /\ remain      = [a \in Axes |-> 0]
  /\ mot         = [a \in Axes |-> "idle"]
  /\ phase       = [a \in Axes |-> "accel"]
  /\ rampN       = [a \in Axes |-> 0]
  /\ decelLeft   = [a \in Axes |-> 0]
  /\ haltReq     = [a \in Axes |-> FALSE]
  /\ settle      = [a \in Axes |-> FALSE]
  /\ stoppedFlag = [a \in Axes |-> FALSE]
  /\ active      = NoAxis
  /\ enabled     = [a \in Axes |-> FALSE]
  /\ idleOff \in [Axes -> BOOLEAN]
  /\ wasBusy     = [a \in Axes |-> FALSE]
  /\ stopAge     = [a \in Axes |-> 0]
  /\ restAge     = [a \in Axes |-> 0]

MainLoop ==
  \E a \in Axes :
    \/ \E t \in Targets, l \in Leads : MoveTo(a, t, l)
    \/ Halt(a)
    \/ StopNow(a)
    \/ Update(a)
    \/ \E p \in Targets : SetPosition(a, p)
    \/ JustStopped(a)
    \/ \E on \in BOOLEAN : SetIdleOff(a, on)

Next == MainLoop \/ Isr \/ Tick

\* The timer of the active axis keeps firing whatever the main loop does.
Spec == Init /\ [][Next]_vars /\ WF_vars(Isr)
-----------------------------------------------------------------------------
(***************************************************************************)
(* Properties.                                                             *)
(***************************************************************************)
\* Types of all variables.
TypeOK ==
  /\ pos \in [Axes -> Int] /\ tgt \in [Axes -> Int]
  /\ dirStep \in [Axes -> {1, -1}]
  /\ lead \in [Axes -> Nat] /\ total \in [Axes -> Nat] /\ remain \in [Axes -> Nat]
  /\ rampN \in [Axes -> Nat] /\ decelLeft \in [Axes -> Nat]
  /\ mot \in [Axes -> Motion] /\ phase \in [Axes -> Phase]
  /\ haltReq \in [Axes -> BOOLEAN] /\ settle \in [Axes -> BOOLEAN]
  /\ stoppedFlag \in [Axes -> BOOLEAN]
  /\ active \in Axes \cup {NoAxis}
  /\ enabled \in [Axes -> BOOLEAN] /\ idleOff \in [Axes -> BOOLEAN]
  /\ wasBusy \in [Axes -> BOOLEAN]
  /\ stopAge \in [Axes -> 0..IdleTicks] /\ restAge \in [Axes -> 0..IdleTicks]

\* An axis is busy exactly while the timer serves it (axis.cpp, step_timer.cpp): never two axes in
\* motion, never an axis that reports a move no interrupt will ever finish.
OneAxisMoves == \A a \in Axes : Busy(a) <=> active = a

\* The steps left lead exactly from the counted position to the target, take-up steps aside, through
\* every ramp and halt: no step is lost or counted twice (axis.cpp isrStep).
OnTrackAt(a) ==
  /\ remain[a] >= 1
  /\ lead[a] <= remain[a] /\ remain[a] <= total[a]
  /\ tgt[a] - pos[a] = IF dirStep[a] = 1 THEN remain[a] - lead[a] ELSE lead[a] - remain[a]
OnTrack == \A a \in Axes : Busy(a) => OnTrackAt(a)

\* Before the deceleration there is always room for it, and a ramp up to mirror; in it the divisor 4k - 1 is taken at k >= 1,
\* it never runs past the target, and only a halt may make it end before the target.
RampFitsAt(a) ==
  IF phase[a] = "decel"
  THEN /\ 1 <= decelLeft[a] /\ decelLeft[a] <= remain[a] /\ decelLeft[a] <= rampN[a]
       /\ mot[a] # "halting" => decelLeft[a] = remain[a]
  ELSE remain[a] > rampN[a] /\ (phase[a] = "run" => rampN[a] >= 1)
RampFits == \A a \in Axes : Busy(a) => RampFitsAt(a)

\* A halt is never forgotten or invented: an axis shown as halting has the request still to be taken
\* by the next pulse or is already slowing down, and a request is only held by a halting axis.
HaltHeldAt(a) ==
  /\ mot[a] = "halting" => haltReq[a] \/ phase[a] = "decel"
  /\ haltReq[a] /\ Busy(a) => mot[a] = "halting"
HaltHeld == \A a \in Axes : HaltHeldAt(a)

\* No step is sent to a driver that update() has switched off (axis.cpp update, moveTo).
PoweredWhileMoving == \A a \in Axes : active = a => enabled[a]

\* A move that was not halted ends by interrupt exactly at its target with the take-up run in full.
ExactEnd ==
  [][Isr => \A a \in Axes : Busy(a) /\ mot[a] # "halting" /\ mot'[a] = "idle"
                              => pos'[a] = tgt[a] /\ lead'[a] = 0]_vars

\* The interrupt never stops the motor at speed: it ends a move from the last deceleration step
\* only (or after a single step), and a deceleration is at most one step shorter than the ramp up.
SoftStop ==
  [][Isr => \A a \in Axes :
        /\ Busy(a) /\ mot'[a] = "idle" => total[a] = 1 \/ (phase[a] = "decel" /\ decelLeft[a] = 1)
        /\ phase[a] # "decel" /\ phase'[a] = "decel" => decelLeft'[a] >= rampN'[a] - 1]_vars

\* The driver is switched off only after the motor has really stood for the idle-off time, also when
\* a move begins and ends between two passes of update() (the reason moveTo sets wasBusy).
IdleOffWaits ==
  [][\A a \in Axes : enabled[a] /\ ~enabled'[a] => ~Busy(a) /\ restAge[a] = IdleTicks]_vars

\* The idle-off clock never runs ahead of the motor: update() has restarted it since the motor last
\* stood, or still will, because a busy axis is remembered (wasBusy) until it is seen at rest.
IdleClockAt(a) == IF wasBusy[a] THEN TRUE ELSE ~Busy(a) /\ stopAge[a] <= restAge[a]
IdleClock == \A a \in Axes : IdleClockAt(a)

\* The inductive invariant of AxisProofs.
IInv == /\ TypeOK /\ OneAxisMoves /\ OnTrack /\ RampFits
        /\ HaltHeld /\ PoweredWhileMoving /\ IdleClock

\* Every move ends.
MoveEnds == \A a \in Axes : Busy(a) ~> ~Busy(a)

\* The axes keep the contract the rest of the firmware is built on.
Promise == INSTANCE AxisContract WITH
  mode <- [a \in Axes |-> IF mot[a] = "idle" THEN "idle"
                          ELSE IF mot[a] = "halting" THEN "halting" ELSE "moving"]
KeepsContract == Promise!Contract
=============================================================================
