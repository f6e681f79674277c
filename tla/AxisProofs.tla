----------------------------- MODULE AxisProofs -----------------------------
(***************************************************************************)
(* Proofs about Axis, for any set of axes, any targets and take-ups.       *)
(***************************************************************************)
EXTENDS Axis, TLAPS

LEMMA TypeInit == Init => TypeOK
<1> SUFFICES ASSUME Init PROVE TypeOK
    OBVIOUS
<1>1. pos \in [Axes -> Int]
  BY MoveAssumption DEF Init
<1>2. stopAge \in [Axes -> 0..IdleTicks] /\ restAge \in [Axes -> 0..IdleTicks]
  BY TickAssumption DEF Init
<1>3. QED
  BY <1>1, <1>2 DEF Init, TypeOK, Motion, Phase

\* What one pulse that does not end the move leaves behind.
LEMMA GoOnTypes ==
  ASSUME TypeOK, NEW a \in Axes, NEW ph \in Phase, NEW k \in Nat, remain[a] > 0, GoOn(a, ph, k)
  PROVE  /\ remain' \in [Axes -> Nat] /\ decelLeft' \in [Axes -> Nat]
         /\ mot' \in [Axes -> Motion] /\ phase' \in [Axes -> Phase]
         /\ haltReq' \in [Axes -> BOOLEAN]
         /\ UNCHANGED <<active, stoppedFlag, restAge>>
<1>1. MotionOf(ph) \in Motion
  BY DEF MotionOf, Motion, Phase
<1>2. mot' \in [Axes -> Motion]
  BY <1>1 DEF GoOn, TypeOK
<1>3. QED
  BY <1>2 DEF GoOn, TypeOK

LEMMA TypeNext == TypeOK /\ OneAxisMoves /\ RampFits /\ [Next]_vars => TypeOK'
<1> SUFFICES ASSUME TypeOK, OneAxisMoves, RampFits, [Next]_vars PROVE TypeOK'
    OBVIOUS
<1> USE AxesAssumption, MoveAssumption, TickAssumption DEF TypeOK, Motion, Phase, Busy
<1>1. ASSUME NEW a \in Axes, NEW t \in Targets, NEW l \in Leads, MoveTo(a, t, l)
      PROVE  TypeOK'
  BY <1>1 DEF MoveTo, AnyBusy
<1>2. ASSUME NEW a \in Axes, Halt(a) PROVE TypeOK'
  <2>1. CASE Stand(a) /\ UNCHANGED haltReq
    BY <1>2, <2>1 DEF Halt, Stand
  <2>2. CASE /\ haltReq' = [haltReq EXCEPT ![a] = TRUE]
             /\ mot' = [mot EXCEPT ![a] = "halting"]
             /\ UNCHANGED <<active, remain, stoppedFlag, restAge>>
    BY <1>2, <2>2 DEF Halt
  <2>3. QED
    BY <1>2, <2>1, <2>2 DEF Halt
<1>3. ASSUME NEW a \in Axes, StopNow(a) PROVE TypeOK'
  BY <1>3 DEF StopNow, Stand
<1>4. ASSUME NEW a \in Axes, Update(a) PROVE TypeOK'
  <2>1. stopAge' \in [Axes -> 0..IdleTicks]
    BY <1>4 DEF Update, AgeSeen, PowerAt
  <2>2. wasBusy' \in [Axes -> BOOLEAN]
    BY <1>4 DEF Update, AgeSeen, PowerAt
  <2>3. enabled' \in [Axes -> BOOLEAN]
    BY <1>4, Zenon DEF Update, AgeSeen, PowerAt
  <2>4. QED
    BY <1>4, <2>1, <2>2, <2>3 DEF Update, AgeSeen, PowerAt, moveVars, rampVars
<1>5. ASSUME NEW a \in Axes, NEW p \in Targets, SetPosition(a, p) PROVE TypeOK'
  BY <1>5 DEF SetPosition, rampVars, powerVars
<1>6. ASSUME NEW a \in Axes, JustStopped(a) PROVE TypeOK'
  BY <1>6 DEF JustStopped, rampVars, powerVars
<1>7. ASSUME NEW a \in Axes, NEW on \in BOOLEAN, SetIdleOff(a, on) PROVE TypeOK'
  BY <1>7 DEF SetIdleOff, moveVars, rampVars
<1>8. ASSUME NEW a \in Axes, SettleTick(a) PROVE TypeOK'
  BY <1>8 DEF SettleTick, moveVars, powerVars
<1>9. ASSUME NEW a \in Axes, StepPulse(a) PROVE TypeOK'
  <2>1. /\ pos' \in [Axes -> Int] /\ lead' \in [Axes -> Nat]
        /\ UNCHANGED <<tgt, dirStep, total, settle, enabled, idleOff, wasBusy, stopAge>>
    BY <1>9 DEF StepPulse, Pulse
  <2>2. CASE LastPulse(a)
    BY <2>1, <2>2 DEF LastPulse, Finish, Stand
  <2>3. CASE AccelPulse(a)
    <3>1. rampN' \in [Axes -> Nat]
      BY <2>3 DEF AccelPulse
    <3>2. remain[a] > 0 /\ \E ph \in Phase, k \in Nat : GoOn(a, ph, k)
      BY <2>3 DEF AccelPulse, DecelSteps
    <3>3. QED
      BY <2>1, <3>1, <3>2, GoOnTypes
  <2>4. CASE RunPulse(a)
    <3>1. remain[a] > 0 /\ rampN' = rampN /\ \E ph \in Phase, k \in Nat : GoOn(a, ph, k)
      BY <2>4 DEF RunPulse, DecelSteps
    <3>2. QED
      BY <2>1, <3>1, GoOnTypes
  <2>5. CASE DecelPulse(a)
    <3>1. CASE decelLeft' = [decelLeft EXCEPT ![a] = 0] /\ Finish(a)
      BY <2>1, <3>1 DEF Finish, Stand
    <3>2. CASE decelLeft[a] # 1 /\ GoOn(a, "decel", decelLeft[a] - 1) /\ UNCHANGED rampN
      <4>1. mot[a] # "idle" /\ phase[a] = "decel"
        BY <1>9, <2>5 DEF OneAxisMoves, StepPulse, Pulse, DecelPulse
      <4>2. decelLeft[a] \in Nat /\ 1 <= decelLeft[a]
        BY <4>1 DEF RampFits, RampFitsAt
      <4>3. decelLeft[a] - 1 \in Nat
        BY <4>2
      <4>4. QED
        BY <2>1, <2>5, <3>2, <4>3, GoOnTypes DEF DecelPulse
    <3>3. QED
      BY <2>5, <3>1, <3>2 DEF DecelPulse
  <2>6. QED
    BY <1>9, <2>2, <2>3, <2>4, <2>5 DEF StepPulse
<1>10. CASE Tick
  BY <1>10 DEF Tick, moveVars, rampVars
<1>11. CASE UNCHANGED vars
  BY <1>11 DEF vars
<1>12. QED
  BY <1>1, <1>2, <1>3, <1>4, <1>5, <1>6, <1>7, <1>8, <1>9, <1>10, <1>11
     DEF Next, MainLoop, Isr

-----------------------------------------------------------------------------
LEMMA InvInit == Init => OneAxisMoves /\ OnTrack /\ RampFits /\ HaltHeld /\ PoweredWhileMoving /\ IdleClock
<1> SUFFICES ASSUME Init
             PROVE  OneAxisMoves /\ OnTrack /\ RampFits /\ HaltHeld /\ PoweredWhileMoving /\ IdleClock
    OBVIOUS
<1>1. \A a \in Axes : ~Busy(a) /\ active # a
  BY AxesAssumption DEF Init, Busy
<1>2. \A a \in Axes : mot[a] # "halting"
  BY DEF Init
<1>3. ASSUME NEW a \in Axes PROVE stopAge[a] <= restAge[a]
  <2>1. stopAge[a] = 0 /\ restAge[a] = 0
    BY DEF Init
  <2>2. QED
    BY <2>1
<1>4. OneAxisMoves /\ OnTrack /\ RampFits /\ PoweredWhileMoving
  BY <1>1 DEF OneAxisMoves, OnTrack, RampFits, PoweredWhileMoving
<1>5. HaltHeld /\ IdleClock
  BY <1>1, <1>2, <1>3 DEF HaltHeld, HaltHeldAt, IdleClock, IdleClockAt
<1>6. QED
  BY <1>4, <1>5

LEMMA OneAxisNext == TypeOK /\ OneAxisMoves /\ [Next]_vars => OneAxisMoves'
<1> SUFFICES ASSUME TypeOK, OneAxisMoves, [Next]_vars PROVE OneAxisMoves'
    OBVIOUS
<1> USE AxesAssumption DEF TypeOK, OneAxisMoves, Busy
<1>1. ASSUME NEW a \in Axes, NEW t \in Targets, NEW l \in Leads, MoveTo(a, t, l)
      PROVE  OneAxisMoves'
  BY <1>1 DEF MoveTo, AnyBusy
<1>2. ASSUME NEW a \in Axes, Halt(a) PROVE OneAxisMoves'
  BY <1>2 DEF Halt, Stand
<1>3. ASSUME NEW a \in Axes, StopNow(a) PROVE OneAxisMoves'
  BY <1>3 DEF StopNow, Stand
<1>4. ASSUME NEW a \in Axes, StepPulse(a) PROVE OneAxisMoves'
  <2>1. active = a /\ Busy(a)
    BY <1>4 DEF StepPulse, Pulse
  <2>2. CASE Finish(a)
    BY <2>1, <2>2 DEF Finish, Stand
  <2>3. ASSUME NEW ph \in Phase, NEW k, GoOn(a, ph, k) PROVE OneAxisMoves'
    BY <2>1, <2>3 DEF GoOn, MotionOf, Phase
  <2>4. QED
    BY <1>4, <2>2, <2>3 DEF StepPulse, LastPulse, AccelPulse, RunPulse, DecelPulse, Phase
<1>5. CASE UNCHANGED <<mot, active>>
  BY <1>5
<1>6. QED
  BY <1>1, <1>2, <1>3, <1>4, <1>5
     DEF Next, MainLoop, Isr, Update, SetPosition, JustStopped, SetIdleOff, SettleTick, Tick,
         moveVars, vars

-----------------------------------------------------------------------------
\* The steps and the ramp of one axis are in order.
MoveSound(a) == (Busy(a) => OnTrackAt(a) /\ RampFitsAt(a)) /\ HaltHeldAt(a)

MoveAt(a) == <<pos[a], tgt[a], dirStep[a], lead[a], total[a], remain[a], mot[a], phase[a],
               rampN[a], decelLeft[a], haltReq[a]>>

\* What an action leaves alone stays in order.
LEMMA MoveSoundKept ==
  ASSUME NEW b, MoveSound(b), UNCHANGED MoveAt(b)
  PROVE  MoveSound(b)'
BY DEF MoveSound, MoveAt, Busy, OnTrackAt, RampFitsAt, HaltHeldAt

LEMMA MoveToSound ==
  ASSUME TypeOK, NEW a \in Axes, NEW t \in Targets, NEW l \in Leads, MoveTo(a, t, l)
  PROVE  MoveSound(a)'
<1> USE MoveAssumption DEF MoveTo
<1>1. /\ pos'[a] = pos[a] /\ tgt'[a] = t /\ lead'[a] = l /\ remain'[a] = total'[a] /\ rampN'[a] = 0
      /\ phase'[a] = "accel" /\ haltReq'[a] = FALSE /\ mot'[a] = "accel"
  BY DEF TypeOK
<1>2. pos[a] \in Int /\ t \in Int /\ l \in Nat
  BY DEF TypeOK
<1>3. CASE t >= pos[a]
  <2>1. dirStep'[a] = 1 /\ remain'[a] = t - pos[a] + l
    BY <1>2, <1>3 DEF TypeOK
  <2>2. QED
    BY <1>1, <1>2, <1>3, <2>1 DEF MoveSound, Busy, OnTrackAt, RampFitsAt, HaltHeldAt
<1>4. CASE t < pos[a]
  <2>1. dirStep'[a] = -1 /\ remain'[a] = pos[a] - t + l
    BY <1>2, <1>4 DEF TypeOK
  <2>2. QED
    BY <1>1, <1>2, <1>4, <2>1 DEF MoveSound, Busy, OnTrackAt, RampFitsAt, HaltHeldAt
<1>5. QED
  BY <1>2, <1>3, <1>4

LEMMA HaltSound ==
  ASSUME TypeOK, NEW a \in Axes, MoveSound(a), Halt(a) \/ StopNow(a)
  PROVE  MoveSound(a)'
BY DEF TypeOK, Halt, StopNow, Stand, MoveSound, Busy, OnTrackAt, RampFitsAt, HaltHeldAt

\* One pulse moves one step along the way to the target.
LEMMA PulseSound ==
  ASSUME TypeOK, OneAxisMoves, NEW a \in Axes, MoveSound(a), StepPulse(a)
  PROVE  MoveSound(a)'
<1> USE DEF TypeOK, MoveSound, Busy, OnTrackAt, RampFitsAt, HaltHeldAt, MustSlow
<1>1. /\ Busy(a) /\ remain[a] \in Nat /\ lead[a] \in Nat /\ pos[a] \in Int /\ tgt[a] \in Int
      /\ rampN[a] \in Nat /\ decelLeft[a] \in Nat
      /\ OnTrackAt(a) /\ RampFitsAt(a) /\ HaltHeldAt(a)
  BY DEF StepPulse, Pulse, OneAxisMoves
<1>2. /\ tgt'[a] = tgt[a] /\ dirStep'[a] = dirStep[a] /\ total'[a] = total[a]
      /\ \/ lead[a] > 0 /\ lead'[a] = lead[a] - 1 /\ pos'[a] = pos[a]
         \/ lead[a] = 0 /\ lead'[a] = 0 /\ pos'[a] = pos[a] + dirStep[a]
  BY DEF StepPulse, Pulse
<1>3. CASE Finish(a)
  BY <1>3 DEF Finish, Stand
<1>4. ASSUME NEW ph \in Phase, NEW k \in Nat, GoOn(a, ph, k), remain[a] > 1
      PROVE  Busy(a)' /\ OnTrackAt(a)'
  <2>1. remain'[a] = remain[a] - 1 /\ mot'[a] # "idle"
    BY <1>1, <1>4 DEF GoOn, MotionOf, Phase
  <2>2. lead'[a] <= remain'[a]
    BY <1>1, <1>2, <1>4, <2>1
  <2>3. tgt'[a] - pos'[a] = IF dirStep'[a] = 1 THEN remain'[a] - lead'[a] ELSE lead'[a] - remain'[a]
    <3>1. CASE dirStep[a] = 1
      BY <1>1, <1>2, <2>1, <3>1
    <3>2. CASE dirStep[a] = -1
      BY <1>1, <1>2, <2>1, <3>2
    <3>3. QED
      BY <1>1, <3>1, <3>2
  <2>4. QED
    BY <1>1, <1>2, <1>4, <2>1, <2>2, <2>3
<1>5. ASSUME LastPulse(a) PROVE MoveSound(a)'
  BY <1>3, <1>5 DEF LastPulse
<1>6. ASSUME AccelPulse(a) PROVE MoveSound(a)'
  <2>1. /\ phase[a] = "accel" /\ remain[a] > 1 /\ remain[a] > rampN[a] /\ rampN'[a] = rampN[a] + 1
    BY <1>1, <1>6 DEF AccelPulse
  <2>2. CASE MustSlow(a, remain[a] - 1, rampN[a] + 1)
             /\ GoOn(a, "decel", DecelSteps(remain[a] - 1, rampN[a] + 1))
    <3>1. /\ remain'[a] = remain[a] - 1 /\ phase'[a] = "decel" /\ haltReq'[a] = FALSE
          /\ decelLeft'[a] = DecelSteps(remain[a] - 1, rampN[a] + 1)
          /\ mot'[a] = IF mot[a] = "halting" THEN mot[a] ELSE "decel"
      BY <2>2 DEF GoOn, MotionOf
    <3>2. decelLeft'[a] \in Nat /\ Busy(a)' /\ OnTrackAt(a)'
      BY <1>1, <1>4, <2>1, <2>2, <3>1 DEF DecelSteps, Phase
    <3>3. RampFitsAt(a)' /\ HaltHeldAt(a)'
      BY <1>1, <2>1, <2>2, <3>1 DEF DecelSteps
    <3>4. QED
      BY <3>2, <3>3
  <2>3. ASSUME ~MustSlow(a, remain[a] - 1, rampN[a] + 1), NEW ph \in {"accel", "run"},
               GoOn(a, ph, decelLeft[a])
        PROVE  MoveSound(a)'
    <3>1. remain'[a] = remain[a] - 1 /\ phase'[a] = ph /\ haltReq'[a] = FALSE /\ mot'[a] # "halting"
      BY <1>1, <2>1, <2>3 DEF GoOn, MotionOf
    <3>2. Busy(a)' /\ OnTrackAt(a)'
      BY <1>1, <1>4, <2>1, <2>3 DEF Phase
    <3>3. RampFitsAt(a)' /\ HaltHeldAt(a)'
      BY <1>1, <2>1, <2>3, <3>1
    <3>4. QED
      BY <3>2, <3>3
  <2>4. QED
    BY <1>6, <2>2, <2>3 DEF AccelPulse
<1>7. ASSUME RunPulse(a) PROVE MoveSound(a)'
  <2>1. /\ phase[a] = "run" /\ remain[a] > 1 /\ remain[a] > rampN[a] /\ rampN'[a] = rampN[a]
        /\ rampN[a] >= 1
    BY <1>1, <1>7 DEF RunPulse
  <2>2. CASE MustSlow(a, remain[a] - 1, rampN[a])
             /\ GoOn(a, "decel", DecelSteps(remain[a] - 1, rampN[a]))
    <3>1. /\ remain'[a] = remain[a] - 1 /\ phase'[a] = "decel" /\ haltReq'[a] = FALSE
          /\ decelLeft'[a] = DecelSteps(remain[a] - 1, rampN[a])
          /\ mot'[a] = IF mot[a] = "halting" THEN mot[a] ELSE "decel"
      BY <2>2 DEF GoOn, MotionOf
    <3>2. decelLeft'[a] \in Nat /\ Busy(a)' /\ OnTrackAt(a)'
      BY <1>1, <1>4, <2>1, <2>2, <3>1 DEF DecelSteps, Phase
    <3>3. RampFitsAt(a)' /\ HaltHeldAt(a)'
      BY <1>1, <2>1, <2>2, <3>1 DEF DecelSteps
    <3>4. QED
      BY <3>2, <3>3
  <2>3. CASE ~MustSlow(a, remain[a] - 1, rampN[a]) /\ GoOn(a, "run", decelLeft[a])
    <3>1. remain'[a] = remain[a] - 1 /\ phase'[a] = "run" /\ haltReq'[a] = FALSE /\ mot'[a] # "halting"
      BY <1>1, <2>1, <2>3 DEF GoOn, MotionOf
    <3>2. Busy(a)' /\ OnTrackAt(a)'
      BY <1>1, <1>4, <2>1, <2>3 DEF Phase
    <3>3. RampFitsAt(a)' /\ HaltHeldAt(a)'
      BY <1>1, <2>1, <2>3, <3>1
    <3>4. QED
      BY <3>2, <3>3
  <2>4. QED
    BY <1>7, <2>2, <2>3 DEF RunPulse
<1>8. ASSUME DecelPulse(a) PROVE MoveSound(a)'
  <2>1. /\ phase[a] = "decel" /\ remain[a] > 1
        /\ 1 <= decelLeft[a] /\ decelLeft[a] <= remain[a] /\ decelLeft[a] <= rampN[a]
        /\ mot[a] # "halting" => decelLeft[a] = remain[a]
    BY <1>1, <1>8 DEF DecelPulse
  <2>2. CASE decelLeft[a] # 1 /\ GoOn(a, "decel", decelLeft[a] - 1) /\ UNCHANGED rampN
    <3>1. /\ remain'[a] = remain[a] - 1 /\ phase'[a] = "decel" /\ haltReq'[a] = FALSE
          /\ decelLeft'[a] = decelLeft[a] - 1
          /\ mot'[a] = IF mot[a] = "halting" THEN mot[a] ELSE "decel"
      BY <2>2 DEF GoOn, MotionOf
    <3>2. Busy(a)' /\ OnTrackAt(a)'
      BY <1>1, <1>4, <2>1, <2>2 DEF Phase
    <3>3. RampFitsAt(a)' /\ HaltHeldAt(a)'
      BY <1>1, <2>1, <2>2, <3>1
    <3>4. QED
      BY <3>2, <3>3
  <2>3. QED
    BY <1>3, <1>8, <2>2 DEF DecelPulse
<1>9. QED
  BY <1>5, <1>6, <1>7, <1>8 DEF StepPulse

LEMMA MoveSoundNext ==
  ASSUME TypeOK, OneAxisMoves, \A a \in Axes : MoveSound(a), [Next]_vars
  PROVE  \A a \in Axes : MoveSound(a)'
<1> SUFFICES ASSUME NEW b \in Axes PROVE MoveSound(b)'
    OBVIOUS
<1>1. ASSUME NEW a \in Axes, NEW t \in Targets, NEW l \in Leads, MoveTo(a, t, l)
      PROVE  MoveSound(b)'
  <2>1. CASE b = a
    BY <1>1, <2>1, MoveToSound
  <2>2. CASE b # a
    <3>1. UNCHANGED MoveAt(b)
      BY <1>1, <2>2 DEF MoveTo, MoveAt, TypeOK
    <3>2. QED
      BY <3>1, MoveSoundKept
  <2>3. QED
    BY <2>1, <2>2
<1>2. ASSUME NEW a \in Axes, Halt(a) \/ StopNow(a) PROVE MoveSound(b)'
  <2>1. CASE b = a
    BY <1>2, <2>1, HaltSound
  <2>2. CASE b # a
    <3>1. UNCHANGED MoveAt(b)
      BY <1>2, <2>2 DEF Halt, StopNow, Stand, MoveAt, TypeOK
    <3>2. QED
      BY <3>1, MoveSoundKept
  <2>3. QED
    BY <2>1, <2>2
<1>3. ASSUME NEW a \in Axes, NEW p \in Targets, SetPosition(a, p) PROVE MoveSound(b)'
  <2>1. CASE b = a
    BY <1>3, <2>1 DEF SetPosition, rampVars, MoveSound, Busy, HaltHeldAt
  <2>2. CASE b # a
    <3>1. UNCHANGED MoveAt(b)
      BY <1>3, <2>2 DEF SetPosition, rampVars, MoveAt, TypeOK
    <3>2. QED
      BY <3>1, MoveSoundKept
  <2>3. QED
    BY <2>1, <2>2
<1>4. ASSUME NEW a \in Axes, StepPulse(a) PROVE MoveSound(b)'
  <2>1. CASE b = a
    BY <1>4, <2>1, PulseSound
  <2>2. CASE b # a
    <3>1. UNCHANGED <<pos[b], lead[b], tgt[b], dirStep[b], total[b]>>
      BY <1>4, <2>2 DEF StepPulse, Pulse, TypeOK
    <3>2. UNCHANGED <<remain[b], mot[b], phase[b], rampN[b], decelLeft[b], haltReq[b]>>
      BY <1>4, <2>2 DEF StepPulse, LastPulse, AccelPulse, RunPulse, DecelPulse, Finish, Stand, GoOn, TypeOK
    <3>3. QED
      BY <3>1, <3>2, MoveSoundKept DEF MoveAt
  <2>3. QED
    BY <2>1, <2>2
<1>5. CASE UNCHANGED <<pos, tgt, dirStep, lead, total, remain, mot, phase, rampN, decelLeft, haltReq>>
  BY <1>5, MoveSoundKept DEF MoveAt
<1>6. QED
  BY <1>1, <1>2, <1>3, <1>4, <1>5
     DEF Next, MainLoop, Isr, Update, JustStopped, SetIdleOff, SettleTick, Tick,
         moveVars, rampVars, vars

-----------------------------------------------------------------------------
\* Driver power and the idle-off clock.
LEMMA PowerNext ==
  ASSUME TypeOK, OneAxisMoves, PoweredWhileMoving, IdleClock, [Next]_vars
  PROVE  PoweredWhileMoving' /\ IdleClock'
<1> USE TickAssumption DEF TypeOK, PoweredWhileMoving, IdleClock, IdleClockAt, Busy
<1>1. ASSUME NEW a \in Axes, NEW t \in Targets, NEW l \in Leads, MoveTo(a, t, l)
      PROVE  PoweredWhileMoving' /\ IdleClock'
  BY <1>1 DEF MoveTo, AnyBusy
<1>2. ASSUME NEW a \in Axes, Stand(a), UNCHANGED <<enabled, wasBusy, stopAge>>, Busy(a)
      PROVE  PoweredWhileMoving' /\ IdleClock'
  <2>1. ASSUME NEW b \in Axes, active' = b PROVE enabled'[b]
    BY <1>2, <2>1, AxesAssumption DEF Stand
  <2>2. ASSUME NEW b \in Axes
        PROVE  IdleClockAt(b)'
    <3>1. CASE b = a
      BY <1>2, <3>1
    <3>2. CASE b # a
      <4>1. mot'[b] = mot[b] /\ restAge'[b] = restAge[b]
        BY <1>2, <3>2 DEF Stand
      <4>2. QED
        BY <1>2, <4>1
    <3>3. QED
      BY <3>1, <3>2
  <2>3. QED
    BY <2>1, <2>2
<1>3. ASSUME NEW a \in Axes, Busy(a)', Busy(a),
             \A b \in Axes : Busy(b)' <=> Busy(b), UNCHANGED <<active, enabled, wasBusy, stopAge, restAge>>
      PROVE  PoweredWhileMoving' /\ IdleClock'
  BY <1>3
<1>4. ASSUME NEW a \in Axes, Halt(a) PROVE PoweredWhileMoving' /\ IdleClock'
  <2>1. CASE Stand(a)
    BY <1>2, <1>4, <2>1 DEF Halt
  <2>2. CASE mot' = [mot EXCEPT ![a] = "halting"] /\ UNCHANGED <<active, restAge>>
    BY <1>4, <2>2 DEF Halt
  <2>3. QED
    BY <1>4, <2>1, <2>2 DEF Halt
<1>5. ASSUME NEW a \in Axes, StopNow(a) PROVE PoweredWhileMoving' /\ IdleClock'
  BY <1>2, <1>5 DEF StopNow
<1>6. ASSUME NEW a \in Axes, Update(a) PROVE PoweredWhileMoving' /\ IdleClock'
  <2>1. ASSUME NEW b \in Axes, active' = b PROVE enabled'[b]
    BY <1>6, <2>1 DEF Update, AgeSeen, PowerAt, moveVars, OneAxisMoves
  <2>2. ASSUME NEW b \in Axes
        PROVE  IdleClockAt(b)'
    <3>1. mot' = mot /\ restAge' = restAge
      BY <1>6 DEF Update, AgeSeen, PowerAt, moveVars
    <3>2. CASE b = a
      <4>1. CASE Busy(b)
        BY <1>6, <3>1, <3>2, <4>1 DEF Update, AgeSeen, PowerAt
      <4>2. CASE ~Busy(b) /\ wasBusy[b]
        <5>1. stopAge'[b] = 0 /\ restAge'[b] \in Nat
          BY <1>6, <3>1, <3>2, <4>2 DEF Update, AgeSeen, PowerAt
        <5>2. QED
          BY <3>1, <4>2, <5>1
      <4>3. CASE ~Busy(b) /\ ~wasBusy[b]
        <5>1. stopAge'[b] = stopAge[b]
          BY <1>6, <3>2, <4>3 DEF Update, AgeSeen, PowerAt
        <5>2. QED
          BY <3>1, <4>3, <5>1
      <4>4. QED
        BY <4>1, <4>2, <4>3
    <3>3. CASE b # a
      <4>1. wasBusy'[b] = wasBusy[b] /\ stopAge'[b] = stopAge[b]
        BY <1>6, <3>3 DEF Update, AgeSeen, PowerAt
      <4>2. QED
        BY <3>1, <4>1
    <3>4. QED
      BY <3>2, <3>3
  <2>3. QED
    BY <2>1, <2>2
<1>7. ASSUME NEW a \in Axes, StepPulse(a) PROVE PoweredWhileMoving' /\ IdleClock'
  <2>1. Busy(a) /\ UNCHANGED <<enabled, wasBusy, stopAge>>
    BY <1>7 DEF StepPulse, Pulse, OneAxisMoves
  <2>2. CASE Finish(a)
    BY <1>2, <2>1, <2>2 DEF Finish
  <2>3. ASSUME NEW ph \in Phase, NEW k, GoOn(a, ph, k) PROVE PoweredWhileMoving' /\ IdleClock'
    <3>1. mot'[a] # "idle" /\ \A b \in Axes : b # a => mot'[b] = mot[b]
      BY <2>1, <2>3 DEF GoOn, MotionOf, Phase
    <3>2. QED
      BY <1>3, <2>1, <2>3, <3>1 DEF GoOn
  <2>4. QED
    BY <1>7, <2>2, <2>3 DEF StepPulse, LastPulse, AccelPulse, RunPulse, DecelPulse, Phase
<1>8. CASE Tick
  <2>1. ASSUME NEW b \in Axes
        PROVE  IdleClockAt(b)'
    <3>1. mot' = mot /\ wasBusy' = wasBusy
      BY <1>8 DEF Tick, moveVars
    <3>2. CASE ~wasBusy[b]
      <4>1. /\ ~Busy(b) /\ stopAge[b] <= restAge[b]
            /\ stopAge[b] \in 0..IdleTicks /\ restAge[b] \in 0..IdleTicks
        BY <3>2
      <4>2. /\ stopAge'[b] = IF stopAge[b] < IdleTicks THEN stopAge[b] + 1 ELSE stopAge[b]
            /\ restAge'[b] = IF restAge[b] < IdleTicks THEN restAge[b] + 1 ELSE restAge[b]
        BY <1>8, <4>1 DEF Tick
      <4>3. stopAge'[b] <= restAge'[b]
        BY <4>1, <4>2
      <4>4. QED
        BY <3>1, <4>1, <4>3
    <3>3. QED
      BY <3>1, <3>2
  <2>2. QED
    BY <1>8, <2>1 DEF Tick, moveVars
<1>9. CASE UNCHANGED <<mot, active, enabled, wasBusy, stopAge, restAge>>
  BY <1>9
<1>10. QED
  BY <1>1, <1>4, <1>5, <1>6, <1>7, <1>8, <1>9
     DEF Next, MainLoop, Isr, SetPosition, JustStopped, SetIdleOff, SettleTick,
         moveVars, powerVars, vars

\* The inductive invariant, and with it the safety invariants the runs check.
THEOREM InvCorrect == Spec => []IInv
<1>1. Init => IInv
  BY TypeInit, InvInit DEF IInv
<1>2. IInv /\ [Next]_vars => IInv'
  <2> SUFFICES ASSUME IInv, [Next]_vars PROVE IInv'
      OBVIOUS
  <2>1. TypeOK' /\ OneAxisMoves'
    BY TypeNext, OneAxisNext DEF IInv
  <2>2. \A a \in Axes : MoveSound(a)
    BY DEF IInv, MoveSound, OnTrack, RampFits, HaltHeld
  <2>3. \A a \in Axes : MoveSound(a)'
    BY <2>2, MoveSoundNext DEF IInv
  <2>4. OnTrack' /\ RampFits' /\ HaltHeld'
    BY <2>3 DEF MoveSound, OnTrack, RampFits, HaltHeld
  <2>5. QED
    BY <2>1, <2>4, PowerNext DEF IInv
<1>3. QED
  BY <1>1, <1>2, PTL DEF Spec

\* Type correctness of the axes.
THEOREM TypeCorrect == Spec => []TypeOK
<1>1. IInv => TypeOK
  BY DEF IInv
<1>2. QED
  BY <1>1, InvCorrect, PTL

\* The step timer serves exactly the axis that is in motion, so that never two move (axis.cpp, step_timer.cpp).
THEOREM OneAxisCorrect == Spec => []OneAxisMoves
<1>1. IInv => OneAxisMoves
  BY DEF IInv
<1>2. QED
  BY <1>1, InvCorrect, PTL

\* No step is lost or counted twice on the way to the target (axis.cpp isrStep).
THEOREM OnTrackCorrect == Spec => []OnTrack
<1>1. IInv => OnTrack
  BY DEF IInv
<1>2. QED
  BY <1>1, InvCorrect, PTL

\* Room for every ramp, no halt forgotten, power while moving, an idle-off clock that never runs ahead.
THEOREM RampsCorrect == Spec => /\ []RampFits /\ []HaltHeld /\ []PoweredWhileMoving /\ []IdleClock
<1>1. IInv => RampFits /\ HaltHeld /\ PoweredWhileMoving /\ IdleClock
  BY DEF IInv
<1>2. QED
  BY <1>1, InvCorrect, PTL

-----------------------------------------------------------------------------
(***************************************************************************)
(* Action properties.                                                      *)
(***************************************************************************)
\* Which steps end a move from the interrupt, and in which state they find it.
LEMMA IsrEnds ==
  ASSUME IInv, Isr, NEW a \in Axes, Busy(a), mot'[a] = "idle"
  PROVE  StepPulse(a) /\ (remain[a] = 1 \/ (phase[a] = "decel" /\ decelLeft[a] = 1))
<1>1. PICK b \in Axes : SettleTick(b) \/ StepPulse(b)
  BY DEF Isr
<1>2. active = b
  BY <1>1 DEF SettleTick, StepPulse, Pulse
<1>3. b = a
  BY <1>2 DEF IInv, OneAxisMoves
<1>4. StepPulse(a)
  BY <1>1, <1>3 DEF SettleTick, moveVars, Busy
<1>5. ASSUME NEW ph \in Phase, NEW k PROVE ~GoOn(a, ph, k)
  BY DEF GoOn, MotionOf, Phase, Busy, IInv, TypeOK
<1>6. QED
  BY <1>4, <1>5 DEF StepPulse, LastPulse, AccelPulse, RunPulse, DecelPulse, Phase

\* A move that was not halted ends by interrupt exactly at its target, take-up included.
THEOREM ExactEndCorrect == Spec => ExactEnd
<1> DEFINE Exact == Isr => \A a \in Axes :
             Busy(a) /\ mot[a] # "halting" /\ mot'[a] = "idle" => pos'[a] = tgt[a] /\ lead'[a] = 0
<1>1. IInv /\ [Next]_vars => [Exact]_vars
  <2> SUFFICES ASSUME IInv, Isr, NEW a \in Axes, Busy(a), mot[a] # "halting", mot'[a] = "idle"
               PROVE  pos'[a] = tgt[a] /\ lead'[a] = 0
      OBVIOUS
  <2>1. StepPulse(a) /\ remain[a] = 1
    BY IsrEnds DEF IInv, RampFits, RampFitsAt
  <2>2. /\ lead[a] \in Nat /\ pos[a] \in Int /\ tgt[a] \in Int /\ dirStep[a] \in {1, -1}
        /\ lead[a] <= 1
        /\ tgt[a] - pos[a] = IF dirStep[a] = 1 THEN 1 - lead[a] ELSE lead[a] - 1
    BY <2>1 DEF IInv, TypeOK, OnTrack, OnTrackAt
  <2>3. \/ lead[a] > 0 /\ lead'[a] = lead[a] - 1 /\ pos'[a] = pos[a]
        \/ lead[a] = 0 /\ lead'[a] = 0 /\ pos'[a] = pos[a] + dirStep[a]
    BY <2>1 DEF StepPulse, Pulse, IInv, TypeOK
  <2>4. QED
    BY <2>2, <2>3
<1>2. QED
  BY <1>1, InvCorrect, PTL DEF Spec, ExactEnd

\* While accelerating, every step made so far is a step of the ramp.
RampCountedAt(a) == Busy(a) /\ phase[a] = "accel" => total[a] = remain[a] + rampN[a]
RampCounted == \A a \in Axes : RampCountedAt(a)

LEMMA RampCountedPulse ==
  ASSUME IInv, NEW a \in Axes, RampCountedAt(a), StepPulse(a)
  PROVE  RampCountedAt(a)'
<1>1. /\ Busy(a) /\ RampFitsAt(a) /\ total'[a] = total[a] /\ mot[a] \in Motion
      /\ remain[a] \in Nat /\ rampN[a] \in Nat /\ total[a] \in Nat
  BY DEF StepPulse, Pulse, IInv, TypeOK, OneAxisMoves, RampFits
<1>2. CASE Finish(a)
  BY <1>2 DEF Finish, Stand, RampCountedAt, Busy, IInv, TypeOK
<1>3. CASE AccelPulse(a) /\ phase'[a] = "accel"
  <2>1. rampN'[a] = rampN[a] + 1 /\ remain'[a] = remain[a] - 1 /\ phase[a] = "accel"
    BY <1>3 DEF AccelPulse, GoOn, IInv, TypeOK
  <2>2. QED
    BY <1>1, <2>1 DEF RampCountedAt
<1>4. CASE phase'[a] # "accel"
  BY <1>4 DEF RampCountedAt
<1>5. QED
  BY <1>2, <1>3, <1>4 DEF StepPulse, LastPulse, RunPulse, DecelPulse, GoOn, IInv, TypeOK

LEMMA RampCountedNext == IInv /\ RampCounted /\ [Next]_vars => RampCounted'
<1> SUFFICES ASSUME IInv, RampCounted, [Next]_vars, NEW b \in Axes PROVE RampCountedAt(b)'
    BY DEF RampCounted
<1> USE DEF RampCounted, RampCountedAt, Busy
<1>1. ASSUME NEW a \in Axes, NEW t \in Targets, NEW l \in Leads, MoveTo(a, t, l)
      PROVE  RampCountedAt(b)'
  <2>1. CASE b = a
    <3>1. remain'[a] = total'[a] /\ rampN'[a] = 0
      BY <1>1 DEF MoveTo, IInv, TypeOK
    <3>2. total'[a] \in Nat
      BY TypeNext DEF IInv, TypeOK
    <3>3. QED
      BY <2>1, <3>1, <3>2
  <2>2. CASE b # a
    BY <1>1, <2>2 DEF MoveTo, IInv, TypeOK
  <2>3. QED
    BY <2>1, <2>2
<1>2. ASSUME NEW a \in Axes, Halt(a) \/ StopNow(a) PROVE RampCountedAt(b)'
  BY <1>2 DEF Halt, StopNow, Stand, IInv, TypeOK
<1>3. ASSUME NEW a \in Axes, StepPulse(a) PROVE RampCountedAt(b)'
  <2>1. CASE b = a
    BY <1>3, <2>1, RampCountedPulse
  <2>2. CASE b # a
    BY <1>3, <2>2
       DEF StepPulse, LastPulse, AccelPulse, RunPulse, DecelPulse, Finish, Stand, GoOn, IInv, TypeOK
  <2>3. QED
    BY <2>1, <2>2
<1>4. CASE UNCHANGED <<mot, phase, total, remain, rampN>>
  BY <1>4
<1>5. QED
  BY <1>1, <1>2, <1>3, <1>4
     DEF Next, MainLoop, Isr, Update, SetPosition, JustStopped, SetIdleOff, SettleTick, Tick,
         moveVars, rampVars, vars

\* The interrupt never stops a motor at speed: a move ends from the last deceleration step only, or
\* after its single step, and a deceleration is at most one step shorter than the ramp up.
THEOREM SoftStopCorrect == Spec => SoftStop
<1> DEFINE Soft == Isr => \A a \in Axes :
             /\ Busy(a) /\ mot'[a] = "idle" => total[a] = 1 \/ (phase[a] = "decel" /\ decelLeft[a] = 1)
             /\ phase[a] # "decel" /\ phase'[a] = "decel" => decelLeft'[a] >= rampN'[a] - 1
<1>1. IInv /\ RampCounted /\ [Next]_vars => [Soft]_vars
  <2> SUFFICES ASSUME IInv, RampCounted, Isr, NEW a \in Axes
      PROVE  /\ Busy(a) /\ mot'[a] = "idle" => total[a] = 1 \/ (phase[a] = "decel" /\ decelLeft[a] = 1)
             /\ phase[a] # "decel" /\ phase'[a] = "decel" => decelLeft'[a] >= rampN'[a] - 1
      OBVIOUS
  <2>1. Busy(a) /\ mot'[a] = "idle" => total[a] = 1 \/ (phase[a] = "decel" /\ decelLeft[a] = 1)
    <3> SUFFICES ASSUME Busy(a), mot'[a] = "idle", ~(phase[a] = "decel" /\ decelLeft[a] = 1)
                 PROVE  total[a] = 1
        OBVIOUS
    <3>1. remain[a] = 1
      BY IsrEnds
    <3>2. RampFitsAt(a) /\ RampCountedAt(a) /\ phase[a] \in Phase
          /\ rampN[a] \in Nat /\ decelLeft[a] \in Nat /\ remain[a] \in Nat
      BY DEF IInv, RampFits, RampCounted, TypeOK
    <3>3. phase[a] = "accel" /\ rampN[a] = 0
      BY <3>1, <3>2 DEF RampFitsAt, Phase
    <3>4. QED
      BY <3>1, <3>2, <3>3 DEF RampCountedAt
  <2>2. phase[a] # "decel" /\ phase'[a] = "decel" => decelLeft'[a] >= rampN'[a] - 1
    <3> SUFFICES ASSUME phase[a] # "decel", phase'[a] = "decel" PROVE decelLeft'[a] >= rampN'[a] - 1
        OBVIOUS
    <3>1. PICK b \in Axes : SettleTick(b) \/ StepPulse(b)
      BY DEF Isr
    <3>2. b = a /\ StepPulse(a)
      BY <3>1 DEF SettleTick, StepPulse, LastPulse, AccelPulse, RunPulse, DecelPulse, Finish, GoOn, IInv, TypeOK
    <3>3. /\ RampFitsAt(a) /\ rampN[a] \in Nat /\ remain[a] \in Nat
      BY <3>2 DEF IInv, RampFits, TypeOK, OneAxisMoves, StepPulse, Pulse
    <3>4. CASE AccelPulse(a)
      <4>1. decelLeft'[a] = DecelSteps(remain[a] - 1, rampN[a] + 1) /\ rampN'[a] = rampN[a] + 1
        BY <3>4 DEF AccelPulse, GoOn, IInv, TypeOK
      <4>2. QED
        BY <3>3, <4>1 DEF DecelSteps, RampFitsAt
    <3>5. CASE RunPulse(a)
      <4>1. decelLeft'[a] = DecelSteps(remain[a] - 1, rampN[a]) /\ rampN'[a] = rampN[a]
        BY <3>5 DEF RunPulse, GoOn, IInv, TypeOK
      <4>2. QED
        BY <3>3, <4>1 DEF DecelSteps, RampFitsAt
    <3>6. QED
      BY <3>2, <3>4, <3>5 DEF StepPulse, LastPulse, DecelPulse, Finish, IInv, TypeOK
  <2>3. QED
    BY <2>1, <2>2
<1>2. Init => RampCounted
  BY DEF Init, RampCounted, RampCountedAt, Busy
<1>3. Spec => []RampCounted
  BY <1>2, RampCountedNext, InvCorrect, PTL DEF Spec
<1>4. QED
  BY <1>1, <1>3, InvCorrect, PTL DEF Spec, SoftStop

\* The driver goes off only after the motor has stood for the idle-off time.
THEOREM IdleOffCorrect == Spec => IdleOffWaits
<1> DEFINE Waits == \A a \in Axes : enabled[a] /\ ~enabled'[a] => ~Busy(a) /\ restAge[a] = IdleTicks
<1>1. IInv /\ [Next]_vars => [Waits]_vars
  <2> SUFFICES ASSUME IInv, Next, NEW b \in Axes, enabled[b], ~enabled'[b]
               PROVE  ~Busy(b) /\ restAge[b] = IdleTicks
      BY DEF vars
  <2>1. ~UNCHANGED enabled
    OBVIOUS
  <2>2. ASSUME NEW a \in Axes, NEW t \in Targets, NEW l \in Leads, MoveTo(a, t, l) PROVE FALSE
    BY <2>2 DEF MoveTo, IInv, TypeOK
  <2>3. PICK a \in Axes : Update(a)
    BY <2>1, <2>2 DEF Next, MainLoop, Isr, Halt, StopNow, SetPosition, JustStopped, SetIdleOff,
                      SettleTick, StepPulse, Tick, powerVars
  <2>4. b = a
    BY <2>3 DEF Update, AgeSeen, PowerAt, IInv, TypeOK
  <2>5. ~Busy(b) /\ ~((IF wasBusy[b] THEN 0 ELSE stopAge[b]) < IdleTicks)
    BY <2>3, <2>4 DEF Update, AgeSeen, PowerAt, IInv, TypeOK
  <2>6. ~wasBusy[b] /\ stopAge[b] \in 0..IdleTicks /\ restAge[b] \in 0..IdleTicks
    BY <2>5, TickAssumption DEF IInv, TypeOK
  <2>7. stopAge[b] <= restAge[b]
    BY <2>6 DEF IInv, IdleClock, IdleClockAt
  <2>8. QED
    BY <2>5, <2>6, <2>7, TickAssumption
<1>2. QED
  BY <1>1, InvCorrect, PTL DEF Spec, IdleOffWaits

-----------------------------------------------------------------------------
(***************************************************************************)
(* Axis implements AxisContract.                                           *)
(***************************************************************************)
Mode == [a \in Axes |-> IF mot[a] = "idle" THEN "idle"
                        ELSE IF mot[a] = "halting" THEN "halting" ELSE "moving"]

\* The arithmetic of one step: the last of r steps is the one that reaches the target t.
LEMMA LastStepForward ==
  ASSUME NEW p \in Int, NEW t \in Int, NEW l \in Nat, NEW r \in Nat, l <= r, r >= 1, t - p = r - l
  PROVE  /\ l > 0 => (l - 1 = 0 /\ p = t <=> r = 1)
         /\ l = 0 => (p + 1 = t <=> r = 1) /\ p < t
  OBVIOUS

LEMMA LastStepBackward ==
  ASSUME NEW p \in Int, NEW t \in Int, NEW l \in Nat, NEW r \in Nat, l <= r, r >= 1, t - p = l - r
  PROVE  /\ l > 0 => (l - 1 = 0 /\ p = t <=> r = 1)
         /\ l = 0 => (p + (-1) = t <=> r = 1) /\ p > t
  OBVIOUS

LEMMA PulseKeepsContract ==
  ASSUME IInv, IInv', NEW a \in Axes, StepPulse(a)
  PROVE  Promise!Step(a)
<1>1. /\ active = a /\ Busy(a) /\ OnTrackAt(a) /\ RampFitsAt(a)
      /\ lead[a] \in Nat /\ remain[a] \in Nat /\ pos[a] \in Int /\ tgt[a] \in Int /\ dirStep[a] \in {1, -1}
  BY DEF IInv, TypeOK, StepPulse, Pulse, OneAxisMoves, OnTrack, RampFits
<1>2. /\ UNCHANGED tgt
      /\ \/ lead[a] > 0 /\ lead' = [lead EXCEPT ![a] = @ - 1] /\ UNCHANGED pos
         \/ lead[a] = 0 /\ UNCHANGED lead /\ pos' = [pos EXCEPT ![a] = @ + dirStep[a]]
  BY DEF StepPulse, Pulse
<1>3. /\ lead[a] > 0 => (lead[a] - 1 = 0 /\ pos[a] = tgt[a] <=> remain[a] = 1)
      /\ lead[a] = 0 => (pos[a] + dirStep[a] = tgt[a] <=> remain[a] = 1)
      /\ lead[a] = 0 => \/ dirStep[a] = 1 /\ pos[a] < tgt[a]
                        \/ dirStep[a] = -1 /\ pos[a] > tgt[a]
  <2>1. remain[a] >= 1 /\ lead[a] <= remain[a]
    BY <1>1 DEF OnTrackAt
  <2>2. CASE dirStep[a] = 1
    <3>1. tgt[a] - pos[a] = remain[a] - lead[a]
      BY <1>1, <2>2 DEF OnTrackAt
    <3>2. QED
      BY <1>1, <2>1, <2>2, <3>1, LastStepForward
  <2>3. CASE dirStep[a] = -1
    <3>1. tgt[a] - pos[a] = lead[a] - remain[a]
      BY <1>1, <2>3 DEF OnTrackAt
    <3>2. QED
      BY <1>1, <2>1, <2>3, <3>1, LastStepBackward
  <2>4. QED
    BY <1>1, <2>2, <2>3
<1> USE DEF IInv, TypeOK
<1>4. \/ lead[a] > 0 /\ lead' = [lead EXCEPT ![a] = @ - 1] /\ UNCHANGED pos
      \/ /\ lead[a] = 0 /\ UNCHANGED lead
         /\ \/ pos[a] < tgt[a] /\ pos' = [pos EXCEPT ![a] = @ + 1]
            \/ pos[a] > tgt[a] /\ pos' = [pos EXCEPT ![a] = @ - 1]
  BY <1>1, <1>2, <1>3
<1>5. ASSUME Finish(a)
      PROVE  /\ mot'[a] = "idle" /\ Mode' = [Mode EXCEPT ![a] = "idle"]
             /\ stoppedFlag' = [stoppedFlag EXCEPT ![a] = TRUE]
  BY <1>5 DEF Finish, Stand, Mode
<1>6. ASSUME ~Finish(a)
      PROVE  mot'[a] # "idle" /\ UNCHANGED <<Mode, stoppedFlag>>
  <2>1. PICK ph \in Phase, k \in Int : GoOn(a, ph, k)
    BY <1>6 DEF StepPulse, LastPulse, AccelPulse, RunPulse, DecelPulse, Phase, DecelSteps
  <2>2. MotionOf(ph) \in {"accel", "cruise", "decel"}
    BY DEF MotionOf, Phase
  <2>3. QED
    BY <1>1, <2>1, <2>2 DEF GoOn, Mode, Busy
<1>7. lead'[a] = 0 /\ pos'[a] = tgt[a] <=> remain[a] = 1
  <2>1. CASE lead[a] > 0
    <3>1. lead'[a] = lead[a] - 1 /\ pos'[a] = pos[a]
      BY <1>2, <2>1
    <3>2. QED
      BY <1>3, <2>1, <3>1
  <2>2. CASE lead[a] = 0
    <3>1. lead'[a] = 0 /\ pos'[a] = pos[a] + dirStep[a]
      BY <1>1, <1>2, <2>2
    <3>2. QED
      BY <1>3, <2>2, <3>1
  <2>3. QED
    BY <1>1, <2>1, <2>2
<1>8. Mode[a] # "idle" /\ (mot[a] = "halting" => Mode[a] = "halting")
  BY <1>1 DEF Mode, Busy
<1>9. CASE Finish(a)
  <2>1. remain[a] = 1 \/ mot[a] = "halting"
    BY <1>1, <1>9, IsrEnds, <1>5 DEF Isr, RampFitsAt
  <2>2. \/ (lead'[a] = 0 /\ pos'[a] = tgt[a]) /\ Promise!End(a)
        \/ (lead'[a] # 0 \/ pos'[a] # tgt[a]) /\ Mode[a] = "halting" /\ Promise!End(a)
    BY <1>5, <1>7, <1>8, <1>9, <2>1 DEF Promise!End, Mode
  <2>3. QED
    BY <1>2, <1>4, <1>8, <2>2 DEF Promise!Step, Mode
<1>10. CASE ~Finish(a)
  <2>1. remain[a] # 1
    BY <1>6, <1>10 DEF StepPulse, LastPulse, AccelPulse, RunPulse, DecelPulse
  <2>2. lead'[a] # 0 \/ pos'[a] # tgt[a]
    BY <1>7, <2>1
  <2>3. QED
    BY <1>2, <1>4, <1>6, <1>8, <1>10, <2>2 DEF Promise!Step, Mode
<1>11. QED
  BY <1>9, <1>10

LEMMA StepKeepsContract ==
  ASSUME IInv, IInv', [Next]_vars
  PROVE  [Promise!ContractNext]_(Promise!contractVars)
<1> USE DEF IInv, TypeOK
<1>1. ASSUME NEW a \in Axes, NEW t \in Targets, NEW l \in Leads, MoveTo(a, t, l)
      PROVE  Promise!Start(a, t, l)
  <2>1. t \in Int /\ l \in Nat /\ pos[a] \in Int
    BY MoveAssumption
  <2>2. t # pos[a] \/ l > 0
    BY <1>1, <2>1 DEF MoveTo
  <2>3. \A b \in Axes : Mode[b] = "idle"
    BY <1>1 DEF MoveTo, AnyBusy, Busy, Mode
  <2>4. Mode' = [Mode EXCEPT ![a] = "moving"]
    BY <1>1 DEF MoveTo, Mode
  <2>5. QED
    BY <1>1, <2>2, <2>3, <2>4 DEF MoveTo, Promise!Start, Promise!AllIdle, Mode
<1>2. ASSUME NEW a \in Axes, Halt(a) PROVE Promise!RequestHalt(a)
  <2>1. Mode[a] = "moving"
    BY <1>2 DEF Halt, Mode
  <2>2. CASE Stand(a)
    <3>1. Mode' = [Mode EXCEPT ![a] = "idle"]
      BY <2>2 DEF Stand, Mode
    <3>2. QED
      BY <1>2, <2>1, <2>2, <3>1 DEF Halt, Stand, Promise!RequestHalt, Promise!End, Mode
  <2>3. CASE mot' = [mot EXCEPT ![a] = "halting"] /\ UNCHANGED stoppedFlag
    <3>1. Mode' = [Mode EXCEPT ![a] = "halting"]
      BY <2>3 DEF Mode
    <3>2. QED
      BY <1>2, <2>1, <2>3, <3>1 DEF Halt, Promise!RequestHalt, Mode
  <2>4. QED
    BY <1>2, <2>2, <2>3 DEF Halt
<1>3. ASSUME NEW a \in Axes, StopNow(a) PROVE Promise!StopAtOnce(a)
  <2>1. Mode[a] # "idle" /\ Mode' = [Mode EXCEPT ![a] = "idle"]
    BY <1>3 DEF StopNow, Stand, Mode, Busy
  <2>2. QED
    BY <1>3, <2>1 DEF StopNow, Stand, Promise!StopAtOnce, Promise!End, Mode
<1>4. ASSUME NEW a \in Axes, NEW p \in Targets, SetPosition(a, p) PROVE Promise!Place(a, p)
  BY <1>4 DEF SetPosition, Promise!Place, Mode, Busy
<1>5. ASSUME NEW a \in Axes, JustStopped(a) PROVE Promise!Report(a)
  BY <1>5 DEF JustStopped, Promise!Report, Mode
<1>6. ASSUME NEW a \in Axes, StepPulse(a) PROVE Promise!Motor
  BY <1>6, PulseKeepsContract DEF Promise!Motor
<1>7. CASE UNCHANGED <<pos, tgt, lead, mot, stoppedFlag>>
  BY <1>7 DEF Promise!contractVars, Mode
<1>8. QED
  BY <1>1, <1>2, <1>3, <1>4, <1>5, <1>6, <1>7
     DEF Next, MainLoop, Isr, Update, SetIdleOff, SettleTick, Tick, moveVars, vars,
         Promise!ContractNext

\* Seen without ramps, timer and drivers, every behaviour of the axes is one the contract allows.
THEOREM ImplementsContract == Spec => Promise!ContractSafety
<1>1. Init => Promise!ContractInit
  BY DEF Init, Promise!ContractInit
<1>2. IInv /\ IInv' /\ [Next]_vars => [Promise!ContractNext]_(Promise!contractVars)
  BY StepKeepsContract
<1>3. QED
  BY <1>1, <1>2, InvCorrect, PTL DEF Spec, Promise!ContractSafety
=============================================================================
