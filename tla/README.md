# Formal models of AstroUniBoard

TLA+ models, model-checking runs and proofs for the AstroUniBoard focuser and
rotator controller: the firmware in `fw/src` and the Windows driver in
`driver/ASCOM`.  Paths below are relative to the repository root.

## 1. Inventory

| Component | Source | State | Operations | Talks to |
|---|---|---|---|---|
| axis, step timer | `fw/src/axis.cpp`, `step_timer.cpp` | position, target, ramp, busy/halting, stop event, driver power, timer owner | moveTo, halt, stopNow, update, setPosition, justStopped, interrupt | called by focuser, rotator, tmc; interrupt runs between any two statements |
| focuser | `focuser.cpp` | last direction, running direction, unverified, pending save | begin, update, move, halt, sync, rescale | axis, position store, settings, tmc |
| rotator | `rotator.cpp`, `rotator_calc.cpp`, `rotator_wrap.cpp` | exact angle, running move, halt flag, suspect/unverified, home and calibration sequences, pending save, boot home | begin, update, moves, halt, sync, IMU home, IMU calibration | axis, IMU, position store, settings |
| move guard | `move_guard.cpp` | none (pure) | moveGuard | focuser, rotator |
| position store | `nv_store.cpp` | RAM copy, ring of EEPROM slots, write cycle, fault bits, settings and IMU records | mark moving, save position, update, boot scan, record load and save | I2C EEPROM; focuser, rotator, settings |
| motor drivers | `tmc2209.cpp` | answering, StallGuard statistics, sampling times | apply, idle poll, move watch, fault stop | axes, focuser, rotator, status |
| protocol, identify gate | `protocol*.cpp` | line buffer, identified flag, port-opened flag | process, gate, dispatch, setters | everything; USB interrupt |
| settings | `settings.cpp`, `nv_store.cpp` | running values, their record in the EEPROM | set, save, load over the defaults | position store, every user of a setting |
| status | `status.cpp` | first sticky error, ready, safe mode | raise, clear, report | everything |
| environment sensors | `env_sht31.cpp` | measuring state, failures per sensor, power cycle | update | I2C bus shared with IMU and EEPROM |
| IMU | `imu_mpu6000.cpp` | answering, filter, calibration captures | update, restart of the filter, captures, finish | rotator, settings |
| housekeeping, diagnostics, LEDs, bootloader | `housekeeping.cpp`, `diag.cpp`, `leds.cpp`, `bootloader.cpp` | measurements, watchdog, brightness, DFU magic | update, feed, reboot | main loop |
| host board controller | `driver/ASCOM/AstroUniBoard.Core/BoardController.cs` | work queue, connection state, watchdog, cached status | submit, connect, disconnect, worker loop, reconnect, poll | driver objects (threads), transport |
| host transport, finder | `Transport.cs`, `DeviceFinder.cs`, `Protocol.cs` | serial port, line buffer | execute, identify | board controller |
| host server | `AstroUniBoard.Ascom/Server.cs`, `DeviceBase.cs`, `BoardActions.cs` | connection count, controller, per instance the connection and its task | acquire, release, connect, wait, EnterDfu | board controller, temperature compensation |
| temperature compensation | `TempCompensator.cs` | enabled, reference temperature | enable, tick, reset | board controller; a timer callback |

The firmware is one super-loop (`fw/src/main.cpp:74-101`): commands, axis and
focuser update, axis and rotator update, motor drivers, IMU, environment,
EEPROM, housekeeping, LEDs.  Two interrupts cut in: the step timer, which
steps the one axis that owns it, and the USB stack, which flags a newly opened
port.  Power may fail at any moment; the watchdog resets a stuck board into a
safe mode without I2C.

What is hard here: the step interrupt against the main loop; events (stop
flags) polled once per pass; state that must survive a power cut in a 5 ms
EEPROM write cycle; sequences (home, calibration) cut by halts, stalls and
faults; integer rounding between centidegrees and steps; on the host, one
worker thread against callers with timeouts, lost replies and reconnects.

What makes each part correct:

- **axis**: one motor in motion at a time, no step lost or counted twice, no stop at speed, no halt
  lost, every move ends and is reported once, the driver is not switched off too early.
- **position store**: a boot finds the last record that reached the chip, whole; what was marked "moving"
  stays so until its end is saved.
- **settings**: a boot takes a value that was saved, never a mixture; a lost record shows a fault.
- **sensors**: a settled angle comes from samples of a running chip; a sensor that hangs is brought back.
- **link**: a command is obeyed only for the program that identified; the driver reads its own answers.
- **focuser**: a position shown as verified is the real one; no step leaves the soft limits; backlash
  is taken up in the right direction; every planned save comes; safe mode only jogs.
- **rotator**: an angle not marked suspect is the real one; suspect stays until a sync or a good home;
  the cable-wrap range holds; home and calibration end, and set zero only at the IMU zero.
- **host server**: the connection count is the number of those who hold one; with the last one the port is
  let go; a board that is wanted is found again.
- **temperature compensation**: the focuser is told exactly the steps that the temperature stands for, and
  catches up with it.
- **host controller**: a call that reports success moved the board; a call that timed out never runs
  later; nobody waits for an answer that cannot come; halts overtake; the session stays with its
  board; a wanted connection comes back, an unwanted one lets the port go.

## 2. Modules

| Module | Models | Built on |
|---|---|---|
| `Axis` | `axis.cpp`, `step_timer.cpp`: main-loop calls, ramps, step interrupt, idle-off | |
| `AxisContract` | what `axis.h` promises, without ramps, timer and driver | |
| `PositionStore` | the position ring of `nv_store.cpp` and its EEPROM | |
| `DurableCell` | what `nv_store.h` promises about the record of positions | |
| `SettingsStore` | the settings and calibration records of `nv_store.cpp`, `settings.cpp`, their EEPROM | |
| `SensorBus` | `env_sht31.cpp`, the sampling of `imu_mpu6000.cpp`, the sensors | |
| `Focuser` | `focuser.cpp`, `protocol_focuser.cpp`, the focuser's part of `protocol_common.cpp` | `AxisContract`, `DurableCell` |
| `RotatorMath` | `rotator_wrap.cpp`, `rotator_calc.cpp`: conversions and planners, pure operators | |
| `Rotator` | `rotator.cpp`, `protocol_rotator.cpp` and what it uses of the IMU | `RotatorMath`, `AxisContract`, `DurableCell` |
| `HostController` | `BoardController.cs` with its use of `Transport.cs` and `DeviceFinder.cs`, and the boards it talks to | |
| `CommandLink` | the framing loop and gate of `protocol.cpp`; handshake and exchanges of `Transport.cs`, `DeviceFinder.cs`, `BoardController.cs` | |
| `TempCompensator` | `TempCompensator.cs` and what it sees of the board | |
| `DriverServer` | `Server.cs`, `DeviceBase.cs`, the setup dialog as a client, `EnterDfu` of `BoardActions.cs` | `TempCompensator` |
| `AxisProofs`, `FocuserProofs`, `RotatorMathProofs`, `RotatorProofs`, `CommandLinkProofs`, `HostControllerProofs`, `DriverServerProofs` | theorems about the module of that name, checked by TLAPS | the module |
| `I2cBusProofs` | theorems about `PositionStore`, `SettingsStore` and `SensorBus` | `MCI2cBus` |
| `MC*` | instances for TLC | |

The composition is by contract: `Axis` is shown to implement `AxisContract` and `PositionStore` to
implement `DurableCell`; `Focuser` and `Rotator` use the two small specifications through
`INSTANCE`, so their state space holds neither ramps nor ring slots.  `DriverServer` extends
`TempCompensator`: the server's first and last connection switch the compensation off, and its callback
submits moves to the controller the server owns.  `MCI2cBus` brings the three users of the I2C bus together;
`RecValues`, the values of each record, is a constant of it, so that the proofs are not bound to those of the run.

The runs check the type invariants `TypeOK` of `Axis`, `Rotator` and `HostController`, where it ties a phase to the
data that belongs to it.  Those of `Focuser`, `CommandLink` and `DriverServer` are no run's, but theorems, as the first
three are; `PositionStore`'s is part of the invariant of section 5.

### Axis

One variable per field of `Axis` that outlives a call, plus `active` of the step timer.  Main-loop
calls (`MoveTo`, `Halt`, `StopNow`, `Update`, `SetPosition`, `JustStopped`, `SetIdleOff`) are one
action each, because they either run with interrupts off or touch an axis the timer does not serve.
`Isr` is one interrupt: `SettleTick` for the pause after power-up, or `StepPulse`, split by ramp phase
as `isrStep()` is.  Periods and speeds are left out: the model may end the acceleration at any step.
`Tick` is the clock of the idle-off time.  `restAge` is history.

### PositionStore

`Queue` is `queuePosition()` with the `nvUpdate()` it ends in; `Update` is the call from the main
loop, with its poll of the chip; `WriteDone` is the chip finishing a cycle; `CutAndBoot` is a power
cut at any moment followed by the boot scan; with `BlindBoots` the scan may also fail to find or to
read the chip.  A slot is a record or `Torn`.  Sequence numbers are counted modulo `SeqMod`, and
compared by the sign of the difference, as in `scanRing()`.  Assumption on the chip: a torn write
disturbs no other slot.

### SettingsStore

`Change` is a setter or a new calibration, `Save` the start of `saveRecord()`, `WriteChunk` one turn of
`writeBytes()`, `ReadBack` the comparison at its end, `Fail` a chip that does not acknowledge.  `CutAndBoot`
is a power cut at any moment, in the middle of a write cycle too, and the boot after it: `loadRecord()`, which
may be unable to read, or a boot without the chip.  Two chunks stand for the six of the settings: what
matters is that one holds the header and another does not.  The CRC is ideal.  A value has a part that
version 1 had and one that version 2 appended; `Init` has chips that are blank, of version 1, and of a later
version.  `good` is history: what a boot may load.

### SensorBus

`PowerUp`, `Start`, `Measure`, `PowerOn` are the states of `envUpdate()`; any sensor may fail any transfer.
`Probe`, `CheckChip`, `Sample`, `Lose` are the parts of `imuUpdate()` and `RestartFilter` is
`imuRestartFilter()`.  A sample is reduced to whether the chip was running when it was taken; `tainted` and
`half` are history.  Conversions, filter arithmetic and values are left out.

### CommandLink

On the board `StartPass`, `Take` and `EndPass` are `process()`, which looks at `usbPortOpened` once and then
takes the bytes that have come; `Handle` is `handleCommand()` with the gate.  The host has `Open`, `Send`,
`SendTail` (a write can be cut before its `#`), `Read`, `Timeout`, `Close`: the handshake of
`DeviceFinder.Identify()` and `TryConnect()`, then the exchanges of `Send()` with the second identification
after `ERR,16`.  A stranger sends what it likes.  Each token and reply carries to whom it belongs; this is
history, as are `dirty`, `unlocker`, `overlap`, `breach` and `refused`: the code decides nothing from them.

### TempCompensator and DriverServer

The timer callback is four steps, between which every other thread may act: `Look` (the snapshot), `Decide`
(under the lock), `Submit` and `Failed` (under the lock again).  `owed` is history: the steps that moves of the
reference stand for less those the board was told to make.  Server and instances: `SetConnected` and `Connect`
are the two ways to connect, up to the server's lock; `Call` is `c.Connect()` outside it; `Begin`, `Arrive` and
`FailWait` are `WaitForBoard()`, on the controller in use or on a disposed one; `EnterDfu`, `DfuCheck` and
`DfuConnect` are the firmware update and its continuation three seconds later.  A call of a client is `Enter` (its
instance holds a connection), `Check` (the board is there) and then its effect (`UseFocuser`, `EnterDfu`) or
`Return`: the code holds no lock across them, so a task of `Connect()` that fails (`FailWait`) may take the connection
away in between.  `late` and `stray` are history: who came late to a server nobody was connected to any more.  The controller is reduced to
`want` and `online`, which is what `HostController` shows of it (`PortFollowsWish`).

### Focuser

Each command that can change something is an action, a refusal changes nothing: move (`StartMove`
with the move guard), `Halt`, `Sync`, `SetMax`, `SetBacklash`, `SetUsteps` with the rescale,
`ResetDefaults`, `SaveSettings`, `Reboot`.  `Update` is `focuserUpdate()`, `Step` is one step of the
axis, `DelayOver` the end of the two seconds before a save.  `FaultStop`, `PowerCut`, `WatchdogReset`
are what may go wrong.  `RotatorMoves` is the other writer of the shared record.

`truth` is history: whether the counted position is the real one.  It becomes `"lapsed"` where code
and documentation knowingly (or plainly) let go of the real position without telling, and stays so
until a sync.  These places are marked "A lapse" in the module and listed in section 6;
`TrustedRight` says there are no others.

### Rotator

As above, with `Move`, `Halt`, `Sync`, home and calibration commands, the settings commands that
change wrap range, steps per degree, guard and boot home, and `Update` as `rotatorUpdate()`:
end-of-move check first, then the sequence, then the save.  The camera's real angle (`bearing`) is kept
next to the counted one, so that lost steps (`SlipStep`) and the IMU mean something.  The IMU is
`"ok"`, `"vertical"` (points up) or `"dead"` and may change at any time; the run leaves `"vertical"` out,
which ends a home as an IMU that does not settle does.

### HostController

Clients: `Check`, `Enqueue`, `Return`, `GiveUp` are the steps of `Submit()` that other threads can
see between; `Connect`, `Disconnect` and `Dispose` change what is wanted.  The worker is one action per exchange
with the board or per access to shared state: connecting (`Attempt`, `Found`, `NotFound`, `Refresh`),
running a Work (`Pick`, then `Obeyed`, `Refused`, `Unanswered` or `CutOff`; `Ask` and the reset steps),
polling and watching (`Poll`, `Trip`), leaving (`GivingUp`, `Finish`, `Close`, `Quit`).  A board finishes its
move (`MoveDone`) or is plugged and unplugged.  `Unanswered` covers both a lost command and a lost
reply.

Time is left out: backoff, poll interval, watchdog limit and timeouts mean that the step may be taken
at any moment.  `Connect` with a snapshot that is no longer right is in the model where it has an effect
(while the worker refreshes).  Bounds: one Work per caller; `MaxMishaps` losses and unplugs in all; only
the board in use is unplugged.  A caller waits for a Work that runs already; the code leaves after a second
timeout and reads nothing afterwards.

The parts of one `update()` pass (end of move, sequence, save) are actions of their own.  At most one of
them has something to do in a pass, apart from a save that becomes due in the pass in which a sequence
ends; there the model also lets a command slip in between.

## 3. Runs

Twelve runs; nine must pass, three show a disagreement between code and text (section 6).

| Run | Instance | Shows | Distinct states |
|---|---|---|---|
| `axis` | one axis, targets 0..5, take-up 0 or 2, idle-off after 2 ticks; or two axes in moves of two steps | every step accounted for, one axis moves at a time, exact ends, no stop at speed, idle-off only after rest, moves end, contract kept | 275 000 |
| `i2c_bus` | ring: two axes, three slots, numbers modulo 9; records: both, one of them changing; sensors: two SHT31 and the accelerometer | the ring is a durable cell and keeps the mark of a move; records are never mixed, and not lost in silence; hung sensors come back; a settled filter is real | 184 000 |
| `focuser_trust` | positions 0..2, backlash 0 or 1, faults, power cuts, watchdog; or positions 0..4, microsteps 1 and 2, no moves | verified means right, over moves and over changes of units; no mark of a move stays behind | 1 910 000 |
| `focuser_moves` | positions 0..2, backlash 1, soft limit 1 or 2, faults, power cuts, watchdog | direction, soft limits, saves | 215 000 |
| `rotator_trust` | a turn of 2 units, 1 or 1/2 step per unit, EEPROM, faults, power cuts, watchdog, no IMU | not suspect means right | 1 980 000 |
| `rotator_home` | a turn of 4 units, ranges -1..2 and 0..2, IMU ok or dead, faults, lost steps, no EEPROM | home and calibration end, at the IMU zero, and nothing leads out of the range or further out | 873 000 |
| `host_controller` | two boards, one with a dead motor driver, two clients (move and firmware update; halt and reboot), 2 mishaps or a `Dispose()` | calls and their answers, order, board identity, a port that follows the wish | 709 000 |
| `command_link` | driver and stranger in turn, 5 tokens and replies under way, 2 failures in a row | only the identified are obeyed; the handshake clears the line; a gate that locks is opened again | 2 340 000 |
| `driver_server` | two instances with dialog and firmware update; or one instance, three temperatures, 2 moves of clients, 1 mishap | counts, quiet port, board found again, focuser follows the temperature | 561 000 |
| `store_blind_boot` | one axis, two slots, boots that cannot read | `NewestWins` fails | |
| `rotator_halted_stall` | the instance of `rotator_trust`, one step size, faults only | `StallShows` fails | |
| `server_stale_wait` | the instances of `driver_server` | `FailMeansNoBoard` fails | |

Where the table says "or", the instance holds scenarios: a variable `scenario` of the MC module is chosen at
the start and never changes, and each scenario leaves out what would only multiply the states of the other.
Steps of different scenarios never meet, so such a run shows no more than its scenarios, one by one; each
scenario takes the whole next-state relation of its module and restrains inputs, faults or the clock.

Why the bounds are enough:

- **Axis**: a move of five steps accelerates, cruises, and slows down with room to spare, and a halt finds
  each phase; take-up 2 is long enough to be cut in the middle; an idle-off time of 2 ticks can run
  partly or in full.  With two axes only ownership of the timer matters, so moves are two steps and no
  time passes.
- **PositionStore**: with three slots a fallback, a slot being written and the next one differ; modulo 9
  the number wraps within a few saves.  `MaxUnwritten` bounds the records queued while the chip takes none;
  the assumption `SeqAssumption` states how far apart numbers may get before the signed comparison fails
  (in the code: 2^31 records that never reach the chip).
- **SettingsStore**: two values make every mixture of an old and a new chunk; the two records only meet in
  the fault bit, so one of them changes value and the other is only saved.
- **SensorBus**: `FailsBeforeCycle` is 2 instead of 3 and `SettleSamples` 2: enough for a count that is
  interrupted and for a filter that is partly filled.
- **Focuser**: 0..2 has a start, an end and a stop in between; a limit of 1 under a position of 2 is the
  case of a soft limit lowered below the position.  Microsteps 1 and 2 make rounding and clamping happen.
- **Rotator**: the angle arithmetic for every turn and range is proved (section 5), so the state machine is
  checked on small turns: 2 with a step size that does not divide it, and 4 with quarter turns, which
  calibration needs.  The defaults have the shorter range, so that `:24` may leave the angle outside it.
- **HostController**: `Dispose()` takes the place of all mishaps: it ends the worker whatever it was doing.  Two
  clients suffice for a halt overtaking a move and for a reset between submit and run; two boards for changing
  over, one of them refusing every move, as a board with a dead driver does; failure limit 2 instead of 3 shows the count spread over commands.
- **CommandLink**: five tokens and replies hold the rest of one program's command, its reply, and a full
  command of the next one; that is the most a program that waits for its answers can leave behind, and a
  reply too late on top.
- **DriverServer**: two instances are the others of each other; three temperatures with a threshold of two
  degrees have changes below, at and above it; a focuser of three positions reaches the end of its travel.  In
  the scenario of two instances the compensation is switched on only when no connection is left, which is where a
  late call matters; the other scenario has it on with a connection.

Deadlock is checked in every run: some step is possible in every state.

Every property of a passing run has a mutant of the code's translation, next to the definition it changes,
that violates it.

## 4. Fairness and liveness

| Module | Fair | Because |
|---|---|---|
| `Axis` | `Isr` | the hardware timer of the active axis fires whatever the main loop does |
| `PositionStore` | `Update`, `WriteDone` | the main loop calls `nvUpdate()` in every pass; an EEPROM write cycle ends by itself |
| `Focuser` | `Step`, `Update`, `DelayOver` | as above, and time passes |
| `Rotator` | `Step`, `Update`, `DelayOver`, `SettleEnds` | as above; the IMU settles or its time limit is reached |
| `SensorBus` | `EnvUpdate` | the main loop calls `envUpdate()` in every pass |
| `HostController` | the worker thread | it loops until disposed |
| `DriverServer` | `Call`, `CallDialog`, `DfuCheck`, `DfuConnect`, `Tick`, `MoveEnds`, `Found` | a thread that has left a lock goes on; a delay of three seconds ends; the timer calls back; a controller that looks for a board that is there finds it, which is what `PortFollowsWish` says |

No fairness is assumed of clients, boards, faults or mishaps.  With it: every move ends (`MoveEnds`), a
queued record is taken or the fault is shown (`WrittenOrFault`), planned saves come (`SaveComes`), sequences
end (`SequenceEnds`), a wanted connection is made again and the port is let go when it is not wanted
(`PortFollowsWish`, and above it `Reached`), a hung sensor
is brought back (`HungRecovers`), and the focuser follows a temperature that stays (`CatchesUp`).

## 5. Proofs

The runs check small instances; what follows holds for every value of the constants that meets the named
assumptions (`ASSUME`) of the modules.  Every theorem of a state machine goes the same way: an inductive
invariant, `Init` implies it, each action of `Next` keeps it, and what is claimed follows from it in a state, or
in a step of `Next`.  Every invariant and every action property of the passing runs is proved this way.

### Motion: `AxisProofs`

From `AxesAssumption`, `MoveAssumption` and `TickAssumption`.  The invariant `IInv` is `TypeOK` with six parts:
`OneAxisMoves` (busy exactly while the timer serves it), `OnTrack` (steps left lead exactly to the target),
`RampFits` (room for the deceleration), `HaltHeld`, `PoweredWhileMoving` and `IdleClock`.  They need each other:
types stay natural numbers only because `OnTrack` and `RampFits` keep the steps left positive while busy; a pulse
concerns the axis in motion only by `OneAxisMoves`; the driver may be switched off only by an update that sees
the axis at rest.  On top of it `ExactEndCorrect`, `IdleOffCorrect`, `SoftStopCorrect` (with one more invariant,
`RampCounted`: while accelerating, all steps made are steps of the ramp) and `ImplementsContract`: every step of
`Axis` is a step of `AxisContract` or leaves what it shows unchanged.

### Storage and sensors: `I2cBusProofs`

From `RingAssumption`, `SeqAssumption`, `DataAssumption`, `TornAssumption` and `SettleAssumption`.

- Ring.  `StoreInv` says that the slots, counted back from the last one written, hold sequence numbers that fall by
  at most `MaxUnwritten` each (`RingOrder`), so that the signed comparison of `scanRing()` finds the newest valid
  slot however often the numbers have wrapped; and that the RAM copy is what a boot would take when nothing is on
  its way (`Taken`).  A torn slot is then the oldest one and costs nothing.  From it `RingIsDurable` (every step of
  `PositionStore` is a step of `DurableCell` or a stutter), `NewestWinsAlways` and `MarkSurvivesAlways`.  Their
  hypothesis is `~BlindBoots`: every boot can read the chip.  Without it `NewestWins` is false, which is what
  `store_blind_boot` shows.
- Records.  `RecordInv` says that every header on the chip, and a header on its way there, vouches for values of
  `good` only (`Vouched`): if the header is intact and its checksum fits the rest, the rest is one of them.  With
  it a boot loads a value saved or tried since, or the defaults, whatever chunk is torn, refused or not stored
  (`BootLoadsSavedAlways`).  The part about `job` and `chunk` (only a save that is going on, or has shown its
  failure, leaves a chunk under way) gives `LossShowsAlways`.
- Sensors.  `FilterInv`: a filter that goes on from a sample of a sleeping chip has a reset still to be found, or a
  set-up that failed half-way (`SettledAlways`).

The theorems are about the components of `MCI2cBus`, with any number of records and values.

### Focuser: `FocuserProofs`

From `LimitAssumption` and `SettingsAssumption`.  `FocInv` has `TrustedRight` and `MarkWillClear` themselves,
`RecordTrue` (a record that a boot would trust names the place where the focuser rests), `TargetInside` and
`DirectionSound` (what the last direction is, or becomes once the end of the move is noted).  `RecordTrue` is what
makes `TrustedRight` inductive: power may fail between any two steps, and the boot knows the record only.  It
compares places in different microsteps by cross-multiplication, so a change of microsteps needs that scaling is
exact where the code does not clear the trust (`SamePlaceRescaled`).

### Rotator: `RotatorMathProofs`, `RotatorProofs`

From `TurnAssumption`, `DenAssumption`, `RotatorAssumption` and `ToleranceAssumption`.  The arithmetic first: a
range of a full turn has an angle for every target (`WrapAlwaysFits`); `wrapPlanTarget()` picks the nearest, then
the least wound (`PlanTargetCorrect`); a home is planned to an angle of the range at which the camera stands at its
zero, and no other one leaves the cable less wound (`PlanHomeCorrect`); a correction stays in the range and never
turns away from the zero (`CorrectionSafe`).  Lemmas say how rounding between angles and steps behaves: it keeps
the order, is off by at most a half, and is undone exactly where steps are no finer than angle units.

`RotInv` has the types with `Phase`, `NoRecord` (without a chip and in safe mode nothing is recorded), `TrustedRight`
with `RecordTrue` as for the focuser, and for the cable `AtAngle` (the angle of a rotator at rest was rounded from its
steps, or they from it), `CalPlace` (how far a calibration has come) and `TargetInWrap`.  `AtAngle` is needed
because a move is planned on the angle and carried out in steps: one may be rounded away from the other, and
still no step leads out of the range (`StaysInWrapAlways`).

`ZeroIsImuZeroAlways` needs `ZeroSound` in addition: a halt has ended every sequence; a calibration goes back to
where it began; and the camera has turned since the first capture by the steps made since, up to whole turns.  At
a home the zero is set within the tolerance of a candidate, and 2 * `Tol` < `Turn` makes it the one without a
turn added.  A calibration is back at the *angle* it began from, which may be other steps when it was rounded
from them; they turn the camera by less than one angle unit.  `ToleranceAssumption` asks for a tolerance of one unit
then (the setting is 5 to 500, `settings.h:39`); with a tolerance of 0 and finer steps TLC finds `ZeroIsImuZero`
violated.

### Serial link: `CommandLinkProofs`

From `LinkAssumption`, for any bound on what is on the line.  `LinkInv` has `OthersFirst` (what came before the port
was opened is read before what came after), `Gate` (when the board may be unlocked, and by whom), `Unlocked`, and
what is on the line: the driver's own command on its way, begun or answered (`OnItsWay`, `Begun`, `Answered`),
and of older ones `Leftovers`, which shrink as the handshake goes on: at most one command before `ping` is answered,
a ping until the identification, nothing after it.  `OnlyIdentifiedAlways`, `CleanLineAlways` and
`NotLockedOutAlways` follow.

### Host: `HostControllerProofs`, `DriverServerProofs`

From `HostAssumption`, for any boards, callers, commands and mishaps.  `HostInv` ties the call, the Work, the queue
and the worker together (`CallSound`: what the state of a Work says about its caller, its result and its place;
`CheckedOut`, `HaltsAhead`), the worker's place to port and snapshot (`PlaceSound`), the board's target to the move
that runs (`TargetTrue`) and the board looked for to the one of the session (`BoundToLast`).  From it the types,
`OkIsTrue`, `NobodyForgotten`, `NeverLate`, `HaltFirst` and `SameBoard`.

From `DeviceAssumption` (finitely many instances) and `TempAssumption`.  `ServerInv` has `CountsRight` and `AllQuiet`
with `CallersHold`: who is between the server's lock and `c.Connect()` holds a connection; without it a release
could leave a caller that opens the port for nobody.  No such invariant holds of a call between its check and its
effect, which is why `AllQuiet` needs its second exception (section 6).  `CompensationCorrect` follows from `BooksBalance`,
which says at each step of the timer callback what the compensator has booked and the board not yet got.

### Not proved

Liveness (the prover does not do fairness) is only model-checked: `MoveEnds`, `WrittenOrFault`, `HungRecovers`,
`SaveComes`, `SequenceEnds`, `PortFollowsWish`, `Reached` and `CatchesUp`, and of `KeepsContract` the part that the
motor goes on.  The disagreements of section 6 are runs.  `RotatorMath` is
over unbounded integers; its header says why the code's never overflow.

## 6. Where code and text disagree

Shown by a run:

- **`store_blind_boot`** (`fw/src/nv_store.cpp:254`): a boot that fails to read the ring restarts the
  sequence numbers; what it saves loses the next boot scan to older slots.  `nv_store.cpp:16-18` says the
  newest valid one is taken.
- **`rotator_halted_stall`** (`fw/src/rotator.cpp:299`): a halt between a stall and the end-of-move check
  hides the stall.  `rotator.cpp:12-13` says a stall makes the angle suspect.
- **`server_stale_wait`** (`driver/ASCOM/AstroUniBoard.Ascom/DeviceBase.cs:131`): a wait goes on for the controller
  it found at its start.  When the server has built another one since, the wait fails although the board is
  there, and gives back the connection that its instance has made in the meantime.

Lapses that `TrustedRight` excepts by name, in the focuser: a reboot or power cut while the last record,
or the mark of a move, is still queued (`focuser.cpp:80`; `docs/PROTOCOL.md:314-316`); microstep changes that
round or clamp (`focuser.cpp:132`; `docs/PROTOCOL.md:244-246`); the microstep label of a record written
between `:48` and the next update (`nv_store.cpp:277`); a position above the limit after `:24`
(`protocol_common.cpp:56`).  In the rotator: a stop right after the last step, or one that a halt covers,
counts as complete (`rotator.cpp:126`); a boot within two seconds of a sync or home finds the older record
(`rotator.cpp:309`).

Also in the focuser, and in the model: safe mode writes nothing, so a focuser jogged in it comes back from
`:22` with the old position, verified (`focuser.cpp:60`); `focuser.cpp:15-16` says unverified survives a reboot.

Exceptions that other properties name, because the code has them:

- `OnlyIdentified`: a pass over the bytes that began before the port was opened sees the new flag only at its
  end (`protocol.cpp:103`); a `:32#` of the program before that is still unread unlocks the board for the next.
- `CleanLine`: `ping` is answered by an old `OK` just as well, so one old answer is thrown away and not two; a
  session that has missed an answer may read every answer one command late (`Transport.cs:151`).
- `LossShows`: a torn header that has lost its magic reads as a record never written (`nv_store.cpp:202-204`);
  one bit stands for the write faults of both records and of the ring (`nv_store.cpp:314`, `366`).
- `SettledIsTrue`: a set-up that fails after it has woken the chip leaves a filter with samples of the sleeping
  one (`imu_mpu6000.cpp:134-135`).
- `AllQuiet`: the continuation of `EnterDfu()` tests the count and connects without a lock between, so it may
  open the port after the last release (`SPEC.md:43`).  `TempComp = true` checks the connection and switches the
  compensation on without a lock between (`Focuser.cs:76-77`): when the task of an earlier `Connect()` fails there
  (`DeviceBase.cs:162-166`) and nobody else is connected, the compensation is on with no connection left, against
  `SPEC.md:111`, until the next first connection resets it.
- `Compensated`: a callback that outlives its session gives its reference to the next one (`TempCompensator.cs:94`;
  `SPEC.md:105` says the reference is the temperature at the start), and a lost reply repeats a move.

Noted on the host while modelling, not among the runs: `Connect()` while reconnecting frees the choice of
board, against "only ever reconnects to the same serial" (`driver/ASCOM/README.md:26-27`,
`BoardController.cs:185`); a poll that fails after a successful move releases the caller with the status of
before (`BoardController.cs:637-640`); `EnterDfu()` clears the wish to be connected (`SPEC.md:134`,
`BoardController.cs:429`); `LoseConnection()` can clear the wish of a concurrent `Connect()` (953); the
second wait of `Submit()` is shorter than the longest Work (471); the watchdog's halt is sent once, lost or
not (696); the rounding of a compensation to whole steps is not carried over (`TempCompensator.cs:83`).

## 7. Not modelled

- Number parsing, the sensor commands and the error state of the protocol (`protocol_env.cpp`, `status.cpp`): no
  decision of the firmware depends on the sticky error.
- A board without the axis of the instance (`MissingCapability()`, `DeviceBase.cs:137`): the wait fails although the
  board is there, with the end that `Arrive` and then `Disconnect` have.
- Rescales in the run of `SaveComes`: `focuser_moves` has one microstep value; `focuser_trust` has two.
- The range checks of a loaded settings record: everything a setter stores passes them.
- The restart of the I2C peripheral after a failed transfer (`i2c_bus.cpp`): it has no state of its own.
- COM registration and exit of the server, the properties of the ASCOM devices, the dialog's contents.
- Step periods, driver registers and StallGuard statistics, IMU filter and vector algebra, housekeeping
  measurements, LEDs: data of hardware, with hardly any control around it.
- `TMCStepper`, the OnStepX variant, the debug application's forms, the simulator, tests, hardware files.

## 8. Plan

The modules of section 2 are written, and the safety properties of all passing runs are proved.
Left, in this order:

1. A theorem in the place of a remark: with the settings the firmware accepts, no conversion of `RotatorMath` leaves
   32 bits, so `sat32()` never acts.
2. `NewestWins` with blind boots: how many boots may fail to read before a record is lost.
3. The angle of a rotator whose halted moves were rounded, against the one it reports (`rotator.cpp:360`): a bound on
   what many of them add up to.
