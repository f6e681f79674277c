------------------------------ MODULE SensorBus ------------------------------
(***************************************************************************)
(* The sensors on the I2C bus: the SHT31 driver (fw/src/env_sht31.cpp),    *)
(* which measures in rounds and cycles the supply that the sensors share   *)
(* when one that has answered before fails again and again, and the        *)
(* sampling of the accelerometer (fw/src/imu_mpu6000.cpp) behind its       *)
(* low-pass filter.                                                        *)
(*                                                                         *)
(* Waiting for a time is being able to go on at any moment.  Any transfer  *)
(* may fail.  A sensor may hang until its supply is switched off, or be    *)
(* taken away; the accelerometer may be reset and sleep, and then repeats  *)
(* an old sample.  Readings are reduced to whether they can be believed.   *)
(***************************************************************************)
EXTENDS Naturals

CONSTANTS
  Sensors,            \* the on-board and the external SHT31
  FailsBeforeCycle,   \* FAILS_BEFORE_CYCLE
  SettleSamples       \* SETTLE_SAMPLES

VARIABLES
  state,      \* EnvState
  triggered, status, seen, fails,
  sensor,     \* the sensors: "good", "hung" or "absent"
  answering, haveSample, freshSamples,
  chip,       \* the accelerometer: "runs", "sleeps" or "gone"
  tainted,    \* history: the filter holds a sample of a sleeping chip
  half        \* history: configure() failed after it had woken the chip, and has not been done again since

envVars == <<state, triggered, status, seen, fails>>
imuVars == <<answering, haveSample, freshSamples>>
vars == <<envVars, sensor, imuVars, chip, tainted, half>>

Init ==
  /\ state = "POWER_UP"
  /\ triggered = [s \in Sensors |-> FALSE] /\ status = [s \in Sensors |-> "NO_DATA"]
  /\ seen = [s \in Sensors |-> FALSE] /\ fails = [s \in Sensors |-> 0]
  /\ sensor \in [Sensors -> {"good", "absent"}]
  /\ answering = FALSE /\ haveSample = FALSE /\ freshSamples = 0
  /\ chip \in {"sleeps", "gone"} /\ tainted = FALSE /\ half = FALSE

(***************************************************************************)
(* envUpdate().                                                            *)
(***************************************************************************)
PowerUp ==
  /\ state = "POWER_UP" /\ state' = "IDLE"
  /\ UNCHANGED <<triggered, status, seen, fails, sensor>>

\* A measurement is started on every sensor that acknowledges.
Start ==
  /\ state = "IDLE" /\ state' = "MEASURING"
  /\ \E ok \in [Sensors -> BOOLEAN] :
       /\ \A s \in Sensors : ok[s] => sensor[s] = "good"
       /\ triggered' = ok
       /\ status' = [s \in Sensors |-> IF ok[s] THEN status[s] ELSE "NO_ACK"]
  /\ UNCHANGED <<seen, fails, sensor>>

\* Mutant of Count: a failure counts only on a sensor that took the command.
CountTriggered(new, s) ==
  IF new[s] = "OK" THEN 0 ELSE IF seen[s] /\ triggered[s] THEN fails[s] + 1 ELSE fails[s]

\* Failures in a row, of a sensor seen before.
Count(new, s) == IF new[s] = "OK" THEN 0 ELSE IF seen[s] THEN fails[s] + 1 ELSE fails[s]

\* The results; a sensor that failed too often has the supply switched off for all.
Measure ==
  /\ state = "MEASURING"
  /\ \E new \in [Sensors -> {"OK", "NO_ACK", "BAD_CRC"}] :
       /\ \A s \in Sensors : IF triggered[s] THEN new[s] = "NO_ACK" \/ sensor[s] = "good" ELSE new[s] = "NO_ACK"
       /\ status' = new
       /\ seen' = [s \in Sensors |-> seen[s] \/ new[s] = "OK"]
       /\ IF \E s \in Sensors : Count(new, s) >= FailsBeforeCycle
          THEN state' = "POWER_OFF" /\ fails' = [s \in Sensors |-> 0]
          ELSE state' = "IDLE" /\ fails' = [s \in Sensors |-> Count(new, s)]
  /\ triggered' = [s \in Sensors |-> FALSE]
  /\ UNCHANGED sensor

\* The supply comes back; a sensor that hung works again.
PowerOn ==
  /\ state = "POWER_OFF" /\ state' = "POWER_UP"
  /\ sensor' = [s \in Sensors |-> IF sensor[s] = "hung" THEN "good" ELSE sensor[s]]
  /\ UNCHANGED <<triggered, status, seen, fails>>

EnvUpdate ==
  /\ PowerUp \/ Start \/ Measure \/ PowerOn
  /\ UNCHANGED <<imuVars, chip, tainted, half>>

(***************************************************************************)
(* imuUpdate().                                                            *)
(***************************************************************************)
\* configure(): done, failed with the chip as it was, or failed after it woke.
Configured == chip # "gone" /\ chip' = "runs" /\ half' = FALSE
NotConfigured ==
  \/ UNCHANGED <<chip, half>>
  \/ chip # "gone" /\ chip' = "runs" /\ half' = TRUE

Probe ==
  /\ ~answering
  /\ \/ Configured /\ answering' = TRUE /\ haveSample' = FALSE /\ freshSamples' = 0
     \/ NotConfigured /\ UNCHANGED imuVars
  /\ UNCHANGED tainted

\* Mutant of Reconfigured: the filter goes on from the samples it has.
ReconfiguredOnly == Configured /\ UNCHANGED freshSamples

\* The chip was reset or slept: the filter starts anew, if the chip could be set up again.
Reconfigured ==
  \/ Configured /\ freshSamples' = 0
  \/ NotConfigured /\ UNCHANGED freshSamples

\* The check of PWR_MGMT_1.
CheckChip ==
  /\ answering /\ chip # "gone"
  /\ IF chip = "runs" THEN UNCHANGED <<chip, half, freshSamples>> ELSE Reconfigured
  /\ UNCHANGED <<answering, haveSample, tainted>>

\* A sample; the first one after a restart seeds the filter.
Sample ==
  /\ answering /\ chip # "gone"
  /\ tainted' = (chip = "sleeps" \/ (tainted /\ haveSample /\ freshSamples # 0))
  /\ haveSample' = TRUE
  /\ freshSamples' = IF freshSamples < SettleSamples THEN freshSamples + 1 ELSE freshSamples
  /\ UNCHANGED <<answering, chip, half>>

\* lose(): no good transfer for LOST_MS.
Lose ==
  /\ answering
  /\ answering' = FALSE /\ haveSample' = FALSE /\ freshSamples' = 0
  /\ UNCHANGED <<chip, tainted, half>>

\* imuRestartFilter(), by the rotator before it relies on the angle.
RestartFilter ==
  /\ freshSamples # 0 /\ freshSamples' = 0
  /\ UNCHANGED <<answering, haveSample, chip, tainted, half>>

ImuUpdate ==
  /\ Probe \/ CheckChip \/ Sample \/ Lose \/ RestartFilter
  /\ UNCHANGED <<envVars, sensor>>

\* imuSettled()
Settled == answering /\ haveSample /\ freshSamples >= SettleSamples

(***************************************************************************)
(* The parts on the bus.                                                   *)
(***************************************************************************)
Hang(s)   == sensor[s] = "good" /\ sensor' = [sensor EXCEPT ![s] = "hung"] /\ UNCHANGED <<envVars, imuVars, chip, tainted, half>>
Unplug(s) == sensor[s] # "absent" /\ sensor' = [sensor EXCEPT ![s] = "absent"] /\ UNCHANGED <<envVars, imuVars, chip, tainted, half>>
Plug(s)   == sensor[s] = "absent" /\ sensor' = [sensor EXCEPT ![s] = "good"] /\ UNCHANGED <<envVars, imuVars, chip, tainted, half>>
ChipReset == chip = "runs" /\ chip' = "sleeps" /\ UNCHANGED <<envVars, sensor, imuVars, tainted, half>>

Next ==
  \/ EnvUpdate \/ ImuUpdate \/ ChipReset
  \/ \E s \in Sensors : Hang(s) \/ Unplug(s) \/ Plug(s)

Fairness == WF_vars(EnvUpdate)

Spec == Init /\ [][Next]_vars /\ Fairness

(***************************************************************************)
(* Properties.                                                             *)
(***************************************************************************)
\* A sensor that has worked and hangs is brought back by the supply, whatever the other sensor does.
HungRecovers == \A s \in Sensors : (seen[s] /\ sensor[s] = "hung") ~> (sensor[s] # "hung")

\* A settled filter holds samples of a running chip only - but for a reset that the next check (within
\* CHECK_MS) has yet to find, and a set-up that failed after it had woken the chip (imu_mpu6000.cpp:135).
SettledIsTrue == Settled /\ tainted => chip = "sleeps" \/ half
=============================================================================
