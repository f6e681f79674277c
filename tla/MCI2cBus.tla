------------------------------ MODULE MCI2cBus ------------------------------
(***************************************************************************)
(* What the firmware keeps on the I2C bus, one scenario each: the position *)
(* ring, the settings and calibration records, and the sensors.  The       *)
(* scenarios share no step, so none multiplies the other's states.         *)
(***************************************************************************)
EXTENDS PositionStore

CONSTANTS Sensors, FailsBeforeCycle, SettleSamples, Records, RecValues

ASSUME SettleAssumption == SettleSamples \in Nat \ {0}

VARIABLES
  scenario,
  running, recFaults, recFound, rec, job, chunk, good,   \* SettingsStore
  state, triggered, status, seen, fails, sensor,         \* SensorBus
  answering, haveSample, freshSamples, chip, tainted, half

\* One of the two records changes its value, the other one is only saved, on a chip without it.
Changing == CHOOSE r \in Records : TRUE
MCValues == [r \in Records |-> IF r = Changing THEN {0, 1} ELSE {0}]

Saves == INSTANCE SettingsStore WITH
  Values <- RecValues, BlindBoots <- TRUE, Junk <- Torn,
  faults <- recFaults, found <- recFound, chip <- rec, cell <- chunk
Sense == INSTANCE SensorBus

saveVars  == <<running, recFaults, recFound, rec, job, chunk, good>>
senseVars == <<state, triggered, status, seen, fails, sensor, answering, haveSample, freshSamples, chip, tainted, half>>

MCInit ==
  /\ Init /\ Saves!Init /\ Sense!Init
  /\ scenario \in {"ring", "records", "sensors"}
  /\ \A r \in Records : scenario # "records" \/ r # Changing => rec[r][1] = Saves!Blank
  /\ scenario # "sensors" => chip = "gone" /\ \A s \in Sensors : sensor[s] = "absent"

MCNext ==
  /\ \/ scenario = "ring" /\ Next /\ UNCHANGED <<saveVars, senseVars>>
     \/ scenario = "records" /\ Saves!Next /\ UNCHANGED <<vars, senseVars>>
     \/ scenario = "sensors" /\ Sense!Next /\ UNCHANGED <<vars, saveVars>>
  /\ scenario' = scenario

MCSpec ==
  /\ MCInit /\ [][MCNext]_<<vars, saveVars, senseVars, scenario>>
  /\ WF_vars(Update) /\ WF_vars(WriteDone)
  /\ WF_senseVars(scenario = "sensors" /\ Sense!EnvUpdate)

\* SettingsStore: a boot never takes a mixture of two values.
BootLoadsSaved == Saves!BootLoadsSaved

\* SettingsStore: a record is not lost without a fault shown.
LossShows == Saves!LossShows

\* SensorBus: a sensor that hangs is brought back.
HungRecovers == Sense!HungRecovers

\* SensorBus: a settled filter holds samples of a running chip.
SettledIsTrue == Sense!SettledIsTrue
=============================================================================
