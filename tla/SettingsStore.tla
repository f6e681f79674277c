---------------------------- MODULE SettingsStore ----------------------------
(***************************************************************************)
(* The settings record and the calibration record of fw/src/nv_store.cpp:  *)
(* a header with magic, version, length and CRC and a payload, written     *)
(* chunk by chunk while the main loop waits, read back, and loaded at the  *)
(* next boot over the defaults.  The chip may refuse a chunk, acknowledge  *)
(* it and not store it, or lose its power inside a write cycle.            *)
(*                                                                         *)
(* Abstracted: two chunks stand for the six of the settings; a value has a *)
(* first part, which version 1 had too, and a second, appended one.  The   *)
(* CRC is ideal: the header holds the value it belongs to.  What the other *)
(* user of the chip, the position ring, does to the faults is in           *)
(* PositionStore.                                                          *)
(***************************************************************************)
EXTENDS Naturals

CONSTANTS
  Records,     \* the settings and the calibration
  Values,      \* per record, what a part may be set to; 0 is the default
  BlindBoots,  \* TRUE: a boot may not find the chip, or skip it (safe mode)
  Junk         \* a part no value has

VARIABLES
  running,   \* the values in use: settings, cal
  faults,    \* FAULT_MISSING, FAULT_WRITE, and a record for FAULT_SETTINGS, FAULT_IMU
  found,     \* nvEepromAddress # 0
  chip,      \* the two chunks of each record
  job,       \* saveRecord() at work: record, value, next chunk; <<>> if none
  cell,      \* the chunk in its write cycle: record, number, contents; <<>> if none
  good       \* history: per record, the values a boot may load: the last one saved and those tried since

vars == <<running, faults, found, chip, job, cell, good>>

CURRENT == 2               \* SETTINGS_VERSION, NV_IMU_VERSION
Default == <<0, 0>>        \* settingsDefaults(), ImuCalibration{}

\* What a version keeps of a value.
Payload(version, v) == IF version = 1 THEN <<v[1]>> ELSE v

\* The chunks of a record: the first with the header, the second with the rest of the payload.
Header(version, v) == [magic |-> "own", version |-> version, crc |-> Payload(version, v), part |-> v[1]]
Chunks(version, v) == <<Header(version, v), v[2]>>

\* First chunks no value belongs to: all 0xFF or with another magic, and with the right magic only.
Blank   == [magic |-> "other", version |-> 0, crc |-> <<>>, part |-> 0]
Mixed   == [Blank EXCEPT !.magic = "own"]
TornChunks(i) == IF i = 1 THEN {Blank, Mixed} ELSE {Junk}

(***************************************************************************)
(* loadRecord().                                                           *)
(***************************************************************************)
\* Mutant of Intact: the CRC is not looked at.
IntactHeader(c) == c[1].version \in 1 .. CURRENT /\ c[2] # Junk

\* Version and length are known, and the CRC fits the payload.
Intact(c) ==
  /\ c[1].version \in 1 .. CURRENT
  /\ c[1].crc = Payload(c[1].version, <<c[1].part, c[2]>>)

NeverWritten(c) == c[1].magic # "own"

\* The payload over the defaults: an older version fills its prefix.
Loaded(c) == IF c[1].version = 1 THEN <<c[1].part, Default[2]>> ELSE <<c[1].part, c[2]>>

\* What a boot takes from a record.
Boots(c) == IF ~NeverWritten(c) /\ Intact(c) THEN Loaded(c) ELSE Default

(***************************************************************************)
(* Saving.                                                                 *)
(***************************************************************************)
\* A set command, :24 or a new calibration.
Change(r) ==
  /\ job = <<>>
  /\ \E x \in Values[r] : running' = [running EXCEPT ![r] = <<x, x>>]
  /\ UNCHANGED <<faults, found, chip, job, cell, good>>

\* nvSaveSettings(), nvSaveImuCal(): saveRecord() begins.
Save(r) ==
  /\ found /\ job = <<>>
  /\ job' = <<r, running[r], 1>>
  /\ good' = [good EXCEPT ![r] = @ \cup {running[r]}]
  /\ UNCHANGED <<running, faults, found, chip, cell>>

\* The chip once its write cycle is over.
Landed == IF cell = <<>> THEN chip ELSE [chip EXCEPT ![cell[1]][cell[2]] = cell[3]]

\* writeBytes(): the chunk before it is done, the next one is taken, stored or not.
WriteChunk ==
  /\ job # <<>> /\ job[3] <= 2
  /\ chip' = Landed
  /\ \/ cell' = <<job[1], job[3], Chunks(CURRENT, job[2])[job[3]]>>
     \/ cell' = <<>>
  /\ job' = [job EXCEPT ![3] = @ + 1]
  /\ UNCHANGED <<running, faults, found, good>>

\* The chip does not acknowledge, or the record cannot be read back: FW_ERR_EEPROM.
Fail ==
  /\ job # <<>>
  /\ job' = <<>> /\ faults' = faults \cup {"write"}
  /\ UNCHANGED <<running, found, chip, cell, good>>

\* Mutant of Same: saved when the chip has taken every chunk.
SameUnread(c, v) == TRUE

\* memcmp() of what was written with what is read back.
Same(c, v) == c = Chunks(CURRENT, v)

ReadBack ==
  /\ job # <<>> /\ job[3] > 2
  /\ chip' = Landed /\ cell' = <<>> /\ job' = <<>>
  /\ LET r == job[1] IN
       IF Same(chip'[r], job[2])
       THEN faults' = faults \ {r, "write"} /\ good' = [good EXCEPT ![r] = {job[2]}]
       ELSE faults' = faults \cup {"write"} /\ UNCHANGED good
  /\ UNCHANGED <<running, found>>

(***************************************************************************)
(* The chip, power cuts and boots.                                         *)
(***************************************************************************)
WriteDone ==
  /\ cell # <<>>
  /\ chip' = Landed /\ cell' = <<>>
  /\ UNCHANGED <<running, faults, found, job, good>>

\* The contents after a power cut: the chunk being written is old, torn or new.
AfterCut ==
  {chip, Landed} \cup
  (IF cell = <<>> THEN {} ELSE {[chip EXCEPT ![cell[1]][cell[2]] = t] : t \in TornChunks(cell[2])})

\* nvBegin() and nvLoadImuCal(); a record in "unread" cannot be read.
Boot(unread) ==
  /\ found' = TRUE
  /\ running' = [r \in Records |-> IF r \in unread THEN Default ELSE Boots(chip'[r])]
  /\ faults' = {r \in Records : r \in unread \/ (~NeverWritten(chip'[r]) /\ ~Intact(chip'[r]))}
  /\ good' = [r \in Records |-> IF r \in unread \/ NeverWritten(chip'[r]) \/ ~Intact(chip'[r])
                                THEN good[r] ELSE {running'[r]}]

\* No chip answers, or safe mode.
BootBlind ==
  /\ BlindBoots
  /\ found' = FALSE /\ faults' = {"missing"}
  /\ running' = [r \in Records |-> Default]
  /\ UNCHANGED good

CutAndBoot ==
  /\ chip' \in AfterCut
  /\ job' = <<>> /\ cell' = <<>>
  /\ BootBlind \/ \E unread \in SUBSET Records : Boot(unread)

\* A new chip or one of another project, one of an older or of a later version of this firmware.
Init ==
  /\ chip \in [Records -> {<<Blank, Junk>>, Chunks(1, <<1, 0>>), Chunks(CURRENT + 1, <<1, 1>>)}]
  /\ good = [r \in Records |-> {Boots(chip[r])}]
  /\ running = [r \in Records |-> Boots(chip[r])]
  /\ found = TRUE /\ job = <<>> /\ cell = <<>>
  /\ faults = {r \in Records : ~NeverWritten(chip[r]) /\ ~Intact(chip[r])}

Next ==
  \/ \E r \in Records : Change(r) \/ Save(r)
  \/ WriteChunk \/ Fail \/ ReadBack
  \/ WriteDone
  \/ CutAndBoot

Spec == Init /\ [][Next]_vars
-----------------------------------------------------------------------------
(***************************************************************************)
(* Properties.                                                             *)
(***************************************************************************)
\* A boot never takes a mixture: it loads the value saved last, one whose save came after it and did not
\* report success, or the defaults.
BootLoadsSaved == [][CutAndBoot => \A r \in Records : running'[r] \in good[r] \cup {Default}]_vars

\* The next boot would load none of them.
Lost(r) == Boots(chip[r]) \notin good[r]

\* A record is not lost without a fault shown (PROTOCOL.md:169, status flag 2) - but for a header torn to
\* look never written (nv_store.cpp:204), and a fault that the save of the other record took away (366).
LossShows ==
  [][\A r \in Records :
       Lost(r)' /\ job' = <<>> /\ faults' = {} =>
         \/ Lost(r) /\ job = <<>> /\ faults = {}
         \/ CutAndBoot /\ NeverWritten(chip'[r])
         \/ ReadBack /\ job[1] # r]_vars
=============================================================================
