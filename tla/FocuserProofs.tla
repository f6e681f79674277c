------------------------------- MODULE FocuserProofs -------------------------------
(***************************************************************************)
(* Proofs about Focuser, for any travel, microstep settings, backlash,     *)
(* targets and mishaps.                                                    *)
(***************************************************************************)
EXTENDS Focuser, TLAPS

\* Records that may be saved: a saved one says in which microsteps it counts.
SoundRecords == {r \in Records : r.saved => r.usteps \in UstepValues}

AxisTypes ==
  /\ pos \in [{Foc} -> Int] /\ tgt \in [{Foc} -> Int] /\ lead \in [{Foc} -> Nat]
  /\ mode \in [{Foc} -> {"idle", "moving", "halting"}] /\ stoppedFlag \in [{Foc} -> BOOLEAN]

RecordTypes ==
  /\ wanted \in SoundRecords /\ stored \in SoundRecords
  /\ flight = <<>> \/ \E r \in SoundRecords : flight = <<r>>
  /\ dirty \in BOOLEAN /\ safe \in BOOLEAN

SettingTypes == set \in Settings /\ savedSet \in Settings

StateTypes ==
  /\ lastDir \in {-1, 0, 1} /\ moveDir \in {-1, 0, 1} /\ trueDir \in {-1, 0, 1}
  /\ unverified \in BOOLEAN /\ missed \in BOOLEAN
  /\ savePending \in {"none", "waiting", "due"}
  /\ truth \in {"right", "wrong", "lapsed"}

Types == AxisTypes /\ RecordTypes /\ SettingTypes /\ StateTypes

\* A record that a boot would trust is where the focuser stands.
RecordTrue ==
  Trusted(wanted) /\ truth # "lapsed" => truth = "right" /\ ~Busy /\ wanted.pos * set.usteps = P * wanted.usteps

\* A move upwards ends inside the limits of this moment.
TargetInside == Busy /\ tgt[Foc] > P => tgt[Foc] <= set.maxPos

\* While a move runs, and until its end is noted: what lastDir is, or becomes by the note.
DirectionSound ==
  /\ Busy => ~stoppedFlag[Foc] /\ moveDir # 0
  /\ ~missed /\ (Busy \/ ~stoppedFlag[Foc]) => lastDir = trueDir
  /\ ~missed /\ ~Busy /\ stoppedFlag[Foc] =>
       trueDir = IF moveDir # 0 /\ lead[Foc] = 0 THEN moveDir ELSE lastDir

FocInv == Types /\ TrustedRight /\ RecordTrue /\ TargetInside /\ DirectionSound /\ MarkWillClear

-----------------------------------------------------------------------------
(***************************************************************************)
(* The arithmetic of a change of the microsteps.                           *)
(***************************************************************************)
LEMMA DivExact ==
  ASSUME NEW x \in Int, NEW o \in Nat \ {0}, x % o = 0
  PROVE  (x \div o) \in Int /\ (x \div o) * o = x
OBVIOUS

LEMMA Cancel ==
  ASSUME NEW a \in Int, NEW b \in Int, NEW o \in Nat \ {0}, a * o = b * o
  PROVE  a = b
<1>1. (a - b) * o = 0
  OBVIOUS
<1>2. QED
  BY <1>1

\* If w in units of u is p in units of o, and q in units of n is p in units of o, then w is q.
LEMMA SamePlaceRescaled ==
  ASSUME NEW p \in Int, NEW q \in Int, NEW w \in Int, NEW o \in Nat \ {0}, NEW n \in Nat \ {0}, NEW u \in Nat \ {0},
         w * o = p * u, q * o = p * n
  PROVE  w * n = q * u
<1>1. (w * n) * o = (w * o) * n
  OBVIOUS
<1>2. (q * u) * o = (q * o) * u
  OBVIOUS
<1>3. (p * u) * n = (p * n) * u
  OBVIOUS
<1>4. (w * n) * o = (q * u) * o
  BY <1>1, <1>2, <1>3
<1>5. w * n \in Int /\ q * u \in Int
  OBVIOUS
<1>6. QED
  BY <1>4, <1>5, Cancel

\* Scale() is an integer, so Clamp() of it is inside its bounds.
LEMMA ScaleInt ==
  ASSUME NEW v \in Int, NEW o \in Nat \ {0}, NEW n \in Int
  PROVE  Scale(v, o, n) \in Int
<1>1. v * n \in Int
  OBVIOUS
<1>2. QED
  BY <1>1 DEF Scale

LEMMA ClampInside ==
  ASSUME NEW v \in Int, NEW lo \in Int, NEW hi \in Int, lo <= hi
  PROVE  Clamp(v, lo, hi) \in Int /\ lo <= Clamp(v, lo, hi) /\ Clamp(v, lo, hi) <= hi
BY DEF Clamp

LEMMA RescaledTypes ==
  ASSUME Types, NEW n \in UstepValues
  PROVE  RescaledMax(n) \in 1 .. Limit /\ RescaledPos(n) \in Int
         /\ Clamp(Scale(set.backlash, set.usteps, n), 0, 10000) \in Nat
<1> DEFINE m == set.maxPos
           b == set.backlash
           o == set.usteps
<1>1. n \in Nat \ {0} /\ o \in Nat \ {0} /\ m \in Int /\ b \in Int /\ Limit \in Int /\ 1 <= Limit
  <2>1. set \in Settings
    BY DEF Types, SettingTypes
  <2>2. o \in UstepValues /\ m \in 1 .. Limit /\ b \in Nat
    BY <2>1 DEF Settings
  <2>3. UstepValues \subseteq Nat \ {0} /\ Limit \in Nat \ {0}
    BY SettingsAssumption, LimitAssumption
  <2>4. n \in Nat \ {0} /\ o \in Nat \ {0}
    BY <2>2, <2>3
  <2>5. m \in Int /\ b \in Int /\ Limit \in Int /\ 1 <= Limit
    BY <2>2, <2>3
  <2>6. QED
    BY <2>4, <2>5
<1>2. P \in Int
  BY DEF Types, AxisTypes, P
<1> HIDE DEF m, b, o
<1>3. Scale(m, o, n) \in Int
  BY <1>1, ScaleInt
<1>4. Scale(P, o, n) \in Int
  BY <1>1, <1>2, ScaleInt
<1>5. Scale(b, o, n) \in Int
  BY <1>1, ScaleInt
<1>6. Clamp(Scale(m, o, n), 1, Limit) \in 1 .. Limit
  BY <1>1, <1>3 DEF Clamp
<1>7. RescaledMax(n) \in 1 .. Limit
  BY <1>6 DEF RescaledMax, m, o
<1>8. RescaledMax(n) \in Int /\ 0 <= RescaledMax(n)
  BY <1>1, <1>7
<1>9. Clamp(Scale(P, o, n), 0, RescaledMax(n)) \in Int
  BY <1>4, <1>8, ClampInside
<1>10. RescaledPos(n) \in Int
  BY <1>9 DEF RescaledPos, o
<1>11. Clamp(Scale(b, o, n), 0, 10000) \in Nat
  <2>1. 0 \in Int /\ 10000 \in Int /\ 0 <= 10000
    OBVIOUS
  <2>2. Clamp(Scale(b, o, n), 0, 10000) \in Int /\ 0 <= Clamp(Scale(b, o, n), 0, 10000)
    BY <1>5, <2>1 DEF Clamp
  <2>3. QED
    BY <2>2
<1>12. QED
  BY <1>7, <1>10, <1>11 DEF b, o

-----------------------------------------------------------------------------
(***************************************************************************)
(* What the axis and the record do.                                        *)
(***************************************************************************)
Same == UNCHANGED <<pos, tgt, lead, mode, stoppedFlag>>

LEMMA Started ==
  ASSUME AxisTypes, NEW t \in Int, NEW l \in Nat, A!Start(Foc, t, l)
  PROVE  AxisTypes' /\ ~Busy /\ Busy' /\ P' = P /\ tgt'[Foc] = t /\ ~stoppedFlag'[Foc]
BY DEF AxisTypes, A!Start, A!AllIdle, Busy, P

\* The motion ends, or goes on.
EndsOrNot ==
  \/ ~Busy' /\ stoppedFlag'[Foc]
  \/ Busy' /\ stoppedFlag' = stoppedFlag

LEMMA Stepped ==
  ASSUME AxisTypes, A!Step(Foc)
  PROVE  /\ AxisTypes' /\ Busy /\ EndsOrNot /\ tgt' = tgt
         /\ P' = P \/ (P < tgt[Foc] /\ P' = P + 1) \/ (P > tgt[Foc] /\ P' = P - 1)
<1>1. /\ pos' \in [{Foc} -> Int] /\ lead' \in [{Foc} -> Nat] /\ tgt' = tgt /\ Busy
      /\ P' = P \/ (P < tgt[Foc] /\ P' = P + 1) \/ (P > tgt[Foc] /\ P' = P - 1)
  BY DEF AxisTypes, A!Step, Busy, P
<1>2. /\ mode' \in [{Foc} -> {"idle", "moving", "halting"}] /\ stoppedFlag' \in [{Foc} -> BOOLEAN]
      /\ EndsOrNot
  BY DEF AxisTypes, A!Step, A!End, Busy, EndsOrNot
<1>3. QED
  BY <1>1, <1>2 DEF AxisTypes

LEMMA Halted ==
  ASSUME AxisTypes, A!RequestHalt(Foc)
  PROVE  AxisTypes' /\ Busy /\ EndsOrNot /\ UNCHANGED <<pos, tgt, lead>>
BY DEF AxisTypes, A!RequestHalt, A!End, Busy, P, EndsOrNot

LEMMA StoppedAtOnce ==
  ASSUME AxisTypes, A!StopAtOnce(Foc)
  PROVE  AxisTypes' /\ Busy /\ ~Busy' /\ stoppedFlag'[Foc] /\ UNCHANGED <<pos, tgt, lead>>
BY DEF AxisTypes, A!StopAtOnce, A!End, Busy, P

LEMMA Reported ==
  ASSUME AxisTypes, A!Report(Foc)
  PROVE  AxisTypes' /\ stoppedFlag[Foc] /\ ~stoppedFlag'[Foc] /\ UNCHANGED <<pos, tgt, lead, mode>>
BY DEF AxisTypes, A!Report

LEMMA Placed ==
  ASSUME AxisTypes, NEW p \in Int, A!Place(Foc, p)
  PROVE  AxisTypes' /\ ~Busy /\ P' = p /\ UNCHANGED <<tgt, lead, mode, stoppedFlag>>
BY DEF AxisTypes, A!Place, Busy, P

\* A record is queued.
LEMMA Queued ==
  ASSUME RecordTypes, NEW r \in SoundRecords, Queue(r), safe' = safe
  PROVE  RecordTypes' /\ wanted' = r
BY DEF RecordTypes, Queue, C!Put

\* Mark and save, whether or not the record changes.
LEMMA Marked ==
  ASSUME Types, MarkMoving, safe' = safe
  PROVE  RecordTypes' /\ wanted'.moving
<1>1. set.usteps \in UstepValues /\ wanted \in SoundRecords
  BY DEF Types, SettingTypes, Settings, RecordTypes
<1>2. [wanted EXCEPT !.moving = TRUE, !.usteps = set.usteps] \in SoundRecords
  BY <1>1 DEF SoundRecords, Records
<1>3. [wanted EXCEPT !.moving = TRUE, !.usteps = set.usteps].moving
  BY <1>1 DEF SoundRecords, Records
<1>4. QED
  BY <1>2, <1>3, Queued DEF MarkMoving, Types, RecordTypes, cellVars

LEMMA Saved ==
  ASSUME Types, NEW p \in Int, NEW u \in BOOLEAN, SavePosition(p, u), safe' = safe
  PROVE  /\ RecordTypes'
         /\ wanted' = [pos |-> p, usteps |-> set.usteps, moving |-> FALSE, saved |-> TRUE, unver |-> u]
<1> DEFINE rec == [pos |-> p, usteps |-> set.usteps, moving |-> FALSE, saved |-> TRUE, unver |-> u]
<1>1. rec \in SoundRecords
  BY DEF Types, SettingTypes, Settings, SoundRecords, Records
<1>2. CASE rec = wanted
  BY <1>2 DEF SavePosition, Types, RecordTypes, cellVars
<1>3. CASE rec # wanted
  BY <1>1, <1>3, Queued DEF SavePosition, Types
<1>4. QED
  BY <1>2, <1>3

\* What a boot may find.
LEMMA Found ==
  ASSUME RecordTypes, NEW rec \in {stored} \cup {flight[i] : i \in DOMAIN flight}
  PROVE  rec \in SoundRecords
BY DEF RecordTypes

LEMMA FoundLater ==
  ASSUME RecordTypes
  PROVE  (IF flight = <<>> THEN stored ELSE flight[1]) \in SoundRecords
BY DEF RecordTypes

-----------------------------------------------------------------------------
(***************************************************************************)
(* Every step keeps the types.                                             *)
(***************************************************************************)
LEMMA UnchangedTypes ==
  /\ AxisTypes /\ Same => AxisTypes'
  /\ RecordTypes /\ UNCHANGED <<wanted, stored, flight, dirty, safe>> => RecordTypes'
  /\ SettingTypes /\ UNCHANGED <<set, savedSet>> => SettingTypes'
  /\ StateTypes /\ UNCHANGED <<unverified, lastDir, moveDir, savePending, truth, trueDir, missed>> => StateTypes'
BY DEF Same, AxisTypes, RecordTypes, SettingTypes, StateTypes

LEMMA TakeUpNat ==
  ASSUME Types, NEW dir
  PROVE  TakeUp(dir) \in Nat
BY DEF Types, SettingTypes, Settings, TakeUp

LEMMA RescaleTypes ==
  ASSUME Types, NEW n \in UstepValues, RescaleAxis(n)
  PROVE  AxisTypes' /\ savePending' \in {"none", "waiting", "due"} /\ truth' \in {"right", "wrong", "lapsed"}
<1>1. CASE n = set.usteps
  BY <1>1 DEF RescaleAxis, Types, AxisTypes, StateTypes, axisVars
<1>2. CASE n # set.usteps
  <2>1. RescaledPos(n) \in Int
    BY RescaledTypes
  <2>2. QED
    BY <1>2, <2>1 DEF RescaleAxis, Rescale, Types, AxisTypes, StateTypes
<1>3. QED
  BY <1>1, <1>2

LEMMA LoadedTypes ==
  ASSUME SettingTypes, NEW rec \in SoundRecords
  PROVE  LoadedPos(rec) \in Int
<1>1. rec.pos \in Int /\ rec.usteps \in UstepValues \cup {0} /\ savedSet.usteps \in UstepValues
  BY DEF SettingTypes, Settings, SoundRecords, Records
<1>2. UstepValues \subseteq Nat \ {0}
  BY SettingsAssumption
<1>3. CASE rec.usteps \in {0, savedSet.usteps}
  BY <1>1, <1>3 DEF LoadedPos
<1>4. CASE rec.usteps \notin {0, savedSet.usteps}
  <2>1. rec.usteps \in UstepValues
    BY <1>1, <1>4
  <2>3. rec.usteps \in Nat \ {0} /\ savedSet.usteps \in Nat \ {0}
    BY <1>1, <1>2, <2>1
  <2>4. rec.usteps \in Nat \ {0} /\ savedSet.usteps \in Int
    BY <2>3
  <2>2. Scale(rec.pos, rec.usteps, savedSet.usteps) \in Int
    BY <1>1, <2>4, ScaleInt
  <2>5. QED
    BY <1>4, <2>2 DEF LoadedPos
<1>5. QED
  BY <1>3, <1>4

LEMMA RestartTypes ==
  ASSUME AxisTypes, Restart, NEW p \in Int, pos' = [pos EXCEPT ![Foc] = p]
  PROVE  AxisTypes' /\ P' = p /\ ~Busy' /\ ~stoppedFlag'[Foc]
BY DEF AxisTypes, Restart, P, Busy

LEMMA BootTypes ==
  ASSUME Types, NEW rec \in SoundRecords, BootFrom(rec)
  PROVE  Types'
<1>1. AxisTypes'
  BY LoadedTypes, RestartTypes DEF BootFrom, Types
<1>2. RecordTypes'
  BY DEF BootFrom, Restart, RecordTypes
<1>3. SettingTypes'
  BY DEF BootFrom, Restart, Types, SettingTypes
<1>4. StateTypes'
  <2>1. unverified' \in BOOLEAN
    BY DEF BootFrom, Trusted
  <2>2. truth' \in {"right", "wrong", "lapsed"}
    BY DEF BootFrom
  <2>3. lastDir' = 0 /\ moveDir' = 0 /\ trueDir' = 0 /\ missed' = FALSE /\ savePending' = "none"
    BY DEF BootFrom, Restart
  <2>4. QED
    BY <2>1, <2>2, <2>3 DEF StateTypes
<1>5. QED
  BY <1>1, <1>2, <1>3, <1>4 DEF Types

LEMMA EndDirectionTypes ==
  ASSUME StateTypes, NEW l, EndDirection(l)
  PROVE  trueDir' \in {-1, 0, 1} /\ missed' \in BOOLEAN
<1>1. trueDir' \in {-1, 0, 1}
  BY DEF StateTypes, EndDirection
<1>2. missed' \in BOOLEAN
  BY DEF StateTypes, EndDirection
<1>3. QED
  BY <1>1, <1>2

LEMMA HostTypes ==
  ASSUME Types, Host
  PROVE  Types'
<1>1. ASSUME NEW t \in MoveTargets, NEW absolute \in BOOLEAN, StartMove(t, absolute) PROVE Types'
  <2>1. t \in Int
    BY SettingsAssumption
  <2>2. AxisTypes'
    BY <1>1, <2>1, TakeUpNat, Started DEF StartMove, Types
  <2>3. RecordTypes'
    BY <1>1, Marked DEF StartMove
  <2>4. SettingTypes'
    BY <1>1 DEF StartMove, setVars, Types, SettingTypes
  <2>5. StateTypes'
    <3>1. moveDir' \in {-1, 0, 1} /\ missed' \in BOOLEAN
      BY <1>1 DEF StartMove, Direction, Types, StateTypes, AxisTypes
    <3>2. savePending' = "none" /\ UNCHANGED <<unverified, lastDir, truth, trueDir>>
      BY <1>1 DEF StartMove
    <3>3. QED
      BY <3>1, <3>2 DEF Types, StateTypes
  <2>6. QED
    BY <2>2, <2>3, <2>4, <2>5 DEF Types
<1>2. CASE Halt
  <2>1. AxisTypes'
    BY <1>2, Halted DEF Halt, Types
  <2>2. RecordTypes' /\ SettingTypes'
    BY <1>2, UnchangedTypes DEF Halt, cellVars, setVars, Types
  <2>3. StateTypes'
    BY <1>2, EndDirectionTypes DEF Halt, focVars, Types, StateTypes
  <2>4. QED
    BY <2>1, <2>2, <2>3 DEF Types
<1>3. ASSUME NEW p \in SyncValues, Sync(p) PROVE Types'
  <2>1. p \in Int
    BY SettingsAssumption
  <2>2. AxisTypes'
    BY <1>3, <2>1, Placed DEF Sync, Types
  <2>3. RecordTypes'
    BY <1>3, <2>1, Saved DEF Sync
  <2>4. SettingTypes' /\ StateTypes'
    BY <1>3 DEF Sync, setVars, Types, SettingTypes, StateTypes
  <2>5. QED
    BY <2>2, <2>3, <2>4 DEF Types
<1>4. ASSUME NEW v \in MaxPosValues, SetMax(v) PROVE Types'
  <2>1. set' \in Settings
    BY <1>4, SettingsAssumption DEF SetMax, Types, SettingTypes, Settings
  <2>2. QED
    BY <1>4, <2>1, UnchangedTypes DEF SetMax, axisVars, cellVars, focVars, ghostVars, Same, Types, SettingTypes
<1>5. ASSUME NEW b \in BacklashValues, SetBacklash(b) PROVE Types'
  <2>1. set' \in Settings
    BY <1>5, SettingsAssumption DEF SetBacklash, Types, SettingTypes, Settings
  <2>2. QED
    BY <1>5, <2>1, UnchangedTypes DEF SetBacklash, axisVars, cellVars, focVars, ghostVars, Same, Types, SettingTypes
<1>6. ASSUME NEW n \in UstepValues, SetUsteps(n) PROVE Types'
  <2>1. AxisTypes' /\ savePending' \in {"none", "waiting", "due"} /\ truth' \in {"right", "wrong", "lapsed"}
    BY <1>6, RescaleTypes DEF SetUsteps
  <2>2. set' \in Settings
    BY <1>6, RescaledTypes DEF SetUsteps, Settings
  <2>3. RecordTypes' /\ savedSet' \in Settings
    BY <1>6, UnchangedTypes DEF SetUsteps, cellVars, Types, SettingTypes
  <2>4. StateTypes'
    BY <1>6, <2>1 DEF SetUsteps, Types, StateTypes
  <2>5. QED
    BY <2>1, <2>2, <2>3, <2>4 DEF Types, SettingTypes
<1>7. CASE ResetDefaults
  <2>1. Defaults \in Settings /\ Defaults.usteps \in UstepValues
    BY SettingsAssumption DEF Settings
  <2>2. AxisTypes' /\ savePending' \in {"none", "waiting", "due"} /\ truth' \in {"right", "wrong", "lapsed"}
    BY <1>7, <2>1, RescaleTypes DEF ResetDefaults
  <2>3. RecordTypes' /\ set' \in Settings /\ savedSet' \in Settings
    BY <1>7, <2>1, UnchangedTypes DEF ResetDefaults, cellVars, Types, SettingTypes
  <2>4. StateTypes'
    BY <1>7, <2>2 DEF ResetDefaults, Types, StateTypes
  <2>5. QED
    BY <2>2, <2>3, <2>4 DEF Types, SettingTypes
<1>8. CASE SaveSettings
  <2>1. RecordTypes'
    BY <1>8 DEF SaveSettings, Types, RecordTypes
  <2>2. QED
    BY <1>8, <2>1, UnchangedTypes DEF SaveSettings, axisVars, focVars, ghostVars, Same, Types, SettingTypes
<1>9. CASE Reboot
  BY <1>9, FoundLater, BootTypes DEF Reboot, Types
<1>10. QED
  BY <1>1, <1>2, <1>3, <1>4, <1>5, <1>6, <1>7, <1>8, <1>9 DEF Host

LEMMA TypesKept ==
  ASSUME Types, [Next]_vars
  PROVE  Types'
<1>1. CASE Host
  BY <1>1, HostTypes
<1>2. CASE Step
  <2>1. AxisTypes'
    BY <1>2, Stepped DEF Step, Types
  <2>2. RecordTypes' /\ SettingTypes'
    BY <1>2, UnchangedTypes DEF Step, cellVars, setVars, Types
  <2>3. StateTypes'
    BY <1>2, EndDirectionTypes DEF Step, focVars, Types, StateTypes
  <2>4. QED
    BY <2>1, <2>2, <2>3 DEF Types
<1>3. CASE NoteStop /\ Update
  <2>1. AxisTypes'
    BY <1>3, Reported DEF NoteStop, Types
  <2>2. RecordTypes' /\ SettingTypes'
    BY <1>3, UnchangedTypes DEF Update, NoteStop, cellVars, setVars, Types
  <2>3. StateTypes'
    BY <1>3 DEF Update, NoteStop, ghostVars, Types, StateTypes
  <2>4. QED
    BY <2>1, <2>2, <2>3 DEF Types
<1>4. CASE SaveWhenIdle /\ Update
  <2>1. P \in Int /\ unverified \in BOOLEAN
    BY DEF Types, AxisTypes, P, StateTypes
  <2>2. RecordTypes'
    BY <1>4, <2>1, Saved DEF SaveWhenIdle, Update
  <2>3. AxisTypes' /\ SettingTypes'
    BY <1>4, UnchangedTypes DEF Update, SaveWhenIdle, axisVars, setVars, Same, Types
  <2>4. StateTypes'
    BY <1>4 DEF Update, SaveWhenIdle, ghostVars, Types, StateTypes
  <2>5. QED
    BY <2>2, <2>3, <2>4 DEF Types
<1>5. CASE HandOver \/ Land
  <2>1. RecordTypes'
    <3>1. CASE HandOver
      BY <3>1 DEF HandOver, C!HandOver, Types, RecordTypes
    <3>2. CASE Land
      BY <3>2 DEF Land, C!Land, Types, RecordTypes
    <3>3. QED
      BY <1>5, <3>1, <3>2
  <2>2. QED
    BY <1>5, <2>1, UnchangedTypes DEF HandOver, Land, axisVars, setVars, focVars, ghostVars, Same, Types
<1>6. CASE DelayOver
  BY <1>6, UnchangedTypes DEF DelayOver, axisVars, cellVars, setVars, ghostVars, Same, Types, StateTypes
<1>7. CASE RotatorMoves
  <2>1. [wanted EXCEPT !.usteps = set.usteps] \in SoundRecords
    BY DEF Types, RecordTypes, SettingTypes, Settings, SoundRecords, Records
  <2>2. RecordTypes'
    BY <1>7, <2>1, Queued DEF RotatorMoves, Types
  <2>3. AxisTypes' /\ SettingTypes'
    BY <1>7, UnchangedTypes DEF RotatorMoves, axisVars, setVars, Same, Types
  <2>4. StateTypes'
    BY <1>7 DEF RotatorMoves, focVars, Types, StateTypes
  <2>5. QED
    BY <2>2, <2>3, <2>4 DEF Types
<1>8. CASE FaultStop
  <2>1. AxisTypes'
    BY <1>8, Stepped, StoppedAtOnce DEF FaultStop, Types
  <2>2. RecordTypes' /\ SettingTypes'
    BY <1>8, UnchangedTypes DEF FaultStop, cellVars, setVars, Types
  <2>3. trueDir' \in {-1, 0, 1} /\ missed' \in BOOLEAN
    BY <1>8, EndDirectionTypes DEF FaultStop, Types
  <2>4. StateTypes'
    BY <1>8, <2>3 DEF FaultStop, Types, StateTypes
  <2>5. QED
    BY <2>1, <2>2, <2>4 DEF Types
<1>9. CASE PowerCut
  BY <1>9, Found, BootTypes DEF PowerCut, Types
<1>10. CASE WatchdogReset
  <2>1. AxisTypes'
    <3>1. 0 \in Int /\ Restart /\ pos' = [pos EXCEPT ![Foc] = 0]
      BY <1>10 DEF WatchdogReset
    <3>2. QED
      BY <3>1, RestartTypes DEF Types
  <2>2. Blank \in SoundRecords
    BY DEF Blank, SoundRecords, Records
  <2>3. RecordTypes'
    <3>1. stored' \in SoundRecords
      BY <1>10, FoundLater DEF WatchdogReset, Types
    <3>2. wanted' = Blank /\ flight' = <<>> /\ dirty' = FALSE /\ safe' = TRUE
      BY <1>10 DEF WatchdogReset, Restart
    <3>3. QED
      BY <2>2, <3>1, <3>2 DEF RecordTypes
  <2>6. Defaults \in Settings
    BY SettingsAssumption DEF Settings
  <2>4. SettingTypes' /\ StateTypes'
    BY <1>10, <2>6 DEF WatchdogReset, Restart, Types, SettingTypes, StateTypes
  <2>5. QED
    BY <2>1, <2>3, <2>4 DEF Types
<1>11. CASE UNCHANGED vars
  BY <1>11, UnchangedTypes DEF vars, Same, Types
<1>12. QED
  BY <1>1, <1>2, <1>3, <1>4, <1>5, <1>6, <1>7, <1>8, <1>9, <1>10, <1>11 DEF Next, Environment, Update

-----------------------------------------------------------------------------
(***************************************************************************)
(* A position shown as verified stays the real one.                        *)
(***************************************************************************)
Trust == Types /\ TrustedRight /\ RecordTrue

\* Steps that change neither the record nor the place nor the history.
LEMMA TrustUnchanged ==
  ASSUME Trust, UNCHANGED <<pos, mode, wanted, unverified, truth>>, set'.usteps = set.usteps
  PROVE  (TrustedRight /\ RecordTrue)'
BY DEF Trust, TrustedRight, RecordTrue, P, Busy, Trusted

\* A move that runs, or that a fault ends, has no trusted record.
LEMMA TrustMoving ==
  ASSUME Trust, Busy \/ wanted'.moving, UNCHANGED set, wanted'.moving \/ wanted' = wanted,
         \/ UNCHANGED <<unverified, truth>>
         \/ unverified' = TRUE /\ truth' = IF truth = "lapsed" THEN "lapsed" ELSE "wrong"
  PROVE  (TrustedRight /\ RecordTrue)'
<1>1. ~Trusted(wanted)' \/ (truth = "lapsed" /\ truth' = "lapsed")
  BY DEF Trust, RecordTrue, Trusted
<1>2. QED
  BY <1>1 DEF Trust, TrustedRight, RecordTrue, Trusted

\* The position is saved with the flag it has.
LEMMA TrustSaved ==
  ASSUME Trust, Types', ~Busy', set' = set, unverified' \in BOOLEAN, ~unverified' => truth' # "wrong",
         wanted' = [pos |-> P', usteps |-> set.usteps, moving |-> FALSE, saved |-> TRUE, unver |-> unverified']
  PROVE  (TrustedRight /\ RecordTrue)'
<1>1. truth' \in {"right", "wrong", "lapsed"}
  BY DEF Types, StateTypes
<1>2. wanted'.pos = P' /\ wanted'.usteps = set'.usteps /\ wanted'.unver = unverified'
  OBVIOUS
<1>3. QED
  BY <1>1, <1>2 DEF TrustedRight, RecordTrue, Trusted

LEMMA UstepTypes ==
  ASSUME Types
  PROVE  /\ UstepValues \subseteq Nat \ {0}
         /\ set.usteps \in UstepValues /\ savedSet.usteps \in UstepValues
         /\ wanted.pos \in Int /\ wanted.usteps \in Nat /\ (wanted.saved => wanted.usteps \in UstepValues)
<1>1. UstepValues \subseteq Nat \ {0}
  BY SettingsAssumption
<1>2. set.usteps \in UstepValues /\ savedSet.usteps \in UstepValues
  BY DEF Types, SettingTypes, Settings
<1>3. wanted.pos \in Int /\ wanted.usteps \in UstepValues \cup {0} /\ (wanted.saved => wanted.usteps \in UstepValues)
  BY DEF Types, RecordTypes, SoundRecords, Records
<1>4. wanted.usteps \in Nat
  <2>1. CASE wanted.usteps \in UstepValues
    BY <1>1, <2>1
  <2>2. CASE wanted.usteps = 0
    BY <2>2
  <2>3. QED
    BY <1>3, <2>1, <2>2
<1>5. QED
  BY <1>1, <1>2, <1>3, <1>4

\* Microsteps change: nothing is lost, or the position has lapsed.
LEMMA TrustRescaled ==
  ASSUME Trust, Types', ~Busy, NEW n \in UstepValues, RescaleAxis(n), set'.usteps = n, UNCHANGED <<wanted, unverified>>
  PROVE  (TrustedRight /\ RecordTrue)'
<1>1. CASE n = set.usteps
  BY <1>1, TrustUnchanged DEF RescaleAxis, axisVars
<1>2. CASE n # set.usteps
  <2>1. /\ P' = RescaledPos(n) /\ ~Busy'
        /\ truth' = IF truth = "right" /\ RescaleLoses(n) THEN "lapsed" ELSE truth
    BY <1>2 DEF RescaleAxis, Rescale, Trust, Types, AxisTypes, P, Busy
  <2>2. TrustedRight'
    BY <2>1 DEF Trust, TrustedRight
  <2>3. ASSUME Trusted(wanted), truth' # "lapsed" PROVE truth' = "right" /\ wanted.pos * n = P' * wanted.usteps
    <3>1. truth = "right" /\ truth' = "right" /\ ~RescaleLoses(n) /\ wanted.pos * set.usteps = P * wanted.usteps
      BY <2>1, <2>3 DEF Trust, RecordTrue
    <3>2. /\ P \in Int /\ P' \in Int /\ wanted.pos \in Int
          /\ set.usteps \in Nat \ {0} /\ n \in Nat \ {0} /\ wanted.usteps \in Nat \ {0}
      <4>1. P \in Int /\ P' \in Int
        BY DEF Trust, Types, AxisTypes, P
      <4>2. wanted.usteps \in UstepValues
        BY <2>3, UstepTypes DEF Trust, Trusted
      <4>3. QED
        BY <4>1, <4>2, UstepTypes DEF Trust
    <3>3. P' = (P * n) \div set.usteps /\ (P * n) % set.usteps = 0
      BY <2>1, <3>1 DEF RescaleLoses, Scale
    <3>4. P * n \in Int
      BY <3>2
    <3>5. P' * set.usteps = P * n
      BY <3>2, <3>3, <3>4, DivExact
    <3>6. wanted.pos * n = P' * wanted.usteps
      <4> DEFINE w == wanted.pos
                 u == wanted.usteps
                 o == set.usteps
                 p == P
                 q == P'
      <4>1. /\ p \in Int /\ q \in Int /\ w \in Int /\ o \in Nat \ {0} /\ n \in Nat \ {0} /\ u \in Nat \ {0}
            /\ w * o = p * u /\ q * o = p * n
        BY <3>1, <3>2, <3>5
      <4> HIDE DEF w, u, o, p, q
      <4>2. w * n = q * u
        BY <4>1, SamePlaceRescaled
      <4>3. QED
        BY <4>2 DEF w, u, q
    <3>7. QED
      BY <3>1, <3>6
  <2>4. QED
    BY <2>1, <2>2, <2>3 DEF RecordTrue, Trusted
<1>3. QED
  BY <1>1, <1>2

\* A boot trusts only the record it held, exact in the microsteps it boots with.
LEMMA TrustBooted ==
  ASSUME Trust, Types', NEW rec \in SoundRecords, BootFrom(rec)
  PROVE  (TrustedRight /\ RecordTrue)'
<1>1. wanted' = rec /\ unverified' = ~Trusted(rec) /\ set' = savedSet
  BY DEF BootFrom
<1>2. P' = LoadedPos(rec) /\ ~Busy'
  BY LoadedTypes, RestartTypes DEF BootFrom, Trust, Types
<1>3. ASSUME Trusted(rec), truth' # "lapsed" PROVE truth' = "right" /\ rec.pos * savedSet.usteps = LoadedPos(rec) * rec.usteps
  <2>1. ~safe /\ rec = wanted /\ (rec.pos * savedSet.usteps) % rec.usteps = 0 /\ truth # "lapsed"
    BY <1>3 DEF BootFrom, BootLoses
  <2>2. truth = "right" /\ ~Busy /\ rec.pos * set.usteps = P * rec.usteps
    BY <1>3, <2>1 DEF Trust, RecordTrue
  <2>3. truth' = "right"
    BY <1>3, <2>1, <2>2 DEF BootFrom, SamePlace, Trusted, BootLoses
  <2>4. /\ rec.pos \in Int /\ rec.usteps \in Nat \ {0} /\ savedSet.usteps \in Nat \ {0}
    BY <1>3, <2>1, UstepTypes DEF Trust, Trusted
  <2>5. CASE rec.usteps = savedSet.usteps
    BY <2>3, <2>5 DEF LoadedPos
  <2>6. CASE rec.usteps # savedSet.usteps
    <3>1. LoadedPos(rec) = (rec.pos * savedSet.usteps) \div rec.usteps
      BY <2>4, <2>6 DEF LoadedPos, Scale
    <3>2. rec.pos * savedSet.usteps \in Int
      BY <2>4
    <3>3. LoadedPos(rec) * rec.usteps = rec.pos * savedSet.usteps
      <4> DEFINE x == rec.pos * savedSet.usteps
                 u == rec.usteps
      <4>1. x \in Int /\ u \in Nat \ {0} /\ x % u = 0 /\ LoadedPos(rec) = x \div u
        BY <2>1, <2>4, <3>1, <3>2
      <4> HIDE DEF x, u
      <4>2. (x \div u) * u = x
        BY <4>1, DivExact
      <4>3. QED
        BY <4>1, <4>2 DEF x, u
    <3>4. QED
      BY <2>3, <3>3
  <2>7. QED
    BY <2>5, <2>6
<1>4. truth' \in {"right", "wrong", "lapsed"}
  BY DEF Types, StateTypes
<1>5. TrustedRight'
  BY <1>1, <1>3 DEF TrustedRight
<1>6. RecordTrue'
  BY <1>1, <1>2, <1>3 DEF RecordTrue, Trusted
<1>7. QED
  BY <1>5, <1>6

LEMMA TrustKept ==
  ASSUME Trust, [Next]_vars
  PROVE  (TrustedRight /\ RecordTrue)'
<1>1. Types'
  BY TypesKept DEF Trust
<1>2. CASE Host
  <2>1. ASSUME NEW t \in MoveTargets, NEW absolute \in BOOLEAN, StartMove(t, absolute) PROVE (TrustedRight /\ RecordTrue)'
    <3>1. wanted'.moving
      BY <2>1, Marked DEF StartMove, Trust
    <3>2. QED
      BY <2>1, <3>1, TrustMoving DEF StartMove, setVars
  <2>2. CASE Halt
    <3>1. Busy
      BY <2>2, Halted DEF Halt, Trust, Types
    <3>2. QED
      BY <2>2, <3>1, TrustMoving DEF Halt, setVars, cellVars, focVars
  <2>3. ASSUME NEW p \in SyncValues, Sync(p) PROVE (TrustedRight /\ RecordTrue)'
    <3>1. p \in Int
      BY SettingsAssumption
    <3>2. P' = p /\ ~Busy'
      BY <2>3, <3>1, Placed DEF Sync, Trust, Types, Busy
    <3>3. wanted' = [pos |-> p, usteps |-> set.usteps, moving |-> FALSE, saved |-> TRUE, unver |-> FALSE]
      BY <2>3, <3>1, Saved DEF Sync, Trust
    <3>4. unverified' = FALSE /\ truth' = "right" /\ set' = set
      BY <2>3 DEF Sync, setVars
    <3>5. QED
      BY <1>1, <3>2, <3>3, <3>4, TrustSaved
  <2>4. ASSUME NEW v \in MaxPosValues, SetMax(v) PROVE (TrustedRight /\ RecordTrue)'
    <3>1. set'.usteps = set.usteps
      BY <2>4 DEF SetMax, Trust, Types, SettingTypes, Settings
    <3>2. QED
      BY <2>4, <3>1, TrustUnchanged DEF SetMax, axisVars, cellVars, focVars, ghostVars
  <2>5. ASSUME NEW b \in BacklashValues, SetBacklash(b) PROVE (TrustedRight /\ RecordTrue)'
    <3>1. set'.usteps = set.usteps
      BY <2>5 DEF SetBacklash, Trust, Types, SettingTypes, Settings
    <3>2. QED
      BY <2>5, <3>1, TrustUnchanged DEF SetBacklash, axisVars, cellVars, focVars, ghostVars
  <2>6. ASSUME NEW n \in UstepValues, SetUsteps(n) PROVE (TrustedRight /\ RecordTrue)'
    BY <1>1, <2>6, TrustRescaled DEF SetUsteps, cellVars
  <2>7. CASE ResetDefaults
    <3>1. Defaults.usteps \in UstepValues
      BY SettingsAssumption
    <3>2. QED
      BY <1>1, <2>7, <3>1, TrustRescaled DEF ResetDefaults, cellVars
  <2>8. CASE SaveSettings
    BY <2>8, TrustUnchanged DEF SaveSettings, axisVars, focVars, ghostVars
  <2>9. CASE Reboot
    BY <1>1, <2>9, FoundLater, TrustBooted DEF Reboot, Trust, Types
  <2>10. QED
    BY <1>2, <2>1, <2>2, <2>3, <2>4, <2>5, <2>6, <2>7, <2>8, <2>9 DEF Host
<1>3. CASE Step
  <2>1. Busy
    BY <1>3, Stepped DEF Step, Trust, Types
  <2>2. QED
    BY <1>3, <2>1, TrustMoving DEF Step, cellVars, setVars, focVars
<1>4. CASE FaultStop
  <2>1. Busy
    BY <1>4, Stepped, StoppedAtOnce DEF FaultStop, Trust, Types
  <2>2. QED
    BY <1>4, <2>1, TrustMoving DEF FaultStop, cellVars, setVars
<1>5. CASE NoteStop /\ Update
  <2>1. UNCHANGED <<pos, mode>>
    BY <1>5, Reported DEF NoteStop, Trust, Types
  <2>2. QED
    BY <1>5, <2>1, TrustUnchanged DEF Update, NoteStop, cellVars, setVars, ghostVars
<1>6. CASE SaveWhenIdle /\ Update
  <2>1. P \in Int /\ unverified \in BOOLEAN
    BY DEF Trust, Types, AxisTypes, P, StateTypes
  <2>2. wanted' = [pos |-> P, usteps |-> set.usteps, moving |-> FALSE, saved |-> TRUE, unver |-> unverified]
    BY <1>6, <2>1, Saved DEF SaveWhenIdle, Update, Trust
  <2>3. ~Busy' /\ P' = P /\ UNCHANGED <<set, unverified, truth>>
    BY <1>6 DEF SaveWhenIdle, Update, axisVars, setVars, ghostVars, Busy, P
  <2>4. QED
    BY <1>1, <2>1, <2>2, <2>3, TrustSaved DEF Trust, TrustedRight
<1>7. CASE HandOver \/ Land \/ DelayOver \/ UNCHANGED vars
  <2>1. UNCHANGED <<pos, mode, wanted, unverified, truth, set>>
    BY <1>7 DEF HandOver, Land, DelayOver, vars, C!HandOver, C!Land, axisVars, setVars, focVars, cellVars, ghostVars
  <2>2. QED
    BY <2>1, TrustUnchanged
<1>8. CASE RotatorMoves
  <2>1. [wanted EXCEPT !.usteps = set.usteps] \in SoundRecords
    BY DEF Trust, Types, RecordTypes, SettingTypes, Settings, SoundRecords, Records
  <2>2. wanted' = [wanted EXCEPT !.usteps = set.usteps]
    BY <1>8, <2>1, Queued DEF RotatorMoves, Trust, Types
  <2>3. Trusted(wanted') = Trusted(wanted) /\ wanted'.pos = wanted.pos /\ wanted'.usteps = set.usteps
    BY <2>2 DEF Trusted, Trust, Types, RecordTypes, SoundRecords, Records
  <2>4. /\ truth' = IF wanted.usteps # set.usteps /\ Trusted(wanted) THEN "lapsed" ELSE truth
        /\ UNCHANGED <<pos, mode, set, unverified>>
    BY <1>8 DEF RotatorMoves, axisVars, setVars, focVars
  <2>5. QED
    BY <2>3, <2>4 DEF Trust, TrustedRight, RecordTrue, P, Busy
<1>9. CASE PowerCut
  BY <1>1, <1>9, Found, TrustBooted DEF PowerCut, Trust, Types
<1>10. CASE WatchdogReset
  BY <1>10 DEF WatchdogReset, Blank, Trusted, TrustedRight, RecordTrue
<1>11. QED
  BY <1>2, <1>3, <1>4, <1>5, <1>6, <1>7, <1>8, <1>9, <1>10 DEF Next, Environment, Update

-----------------------------------------------------------------------------
(***************************************************************************)
(* Limits, directions and the mark.                                        *)
(***************************************************************************)
\* Only a move that starts has a new target, and no soft limit is set below the target of a move upwards.
LEMMA TargetKept ==
  ASSUME Types, TargetInside, [Next]_vars
  PROVE  TargetInside'
<1> USE DEF Types
<1>1. P \in Int /\ tgt[Foc] \in Int /\ set.maxPos \in Int
  BY DEF AxisTypes, P, SettingTypes, Settings
<1>2. CASE ~Busy'
  BY <1>2 DEF TargetInside
<1>3. ASSUME NEW t \in MoveTargets, NEW absolute \in BOOLEAN, StartMove(t, absolute) PROVE TargetInside'
  <2>1. t \in Int
    BY SettingsAssumption
  <2>2. tgt'[Foc] = t
    BY <1>3, <2>1, TakeUpNat, Started DEF StartMove
  <2>3. QED
    BY <1>3, <2>2 DEF StartMove, setVars, TargetAllowed, TargetInside
<1>4. ASSUME NEW v \in MaxPosValues, SetMax(v) PROVE TargetInside'
  <2>1. set'.maxPos = v /\ UNCHANGED <<pos, tgt, mode>>
    BY <1>4 DEF SetMax, axisVars, SettingTypes, Settings
  <2>2. v \in Int /\ v >= MaxFloor
    BY <1>4, SettingsAssumption, LimitAssumption DEF SetMax
  <2>3. QED
    BY <1>1, <2>1, <2>2 DEF TargetInside, MaxFloor, Busy, P
<1>5. CASE Step \/ FaultStop
  <2>1. CASE A!Step(Foc)
    <3>1. Busy /\ tgt' = tgt /\ (P' = P \/ (P < tgt[Foc] /\ P' = P + 1) \/ (P > tgt[Foc] /\ P' = P - 1))
      BY <2>1, Stepped
    <3>2. set' = set
      BY <1>5 DEF Step, FaultStop, setVars
    <3>3. QED
      BY <1>1, <3>1, <3>2 DEF TargetInside
  <2>2. CASE A!StopAtOnce(Foc)
    BY <1>2, <2>2, StoppedAtOnce
  <2>3. QED
    BY <1>5, <2>1, <2>2 DEF Step, FaultStop
<1>6. CASE Halt
  <2>1. Busy /\ UNCHANGED <<pos, tgt, set>>
    BY <1>6, Halted DEF Halt, setVars
  <2>2. QED
    BY <2>1 DEF TargetInside, P
<1>7. ASSUME Busy', UNCHANGED <<pos, tgt, mode>>, set'.maxPos = set.maxPos PROVE TargetInside'
  BY <1>7 DEF TargetInside, Busy, P
<1>8. CASE Update
  <2>1. UNCHANGED <<pos, tgt, mode, set>>
    BY <1>8, Reported DEF Update, NoteStop, SaveWhenIdle, axisVars, setVars
  <2>2. QED
    BY <1>2, <1>7, <2>1
<1>9. ASSUME NEW b \in BacklashValues, SetBacklash(b) PROVE TargetInside'
  <2>1. set'.maxPos = set.maxPos /\ UNCHANGED <<pos, tgt, mode>>
    BY <1>9 DEF SetBacklash, axisVars, SettingTypes, Settings
  <2>2. QED
    BY <1>2, <1>7, <2>1
<1>10. ASSUME \/ \E p \in SyncValues : Sync(p)
              \/ \E n \in UstepValues : SetUsteps(n)
              \/ ResetDefaults
       PROVE  TargetInside'
  <2>1. ~Busy /\ mode' = mode
    <3>1. CASE \E p \in SyncValues : Sync(p)
      BY <3>1 DEF Sync, A!Place
    <3>2. CASE (\E n \in UstepValues : SetUsteps(n)) \/ ResetDefaults
      BY <3>2 DEF SetUsteps, ResetDefaults, RescaleAxis, Rescale, axisVars
    <3>3. QED
      BY <1>10, <3>1, <3>2
  <2>2. QED
    BY <1>2, <2>1 DEF Busy
<1>11. CASE SaveSettings \/ HandOver \/ Land \/ DelayOver \/ RotatorMoves \/ UNCHANGED vars
  <2>1. UNCHANGED <<pos, tgt, mode, set>>
    BY <1>11 DEF SaveSettings, HandOver, Land, DelayOver, RotatorMoves, vars, axisVars, setVars
  <2>2. QED
    BY <1>2, <1>7, <2>1
<1>12. CASE Reboot \/ PowerCut \/ WatchdogReset
  <2>1. Restart
    BY <1>12 DEF Reboot, PowerCut, WatchdogReset, BootFrom
  <2>2. QED
    BY <1>2, <2>1 DEF Restart, Busy, AxisTypes
<1>13. QED
  BY <1>3, <1>4, <1>5, <1>6, <1>8, <1>9, <1>10, <1>11, <1>12 DEF Next, Host, Environment

\* The end of a move, or its going on, keeps the history of directions in order.
LEMMA DirectionOfMove ==
  ASSUME Types, Types', DirectionSound, Busy, EndsOrNot, EndDirection(lead'[Foc]), UNCHANGED <<lastDir, moveDir>>
  PROVE  DirectionSound'
<1> DEFINE full == ~Busy' /\ lead'[Foc] = 0
<1>1. trueDir' = (IF full THEN moveDir ELSE trueDir) /\ (missed' <=> missed /\ ~full)
  BY DEF EndDirection, Busy, Types, StateTypes
<1>2. moveDir # 0 /\ ~stoppedFlag[Foc] /\ (~missed => lastDir = trueDir)
  BY DEF DirectionSound
<1>3. lead'[Foc] \in Nat /\ stoppedFlag[Foc] \in BOOLEAN /\ stoppedFlag'[Foc] \in BOOLEAN
  BY DEF Types, AxisTypes
<1>4. CASE Busy'
  BY <1>1, <1>2, <1>4 DEF DirectionSound, EndsOrNot
<1>5. CASE ~Busy'
  BY <1>1, <1>2, <1>5 DEF DirectionSound, EndsOrNot
<1>6. QED
  BY <1>4, <1>5

LEMMA DirectionUnchanged ==
  ASSUME DirectionSound, UNCHANGED <<lead, mode, stoppedFlag, lastDir, moveDir, trueDir, missed>>
  PROVE  DirectionSound'
BY DEF DirectionSound, Busy

LEMMA DirectionAnew ==
  ASSUME Types, Restart
  PROVE  DirectionSound'
BY DEF Types, AxisTypes, Restart, DirectionSound, Busy

LEMMA DirectionSoundKept ==
  ASSUME Types, DirectionSound, [Next]_vars
  PROVE  DirectionSound'
<1>1. Types'
  BY TypesKept
<1>2. ASSUME NEW t \in MoveTargets, NEW absolute \in BOOLEAN, StartMove(t, absolute) PROVE DirectionSound'
  <2>1. t \in Int
    BY SettingsAssumption
  <2>2. Busy' /\ ~stoppedFlag'[Foc] /\ ~Busy
    BY <1>2, <2>1, TakeUpNat, Started DEF StartMove, Types
  <2>3. moveDir' # 0 /\ UNCHANGED <<lastDir, trueDir>>
    BY <1>2 DEF StartMove, Direction
  <2>4. ~missed' => ~missed /\ ~stoppedFlag[Foc]
    BY <1>2 DEF StartMove
  <2>5. QED
    BY <2>2, <2>3, <2>4 DEF DirectionSound
<1>3. CASE Step
  BY <1>1, <1>3, Stepped, DirectionOfMove DEF Step, focVars, Types
<1>4. CASE Halt
  <2>1. Busy /\ EndsOrNot /\ lead' = lead
    BY <1>4, Halted DEF Halt, Types
  <2>2. QED
    BY <1>1, <1>4, <2>1, DirectionOfMove DEF Halt, focVars
<1>5. CASE FaultStop
  <2>1. CASE A!StopAtOnce(Foc) /\ EndDirection(lead[Foc])
    <3>1. Busy /\ EndsOrNot /\ lead' = lead
      BY <2>1, StoppedAtOnce DEF EndsOrNot, Types
    <3>2. QED
      BY <1>1, <1>5, <2>1, <3>1, DirectionOfMove DEF FaultStop
  <2>2. CASE A!Step(Foc) /\ EndDirection(lead'[Foc])
    BY <1>1, <1>5, <2>2, Stepped, DirectionOfMove DEF FaultStop, Types
  <2>3. QED
    BY <1>5, <2>1, <2>2 DEF FaultStop
<1>6. CASE NoteStop /\ Update
  <2>1. stoppedFlag[Foc] /\ ~stoppedFlag'[Foc] /\ UNCHANGED <<lead, mode>>
    BY <1>6, Reported DEF NoteStop, Types
  <2>2. ~Busy /\ ~Busy'
    BY <2>1 DEF DirectionSound, Busy
  <2>3. lastDir' = (IF moveDir # 0 /\ lead[Foc] = 0 THEN moveDir ELSE lastDir) /\ UNCHANGED <<trueDir, missed>>
    BY <1>6 DEF NoteStop, Update, ghostVars
  <2>4. QED
    BY <2>1, <2>2, <2>3 DEF DirectionSound
<1>7. ASSUME UNCHANGED <<lead, mode, stoppedFlag, lastDir, moveDir, trueDir, missed>> PROVE DirectionSound'
  BY <1>7, DirectionUnchanged
<1>8. CASE SaveWhenIdle /\ Update
  BY <1>7, <1>8 DEF SaveWhenIdle, Update, axisVars, ghostVars
<1>9. ASSUME \/ \E p \in SyncValues : Sync(p)
             \/ \E n \in UstepValues : SetUsteps(n)
             \/ ResetDefaults
      PROVE  DirectionSound'
  <2>1. CASE \E p \in SyncValues : Sync(p)
    BY <1>7, <2>1 DEF Sync, A!Place
  <2>2. CASE (\E n \in UstepValues : SetUsteps(n)) \/ ResetDefaults
    <3>1. UNCHANGED <<lead, mode, stoppedFlag, lastDir, moveDir, trueDir, missed>>
      BY <2>2 DEF SetUsteps, ResetDefaults, RescaleAxis, Rescale, axisVars
    <3>2. QED
      BY <1>7, <3>1
  <2>3. QED
    BY <1>9, <2>1, <2>2
<1>10. ASSUME \/ \E v \in MaxPosValues : SetMax(v)
              \/ \E b \in BacklashValues : SetBacklash(b)
              \/ SaveSettings \/ HandOver \/ Land \/ DelayOver \/ RotatorMoves \/ UNCHANGED vars
       PROVE  DirectionSound'
  <2>1. UNCHANGED <<lead, mode, stoppedFlag, lastDir, moveDir, trueDir, missed>>
    BY <1>10 DEF SetMax, SetBacklash, SaveSettings, HandOver, Land, DelayOver, RotatorMoves, vars, axisVars, focVars, ghostVars
  <2>2. QED
    BY <1>7, <2>1
<1>11. CASE Reboot \/ PowerCut \/ WatchdogReset
  BY <1>11, DirectionAnew DEF Reboot, PowerCut, WatchdogReset, BootFrom
<1>12. QED
  BY <1>2, <1>3, <1>4, <1>5, <1>6, <1>8, <1>9, <1>10, <1>11 DEF Next, Host, Environment, Update

\* The mark goes with the save that the end of a move plans, or with the sync that makes it needless.
LEMMA MarkKept ==
  ASSUME Types, MarkWillClear, [Next]_vars
  PROVE  MarkWillClear'
<1> USE DEF Types
<1>1. ASSUME NEW t \in MoveTargets, NEW absolute \in BOOLEAN, StartMove(t, absolute) PROVE MarkWillClear'
  <2>1. t \in Int
    BY SettingsAssumption
  <2>2. Busy'
    BY <1>1, <2>1, TakeUpNat, Started DEF StartMove
  <2>3. QED
    BY <2>2 DEF MarkWillClear
<1>2. ASSUME EndsOrNot PROVE MarkWillClear'
  BY <1>2 DEF EndsOrNot, MarkWillClear
<1>3. CASE Step \/ Halt \/ FaultStop
  BY <1>2, <1>3, Stepped, Halted DEF Step, Halt, FaultStop, MarkWillClear
<1>4. CASE Update
  <2>1. CASE NoteStop
    BY <2>1 DEF NoteStop, MarkWillClear
  <2>2. CASE SaveWhenIdle
    <3>1. P \in Int /\ unverified \in BOOLEAN
      BY DEF AxisTypes, P, StateTypes
    <3>2. ~wanted'.moving
      BY <1>4, <2>2, <3>1, Saved DEF SaveWhenIdle, Update
    <3>3. QED
      BY <3>2 DEF MarkWillClear
  <2>3. QED
    BY <1>4, <2>1, <2>2 DEF Update
<1>5. ASSUME NEW p \in SyncValues, Sync(p) PROVE MarkWillClear'
  <2>1. p \in Int
    BY SettingsAssumption
  <2>2. ~wanted'.moving
    <3>1. SavePosition(p, FALSE) /\ safe' = safe /\ FALSE \in BOOLEAN
      BY <1>5 DEF Sync
    <3>2. wanted' = [pos |-> p, usteps |-> set.usteps, moving |-> FALSE, saved |-> TRUE, unver |-> FALSE]
      BY <2>1, <3>1, Saved
    <3>3. QED
      BY <3>2
  <2>3. QED
    BY <2>2 DEF MarkWillClear
<1>6. ASSUME (\E n \in UstepValues : SetUsteps(n)) \/ ResetDefaults PROVE MarkWillClear'
  <2>1. UNCHANGED <<wanted, mode, stoppedFlag, unverified>> /\ savePending' \in {savePending, "due"}
    BY <1>6 DEF SetUsteps, ResetDefaults, RescaleAxis, Rescale, axisVars, cellVars
  <2>2. QED
    BY <2>1 DEF MarkWillClear, Busy
<1>7. CASE RotatorMoves
  <2>1. [wanted EXCEPT !.usteps = set.usteps] \in SoundRecords
    BY DEF RecordTypes, SettingTypes, Settings, SoundRecords, Records
  <2>2. wanted' = [wanted EXCEPT !.usteps = set.usteps]
    BY <1>7, <2>1, Queued DEF RotatorMoves
  <2>3. wanted'.moving = wanted.moving
    BY <2>2 DEF RecordTypes, SoundRecords, Records
  <2>4. UNCHANGED <<mode, stoppedFlag, unverified, savePending>>
    BY <1>7 DEF RotatorMoves, axisVars, focVars
  <2>5. QED
    BY <2>3, <2>4 DEF MarkWillClear, Busy
<1>8. ASSUME \/ \E v \in MaxPosValues : SetMax(v)
             \/ \E b \in BacklashValues : SetBacklash(b)
             \/ SaveSettings \/ HandOver \/ Land \/ UNCHANGED vars
      PROVE  MarkWillClear'
  <2>1. UNCHANGED <<wanted, mode, stoppedFlag, unverified, savePending>>
    BY <1>8 DEF SetMax, SetBacklash, SaveSettings, HandOver, Land, vars, C!HandOver, C!Land, axisVars, cellVars, focVars
  <2>2. QED
    BY <2>1 DEF MarkWillClear, Busy
<1>9. CASE DelayOver
  BY <1>9 DEF DelayOver, axisVars, cellVars, MarkWillClear, Busy
<1>10. CASE Reboot \/ PowerCut
  <2>1. unverified' = ~Trusted(wanted')
    BY <1>10 DEF Reboot, PowerCut, BootFrom
  <2>2. QED
    BY <2>1 DEF Trusted, MarkWillClear
<1>11. CASE WatchdogReset
  BY <1>11 DEF WatchdogReset, MarkWillClear
<1>12. QED
  BY <1>1, <1>3, <1>4, <1>5, <1>6, <1>7, <1>8, <1>9, <1>10, <1>11 DEF Next, Host, Environment

-----------------------------------------------------------------------------
(***************************************************************************)
(* The invariant, and what follows from it.                                *)
(***************************************************************************)
LEMMA FocInit == Init => FocInv
<1> SUFFICES ASSUME Init PROVE FocInv
  OBVIOUS
<1>1. AxisTypes /\ ~Busy /\ ~stoppedFlag[Foc]
  BY LimitAssumption DEF Init, A!ContractInit, AxisTypes, Busy
<1>2. Defaults \in Settings
  BY SettingsAssumption DEF Settings
<1>3. Blank \in SoundRecords
  BY DEF Blank, SoundRecords, Records
<1>4. Types
  BY <1>1, <1>2, <1>3 DEF Init, C!CellInit, Types, RecordTypes, SettingTypes, StateTypes
<1>5. TrustedRight /\ RecordTrue /\ MarkWillClear
  BY DEF Init, C!CellInit, TrustedRight, RecordTrue, MarkWillClear, Trusted, Blank
<1>6. TargetInside /\ DirectionSound
  BY <1>1 DEF Init, TargetInside, DirectionSound
<1>7. QED
  BY <1>4, <1>5, <1>6 DEF FocInv

LEMMA FocNext == FocInv /\ [Next]_vars => FocInv'
BY TypesKept, TrustKept, TargetKept, DirectionSoundKept, MarkKept DEF FocInv, Trust

\* The inductive invariant holds always.
THEOREM FocAlways == Spec => []FocInv
BY FocInit, FocNext, PTL DEF Spec

\* Types of the focuser, its settings and its record.
THEOREM FocTypesCorrect == Spec => []TypeOK
<1>1. FocInv => TypeOK
  <2> SUFFICES ASSUME FocInv PROVE TypeOK
    OBVIOUS
  <2>1. /\ P \in Int /\ tgt[Foc] \in Int /\ lead[Foc] \in Nat /\ mode[Foc] \in {"idle", "moving", "halting"}
        /\ stoppedFlag[Foc] \in BOOLEAN
    BY DEF FocInv, Types, AxisTypes, P
  <2>2. wanted \in Records /\ stored \in Records /\ (flight = <<>> \/ flight[1] \in Records)
    BY DEF FocInv, Types, RecordTypes, SoundRecords
  <2>3. QED
    BY <2>1, <2>2 DEF FocInv, Types, RecordTypes, SettingTypes, StateTypes, TypeOK
<1>2. QED
  BY <1>1, FocAlways, PTL

\* A position shown as verified is the real one, but for the lapses: for any travel, microsteps, backlash and
\* targets, through fault stops, power cuts, resets and reboots (focuser.cpp:15-18).
THEOREM TrustedRightAlways == Spec => []TrustedRight
BY FocAlways, PTL DEF FocInv

\* A mark at rest has a save to come, or the position is unverified (nvMarkMoving(), focuserUpdate()).
THEOREM MarkClears == Spec => []MarkWillClear
BY FocAlways, PTL DEF FocInv

\* lastDir tells the side on which the backlash is taken up (focuser.cpp:4-7).
THEOREM DirectionCorrect == Spec => []DirectionKept
<1>1. FocInv => DirectionKept
  BY DEF FocInv, DirectionSound, DirectionKept
<1>2. QED
  BY <1>1, FocAlways, PTL

\* No step leaves the soft limits of its moment, or goes further out (TargetAllowed(), :55).
THEOREM StepsInside == Spec => StepsStayInside
<1> DEFINE Inside == Step => P' <= set.maxPos \/ P' <= P
<1>1. FocInv /\ [Next]_vars => [Inside]_vars
  <2> SUFFICES ASSUME FocInv, Step PROVE P' <= set.maxPos \/ P' <= P
    OBVIOUS
  <2>1. P \in Int /\ tgt[Foc] \in Int /\ set.maxPos \in Int
    BY DEF FocInv, Types, AxisTypes, P, SettingTypes, Settings
  <2>2. Busy /\ (P' = P \/ (P < tgt[Foc] /\ P' = P + 1) \/ (P > tgt[Foc] /\ P' = P - 1))
    BY Stepped DEF Step, FocInv, Types
  <2>3. QED
    BY <2>1, <2>2 DEF FocInv, TargetInside
<1>2. QED
  BY <1>1, FocAlways, PTL DEF Spec, StepsStayInside
=============================================================================
