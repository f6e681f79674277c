---------------------------- MODULE PositionStore ----------------------------
(***************************************************************************)
(* The position ring of fw/src/nv_store.cpp on its EEPROM: one record with *)
(* the positions of all axes, written to the slot after the newest one,    *)
(* without waiting for the chip's write cycle; the boot scan takes the     *)
(* newest valid slot.  Power may fail between any two steps and inside a   *)
(* write cycle; the chip may refuse a write or not acknowledge.            *)
(*                                                                         *)
(* Abstracted: a record with a bad CRC is Torn, so CRC collisions are left *)
(* out; the chip is assumed to disturb no other slot when a write is torn. *)
(***************************************************************************)
EXTENDS Naturals

CONSTANTS
  Axes, Values,   \* axes and the positions they may save; 0 is the value of a blank record
  Verdicts,       \* values of "unverified" they may save
  Usteps,         \* microstep settings of the focuser
  Slots,          \* NV_RING_SLOTS
  SeqMod,         \* 2^32 in the code
  MaxUnwritten,   \* bound: records queued while the chip takes none
  BlindBoots,     \* TRUE: a boot may fail to find or to read the chip
  Torn            \* a slot whose CRC does not match, or blank

ASSUME RingAssumption == Slots \in Nat /\ Slots >= 2
ASSUME SeqAssumption  == SeqMod \in Nat /\ MaxUnwritten \in Nat \ {0} /\ SeqMod > 2 * (Slots + 1) * MaxUnwritten
ASSUME DataAssumption == 0 \in Values /\ 0 \notin Usteps /\ Verdicts \subseteq BOOLEAN

VARIABLES
  ram,         \* pos: newest record
  nextSlot,
  posPending,
  writeCycle,  \* a write may still be in its internal cycle
  faults,      \* FAULT_MISSING, FAULT_WRITE, FAULT_READ
  found,       \* nvEepromAddress # 0
  usteps,      \* settings.drv[AXIS_FOC].microsteps
  ring,        \* the chip
  cell,        \* <<slot, record>> the chip is writing, <<>> if none
  away,        \* history: axes that were marked moving and not saved since
  unwritten    \* history: records queued since the chip took one

vars == <<ram, nextSlot, posPending, writeCycle, faults, found, usteps, ring, cell, away, unwritten>>

Index   == 0 .. Slots - 1
AxisRec == [val : Values, moving : BOOLEAN, saved : BOOLEAN, unverified : BOOLEAN]
PosSlot == [seq : 0 .. SeqMod - 1, ax : [Axes -> AxisRec], label : Usteps \cup {0}]

ASSUME TornAssumption == Torn \notin PosSlot

Body(s) == [ax |-> s.ax, label |-> s.label]

\* memset(&pos, 0, sizeof(pos))
Zero == [seq |-> 0, label |-> 0,
         ax |-> [a \in Axes |-> [val |-> 0, moving |-> FALSE, saved |-> FALSE, unverified |-> FALSE]]]

\* Mutant of Ahead: compared without sign, wrong once the counter has wrapped.
AheadUnsigned(s, t) == s > t

\* (int32_t)(s - t) > 0
Ahead(s, t) == (s + SeqMod - t) % SeqMod \in 1 .. (SeqMod \div 2 - 1)

After(i) == (i + 1) % Slots

\* scanRing(): the newest valid slot, the first one of equals.
IsNewest(r, i) ==
  /\ i \in Index /\ r[i] # Torn
  /\ \A j \in Index \ {i} : r[j] # Torn => ~Ahead(r[j].seq, r[i].seq) /\ (r[j].seq = r[i].seq => i < j)
Newest(r) == CHOOSE i \in Index : IsNewest(r, i)
AllTorn(r) == \A i \in Index : r[i] = Torn

\* What a boot finds.
Best(r) == IF AllTorn(r) THEN Zero ELSE r[Newest(r)]

(***************************************************************************)
(* Writing.                                                                *)
(***************************************************************************)
\* The chip takes record r.
Accept(r) ==
  /\ cell = <<>>
  /\ cell' = <<nextSlot, r>>
  /\ nextSlot' = After(nextSlot)
  /\ posPending' = FALSE
  /\ writeCycle' = TRUE
  /\ unwritten' = 0
  /\ UNCHANGED <<faults>>

\* Mutant of Refuse: the fault is not noted.
RefuseSilent(r) ==
  /\ posPending' = TRUE
  /\ writeCycle' = TRUE
  /\ UNCHANGED <<cell, nextSlot, faults>>

\* The chip refuses it: kept pending, with the fault bit set.
Refuse(r) ==
  /\ posPending' = TRUE
  /\ faults' = faults \cup {"write"}
  /\ writeCycle' = TRUE
  /\ UNCHANGED <<cell, nextSlot>>

\* readyNow() is false: no acknowledge; after NV_READY_TIMEOUT_MS, longer than any write cycle of the
\* chip, it gives up waiting.
NotReady ==
  /\ writeCycle
  /\ posPending' = TRUE
  /\ \/ UNCHANGED <<writeCycle, faults>>
     \/ cell = <<>> /\ writeCycle' = FALSE /\ faults' = faults \cup {"write"}
  /\ UNCHANGED <<cell, nextSlot>>

\* nvUpdate() with record r to be written; n: records queued since the chip took one.
Flush(r, n) ==
  /\ ram' = r
  /\ \/ /\ ~found
        /\ posPending' = TRUE /\ unwritten' = n
        /\ UNCHANGED <<nextSlot, writeCycle, faults, cell>>
     \/ /\ found
        /\ \/ (~writeCycle \/ cell = <<>>) /\ Accept(r)
           \/ (~writeCycle \/ cell = <<>>) /\ Refuse(r) /\ unwritten' = n
           \/ NotReady /\ unwritten' = n
  /\ UNCHANGED <<found, usteps, ring>>

NextSeq(s) == (s + 1) % SeqMod

\* Mutant of With: the mark of the other axis is lost.
WithOnly(ax, a, rec) == [b \in Axes |-> IF b = a THEN rec ELSE [ax[b] EXCEPT !.moving = FALSE]]

\* The record of one axis is replaced.
With(ax, a, rec) == [ax EXCEPT ![a] = rec]

\* queuePosition()
Queue(a, rec) ==
  /\ unwritten < MaxUnwritten
  /\ Flush([seq |-> NextSeq(ram.seq), label |-> usteps, ax |-> With(ram.ax, a, rec)], unwritten + 1)

Update ==
  /\ posPending
  /\ Flush(ram, unwritten)
  /\ UNCHANGED away

\* nvMarkMoving(): just before a move starts.
MarkMoving(a) ==
  /\ ~ram.ax[a].moving
  /\ Queue(a, [ram.ax[a] EXCEPT !.moving = TRUE])
  /\ away' = away \cup {a}

\* The record holds this position already; for the focuser with the present microstep label.
Unchanged(a, v, unver) ==
  /\ ram.ax[a] = [val |-> v, moving |-> FALSE, saved |-> TRUE, unverified |-> unver]
  /\ ram.label = usteps

\* nvSavePosition()
SavePosition(a, v, unver) ==
  /\ ~Unchanged(a, v, unver)
  /\ Queue(a, [val |-> v, moving |-> FALSE, saved |-> TRUE, unverified |-> unver])
  /\ away' = away \ {a}

\* The settings or the calibration record is written, waiting for the chip: a slot on its way lands first.
SaveRecord ==
  /\ found
  /\ writeCycle' = FALSE
  /\ \/ /\ ring' = IF cell = <<>> THEN ring ELSE [ring EXCEPT ![cell[1]] = cell[2]]
        /\ cell' = <<>>
        /\ faults' = faults \ {"write"}
     \/ /\ faults' = faults \cup {"write"}
        /\ UNCHANGED <<ring, cell>>
  /\ UNCHANGED <<ram, nextSlot, posPending, found, usteps, away, unwritten>>

SetUsteps(u) ==
  /\ usteps' = u
  /\ UNCHANGED <<ram, nextSlot, posPending, writeCycle, faults, found, ring, cell, away, unwritten>>

(***************************************************************************)
(* The chip, power cuts and boots.                                         *)
(***************************************************************************)
WriteDone ==
  /\ cell # <<>>
  /\ ring' = [ring EXCEPT ![cell[1]] = cell[2]]
  /\ cell' = <<>>
  /\ UNCHANGED <<ram, nextSlot, posPending, writeCycle, faults, found, usteps, away, unwritten>>

\* nvBegin() on a chip that answers, with contents r.
BootFrom(r) ==
  /\ ram' = Best(r)
  /\ nextSlot' = IF AllTorn(r) THEN 0 ELSE After(Newest(r))
  /\ found' = TRUE /\ faults' = {}

\* nvBegin() that finds no chip or cannot read the ring, or a boot in safe mode, which does not call it.
BootBlind ==
  /\ BlindBoots
  /\ ram' = Zero /\ nextSlot' = 0
  /\ \/ found' = FALSE /\ faults' = {"missing"}
     \/ found' = TRUE /\ faults' = {"read"}

\* Power cut or reset, then the next boot.  A slot being written is old, torn or new.
CutAndBoot ==
  /\ \E r \in IF cell = <<>> THEN {ring}
              ELSE {ring, [ring EXCEPT ![cell[1]] = Torn], [ring EXCEPT ![cell[1]] = cell[2]]} :
       ring' = r /\ (BootFrom(r) \/ BootBlind)
  /\ cell' = <<>>
  /\ posPending' = FALSE /\ writeCycle' = FALSE /\ unwritten' = 0 /\ away' = {}
  /\ usteps' \in Usteps

Init ==
  /\ ring = [i \in Index |-> Torn] /\ cell = <<>>
  /\ ram = Zero /\ nextSlot = 0
  /\ posPending = FALSE /\ writeCycle = FALSE /\ unwritten = 0 /\ away = {}
  /\ found = TRUE /\ faults = {}
  /\ usteps \in Usteps

Firmware ==
  \/ \E a \in Axes : MarkMoving(a) \/ \E v \in Values, u \in Verdicts : SavePosition(a, v, u)
  \/ Update
  \/ SaveRecord
  \/ \E u \in Usteps : SetUsteps(u)

Next == Firmware \/ WriteDone \/ CutAndBoot

\* The main loop calls nvUpdate() in every pass; the chip ends every write cycle.
Spec == Init /\ [][Next]_vars /\ WF_vars(Update) /\ WF_vars(WriteDone)
-----------------------------------------------------------------------------
(***************************************************************************)
(* Properties.                                                             *)
(***************************************************************************)
\* Types of all variables.
TypeOK ==
  /\ ram \in PosSlot /\ nextSlot \in Index
  /\ posPending \in BOOLEAN /\ writeCycle \in BOOLEAN /\ found \in BOOLEAN
  /\ faults \subseteq {"missing", "write", "read"}
  /\ usteps \in Usteps
  /\ ring \in [Index -> PosSlot \cup {Torn}]
  /\ cell = <<>> \/ (cell[1] \in Index /\ cell[2] \in PosSlot)
  /\ away \subseteq Axes /\ unwritten \in 0 .. MaxUnwritten

\* The slot just written wins the boot scan, also after the sequence number has wrapped
\* (nv_store.cpp:16-18: "boot reads all slots and takes the newest valid one").
NewestWins == [][WriteDone => Best(ring') = cell[2]]_vars

\* Once the mark of a move has reached the chip no power cut lets the board forget the move
\* (nv_store.h:36) until its end is saved, whatever is saved for the other axis meanwhile.
MarkSurvives ==
  [][CutAndBoot => \A a \in away : ~posPending /\ cell = <<>> => ram'.ax[a].moving]_vars

\* A queued record is taken by the chip, or the write fault is shown (status flag 2).
WrittenOrFault == posPending /\ found ~> ~posPending \/ "write" \in faults \/ ~found

\* The ring is a durable cell: a boot finds the last record that reached the chip.
Cell == INSTANCE DurableCell WITH
  Contents <- [ax : [Axes -> AxisRec], label : Usteps \cup {0}],
  Empty    <- Body(Zero),
  wanted   <- Body(ram),
  stored   <- Body(Best(ring)),
  flight   <- IF cell = <<>> THEN <<>> ELSE <<Body(cell[2])>>,
  dirty    <- posPending
IsDurableCell == Cell!CellSpec
=============================================================================
