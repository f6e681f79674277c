----------------------------- MODULE DurableCell -----------------------------
(***************************************************************************)
(* What the position store promises (fw/src/nv_store.h): the firmware      *)
(* writes one record; the record reaches the chip a little later, whole or *)
(* not at all; after a power cut the board finds the last record that      *)
(* reached the chip.  PositionStore implements it, Focuser is built on it. *)
(***************************************************************************)
CONSTANTS Contents,   \* possible records
          Empty       \* what a board with a blank chip finds; also "nothing in flight"

VARIABLES
  wanted,   \* the record the firmware holds
  stored,   \* the record a boot would find
  flight,   \* <<record>> in the chip's write cycle, <<>> if none
  dirty     \* wanted has still to be handed to the chip

cellVars == <<wanted, stored, flight, dirty>>

CellInit ==
  /\ wanted = Empty /\ stored = Empty
  /\ flight = <<>> /\ dirty = FALSE

\* A new record; handed over at once when the chip takes it.
Put(c) ==
  /\ wanted' = c
  /\ \/ dirty' = TRUE /\ UNCHANGED flight
     \/ dirty' = FALSE /\ flight = <<>> /\ flight' = <<c>>
  /\ UNCHANGED stored

HandOver ==
  /\ dirty /\ flight = <<>>
  /\ flight' = <<wanted>> /\ dirty' = FALSE
  /\ UNCHANGED <<wanted, stored>>

Land ==
  /\ flight # <<>>
  /\ stored' = flight[1] /\ flight' = <<>>
  /\ UNCHANGED <<wanted, dirty>>

\* Power cut and boot: the record in flight is written whole or not at all.
CutAndBoot ==
  /\ stored' = stored \/ (flight # <<>> /\ stored' = flight[1])
  /\ wanted' = stored'
  /\ flight' = <<>> /\ dirty' = FALSE

CellNext == (\E c \in Contents : Put(c)) \/ HandOver \/ Land \/ CutAndBoot

CellSpec == CellInit /\ [][CellNext]_cellVars
=============================================================================
