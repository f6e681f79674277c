------------------------------ MODULE MCRotator ------------------------------
(***************************************************************************)
(* Small instances of Rotator.  Trust: a turn of 2 angle units, one turn   *)
(* of cable, 1 or 1/2 step per unit, the EEPROM present, the IMU silent.   *)
(* Home: a turn of 4 units, one step each, 3/4 or 1/2 of a turn of cable,  *)
(* the IMU alive, no EEPROM.  The defaults have the shorter cable, so :24  *)
(* may leave the angle outside the range.                                  *)
(***************************************************************************)
EXTENDS Rotator

MCTrustWraps == {<<0, 2>>}
MCTrust      == [wrap |-> <<0, 2>>, spk |-> 2, guard |-> FALSE, bootHome |-> FALSE]
MCDeltas     == {-1, 2}

MCHomeWraps  == {<<-1, 2>>, <<0, 2>>}
MCHome       == [wrap |-> <<0, 2>>, spk |-> 1, guard |-> TRUE, bootHome |-> TRUE]
=============================================================================
