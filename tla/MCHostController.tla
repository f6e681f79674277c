--------------------------- MODULE MCHostController ---------------------------
(***************************************************************************)
(* Two boards, one of them with a dead motor driver; one thread moves the  *)
(* focuser and updates firmware, one halts and reboots.                    *)
(***************************************************************************)
EXTENDS HostController, TLC
CONSTANTS a, b, mover, halter
MCKinds == (mover :> {"move", "dfu"}) @@ (halter :> {"halt", "reboot"})
=============================================================================
