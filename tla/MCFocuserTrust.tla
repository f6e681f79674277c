--------------------------- MODULE MCFocuserTrust ---------------------------
(***************************************************************************)
(* Two scenarios, so that neither multiplies the other's states: moves,    *)
(* with one soft limit and one microstep setting, and units, where nothing *)
(* moves, the settings change and only the power may fail.                 *)
(***************************************************************************)
EXTENDS MCFocuser

VARIABLE scenario

MCInit == Init /\ scenario \in {"moves", "units"}

OneSetting == set'.usteps = 1 /\ set'.maxPos = 2
NoMoves    == mode'[Foc] = "idle" /\ set'.backlash = 0 /\ ~safe'

MCNext ==
  /\ Next
  /\ scenario' = scenario
  /\ IF scenario = "moves" THEN OneSetting ELSE NoMoves

MCSpec == MCInit /\ [][MCNext]_<<vars, scenario>>
=============================================================================
