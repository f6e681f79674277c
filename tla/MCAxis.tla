------------------------------- MODULE MCAxis -------------------------------
(***************************************************************************)
(* Two scenarios, so that neither multiplies the other's states: alone,    *)
(* one axis with room for full ramps and the idle-off clock, and pair, two *)
(* axes in moves of two steps while no time passes.                        *)
(***************************************************************************)
EXTENDS Axis

CONSTANTS foc, rot

VARIABLE scenario

MCTargets == 0..5
MCLeads == {0, 2}
MCAxes == {foc, rot}

MCInit ==
  /\ Init /\ scenario \in {"alone", "pair"}
  /\ pos[rot] = 0 /\ ~idleOff[rot]
  /\ scenario = "pair" => pos[foc] = 0 /\ ~idleOff[foc]

\* The rotator rests; or all moves are of two steps, and no driver is to be switched off.
Alone == mot'[rot] = "idle" /\ pos'[rot] = 0 /\ ~idleOff'[rot] /\ ~stoppedFlag'[rot] /\ ~enabled'[rot]
Short ==
  /\ \A a \in Axes : tgt'[a] \in {0, 2} /\ total'[a] \in {0, 2} /\ lead'[a] = 0 /\ ~idleOff'[a]
  /\ restAge' = restAge

MCNext ==
  /\ Next
  /\ scenario' = scenario
  /\ IF scenario = "alone" THEN Alone ELSE Short

MCSpec == MCInit /\ [][MCNext]_<<vars, scenario>> /\ WF_vars(Isr)
=============================================================================
