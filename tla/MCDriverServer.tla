--------------------------- MODULE MCDriverServer ---------------------------
(***************************************************************************)
(* Two scenarios, so that neither multiplies the other's states: clients   *)
(* with two instances that switch the compensation on only when no         *)
(* connection is left, and focus with one instance that connects by        *)
(* Connected = true, no dialog and no update.                              *)
(***************************************************************************)
EXTENDS DriverServer

VARIABLE scenario

MCInit == Init /\ scenario \in {"clients", "focus"}

Alone(d) == scenario = "focus" =>
  /\ dialog' = "closed" /\ dfu' = "none"
  /\ \A e \in Devices : task'[e] = "none" /\ (e # d => ~connected'[e])

MCNext ==
  /\ Next
  /\ scenario' = scenario
  /\ scenario = "clients" => (enabled' => clients' = 0) /\ going' = None /\ temp' = temp
  /\ Alone(CHOOSE d \in Devices : TRUE)

MCSpec == MCInit /\ [][MCNext]_<<vars, scenario>> /\ Fairness
=============================================================================
