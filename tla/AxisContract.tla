---------------------------- MODULE AxisContract ----------------------------
(***************************************************************************)
(* What the axes promise to the rest of the firmware (fw/src/axis.h),      *)
(* without ramps, timer or driver: a move makes its take-up steps, then    *)
(* single steps to the target; a halt may end it after any step; a stop    *)
(* ends it at once; the end of a move is flagged.  Axis implements it, and *)
(* the focuser and rotator modules are built on it.                        *)
(***************************************************************************)
EXTENDS Integers

CONSTANTS Axes, Targets, Leads

VARIABLES
  pos,          \* position()
  tgt,          \* target()
  lead,         \* leadLeft()
  mode,         \* "idle", "moving", "halting": busy() and halting()
  stoppedFlag   \* what the next justStopped() returns

contractVars == <<pos, tgt, lead, mode, stoppedFlag>>

AllIdle == \A a \in Axes : mode[a] = "idle"

\* moveTo() that returns true and starts a motion
Start(a, target, leadSteps) ==
  /\ AllIdle
  /\ target # pos[a] \/ leadSteps > 0
  /\ tgt'         = [tgt         EXCEPT ![a] = target]
  /\ lead'        = [lead        EXCEPT ![a] = leadSteps]
  /\ mode'        = [mode        EXCEPT ![a] = "moving"]
  /\ stoppedFlag' = [stoppedFlag EXCEPT ![a] = FALSE]
  /\ UNCHANGED pos

End(a) ==
  /\ mode'        = [mode        EXCEPT ![a] = "idle"]
  /\ stoppedFlag' = [stoppedFlag EXCEPT ![a] = TRUE]

\* One step of a running move.
Step(a) ==
  /\ mode[a] # "idle"
  /\ \/ lead[a] > 0 /\ lead' = [lead EXCEPT ![a] = @ - 1] /\ UNCHANGED pos
     \/ /\ lead[a] = 0 /\ UNCHANGED lead
        /\ \/ pos[a] < tgt[a] /\ pos' = [pos EXCEPT ![a] = @ + 1]
           \/ pos[a] > tgt[a] /\ pos' = [pos EXCEPT ![a] = @ - 1]
  /\ \/ /\ lead'[a] = 0 /\ pos'[a] = tgt[a]       \* arrived
        /\ End(a)
     \/ /\ lead'[a] # 0 \/ pos'[a] # tgt[a]
        /\ \/ UNCHANGED <<mode, stoppedFlag>>
           \/ mode[a] = "halting" /\ End(a)       \* slowed down to a stop
  /\ UNCHANGED tgt

\* halt(): slow down, or end at once when no step was made.
RequestHalt(a) ==
  /\ mode[a] = "moving"
  /\ \/ End(a)
     \/ mode' = [mode EXCEPT ![a] = "halting"] /\ UNCHANGED stoppedFlag
  /\ UNCHANGED <<pos, tgt, lead>>

\* stopNow()
StopAtOnce(a) ==
  /\ mode[a] # "idle"
  /\ End(a)
  /\ UNCHANGED <<pos, tgt, lead>>

\* setPosition(): ignored while busy
Place(a, p) ==
  /\ mode[a] = "idle"
  /\ pos' = [pos EXCEPT ![a] = p]
  /\ UNCHANGED <<tgt, lead, mode, stoppedFlag>>

\* justStopped() that returns true
Report(a) ==
  /\ stoppedFlag[a]
  /\ stoppedFlag' = [stoppedFlag EXCEPT ![a] = FALSE]
  /\ UNCHANGED <<pos, tgt, lead, mode>>

ContractInit ==
  /\ pos \in [Axes -> Targets]
  /\ tgt         = [a \in Axes |-> 0]
  /\ lead        = [a \in Axes |-> 0]
  /\ mode        = [a \in Axes |-> "idle"]
  /\ stoppedFlag = [a \in Axes |-> FALSE]

Motor == \E a \in Axes : Step(a)

ContractNext ==
  \/ Motor
  \/ \E a \in Axes :
       \/ \E t \in Targets, l \in Leads : Start(a, t, l)
       \/ RequestHalt(a)
       \/ StopAtOnce(a)
       \/ \E p \in Targets : Place(a, p)
       \/ Report(a)

ContractSafety == ContractInit /\ [][ContractNext]_contractVars

\* A running move keeps stepping.
Contract == ContractSafety /\ WF_contractVars(Motor)
=============================================================================
