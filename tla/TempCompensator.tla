--------------------------- MODULE TempCompensator ---------------------------
(***************************************************************************)
(* The host's temperature compensation (AstroUniBoard.Ascom): a timer      *)
(* callback reads the shared snapshot, decides under a lock whether the    *)
(* temperature has moved enough since the reference, leaves the lock and   *)
(* submits a move; when the move fails it puts the old reference back.     *)
(* Clients switch it on and off and move the focuser between any two of    *)
(* these steps.                                                            *)
(*                                                                         *)
(* The focuser of the board is a position and the target it moves to; the  *)
(* rotator's moves make the board busy in the same way.  Temperatures are  *)
(* whole degrees and a coefficient is a whole number of steps.             *)
(***************************************************************************)
EXTENDS Integers

CONSTANTS
  Temps,           \* temperatures: a set of integers
  MaxPosition,     \* of the focuser
  StepsPerDegree, ThresholdDegrees,
  MaxMoves,        \* bound of the model: moves of the clients
  MaxMishaps,      \* bound of the model: submissions that fail though the board is idle
  None

ASSUME TempAssumption ==
  /\ Temps \subseteq Int /\ StepsPerDegree \in Int /\ ThresholdDegrees \in Nat
  /\ {MaxPosition, MaxMoves, MaxMishaps} \subseteq Nat
  /\ None \notin Int

VARIABLES
  enabled, reference, \* reference: referenceTemperature, None for null
  tick,        \* the callback: pc, what it read (t, pos, busy), previous and steps
  online,      \* Snapshot.HasStatus of the controller in use
  temp,        \* what the sensor shows
  at, going,   \* the focuser's position; its target while it moves, else None
  owed,        \* history: steps that moves of the reference stand for less those the board was told to make
  excused,     \* history: owed is upset by a lost reply, the end of the travel, a client's move or another session
  moves, mishaps

compVars  == <<enabled, reference, tick>>
focusVars == <<at, going>>
pastVars  == <<owed, excused>>
tempVars  == <<compVars, temp, focusVars, pastVars, moves, mishaps>>

NoTick == [pc |-> "none", t |-> None, pos |-> None, busy |-> FALSE, previous |-> None, steps |-> None, old |-> FALSE]

InitTemp ==
  /\ enabled = FALSE /\ reference = None /\ tick = NoTick
  /\ temp \in Temps /\ at = 0 /\ going = None
  /\ owed = 0 /\ excused = FALSE
  /\ moves = 0 /\ mishaps = 0

Abs(n) == IF n < 0 THEN -n ELSE n

Clamp(n) == IF n < 0 THEN 0 ELSE IF n > MaxPosition THEN MaxPosition ELSE n

\* A new session begins with nothing owed; a callback of the old one may still run.
Switch(on) ==
  /\ enabled' = on /\ reference' = None
  /\ tick' = [tick EXCEPT !.old = tick.pc # "none"]
  /\ owed' = 0 /\ excused' = (tick.pc # "none")

\* Enable(): only a change takes effect.  It does not ask for the board: its caller has.
Enable(on) ==
  /\ enabled # on
  /\ Switch(on)
  /\ UNCHANGED <<online, temp, focusVars, moves, mishaps>>

\* Reset(), part of the server's first and last connection.
Reset == Switch(FALSE)

\* Tick(): the snapshot.  A callback that comes while another runs returns at once.
Look ==
  /\ tick.pc = "none" /\ enabled
  /\ online
  /\ tick' = [NoTick EXCEPT !.pc = "read", !.t = temp, !.pos = at, !.busy = going # None]
  /\ UNCHANGED <<enabled, reference, online, temp, focusVars, pastVars, moves, mishaps>>

\* Mutant of Wait: off by one.
WaitLonger == Abs(tick.t - reference) <= ThresholdDegrees \/ tick.busy

\* The test for which nothing is done at this tick.
Wait == Abs(tick.t - reference) < ThresholdDegrees \/ tick.busy

\* What a move of the reference to t stands for.
Steps(t) == StepsPerDegree * (t - reference)

\* The part under the lock: nothing to do, a first reference, or a move to submit.
Decide ==
  /\ tick.pc = "read"
  /\ \/ /\ ~enabled \/ (reference # None /\ Wait)
        /\ tick' = NoTick /\ UNCHANGED <<reference, owed>>
     \/ /\ enabled /\ reference = None
        /\ reference' = tick.t /\ tick' = NoTick /\ UNCHANGED owed
     \/ /\ enabled /\ reference # None /\ ~Wait
        /\ reference' = tick.t /\ owed' = owed + Steps(tick.t)
        /\ tick' = IF Steps(tick.t) = 0 THEN NoTick
                   ELSE [tick EXCEPT !.pc = "submit", !.previous = reference, !.steps = Steps(tick.t)]
  /\ UNCHANGED <<enabled, online, temp, focusVars, excused, moves, mishaps>>

\* The board obeys.  What a callback of the session before does counts for nobody.
Accept(target) ==
  /\ going' = target
  /\ owed' = IF tick.old THEN owed ELSE owed - (target - at)
  /\ UNCHANGED at

\* FocuserMoveTo(): done; refused (busy, or no connection) or never sent; or done but not answered.
Submit ==
  /\ tick.pc = "submit"
  /\ LET target == Clamp(tick.pos + tick.steps)
     IN \/ /\ online /\ going = None
           /\ Accept(target) /\ tick' = NoTick
           /\ excused' = (excused \/ target # tick.pos + tick.steps \/ tick.pos # at)
           /\ UNCHANGED mishaps
        \/ /\ ~online \/ going # None
           /\ tick' = [tick EXCEPT !.pc = "failed"]
           /\ UNCHANGED <<focusVars, pastVars, mishaps>>
        \/ /\ online /\ going = None
           /\ mishaps < MaxMishaps /\ mishaps' = mishaps + 1
           /\ tick' = [tick EXCEPT !.pc = "failed"]
           /\ \/ Accept(target) /\ excused' = TRUE
              \/ UNCHANGED <<focusVars, pastVars>>
  /\ UNCHANGED <<enabled, reference, online, temp, moves>>

\* Mutant of Failed: the compensation counts as done.
FailedForgotten ==
  /\ tick.pc = "failed"
  /\ tick' = NoTick
  /\ UNCHANGED <<enabled, reference, online, temp, focusVars, pastVars, moves, mishaps>>

\* A failed move gives the reference back, if the compensation is on - in a later session, too.
Failed ==
  /\ tick.pc = "failed"
  /\ IF enabled THEN reference' = tick.previous ELSE UNCHANGED reference
  /\ owed' = IF tick.old THEN owed ELSE owed - tick.steps
  /\ tick' = NoTick
  /\ UNCHANGED <<enabled, online, temp, focusVars, excused, moves, mishaps>>

Tick == Look \/ Decide \/ Submit \/ Failed

(***************************************************************************)
(* The board and the other clients.                                        *)
(***************************************************************************)
\* Focuser.Move(), or a move of the rotator (the focuser's target is where it stands).
ClientMove ==
  /\ online /\ going = None
  /\ moves < MaxMoves /\ moves' = moves + 1
  /\ going' \in 0 .. MaxPosition
  /\ UNCHANGED <<compVars, online, temp, at, pastVars, mishaps>>

\* Halt(): somewhere on the way.
ClientHalt ==
  /\ online /\ going # None
  /\ moves < MaxMoves /\ moves' = moves + 1
  /\ at' \in {n \in 0 .. MaxPosition : (at <= n /\ n <= going) \/ (going <= n /\ n <= at)}
  /\ going' = None
  /\ UNCHANGED <<compVars, online, temp, pastVars, mishaps>>

MoveEnds ==
  /\ going # None
  /\ at' = going /\ going' = None
  /\ UNCHANGED <<compVars, online, temp, pastVars, moves, mishaps>>

Weather ==
  /\ temp' \in Temps \ {temp}
  /\ UNCHANGED <<compVars, online, focusVars, pastVars, moves, mishaps>>

(***************************************************************************)
(* Properties.                                                             *)
(***************************************************************************)
\* Between two callbacks the focuser has been told to make exactly the steps that the moves of the reference
\* stand for.  Only a lost reply, the end of the travel, a client's move in the callback's way, or a callback
\* of an earlier session can upset that.
Compensated == tick.pc = "none" /\ ~excused => owed = 0

\* A temperature that stays is compensated in the end: refused moves are tried again at the next tick.
CatchesUp ==
  \A t \in Temps :
    <>[](enabled /\ online /\ temp = t) =>
      <>[](reference # None /\ Abs(reference - t) < ThresholdDegrees)
=============================================================================
