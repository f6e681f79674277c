----------------------------- MODULE DriverServer -----------------------------
(***************************************************************************)
(* The COM local server of the ASCOM drivers (AstroUniBoard.Ascom): driver *)
(* instances count their connections to the one BoardController they       *)
(* share.  The first connection rebuilds the controller, the last one lets *)
(* it disconnect.  Connected = true waits in the client's call, Connect()  *)
(* in a task of its own; both wait on the controller they found when they  *)
(* began.  The setup dialog counts as one more connection, and the         *)
(* temperature compensation (TempCompensator) runs in the same process.    *)
(*                                                                         *)
(* The controller is reduced to what it promises (HostController): it      *)
(* connects some time after Connect(), may lose the board and find it      *)
(* again, and disconnects some time after Disconnect().  Waiting for 10 s  *)
(* is being able to fail at any moment.  Each client uses its instance     *)
(* from one thread, but the task of its Connect() runs beside that: a call *)
(* reads that its instance holds a connection, then that the board is      *)
(* there, then acts, and no lock spans the three.                          *)
(***************************************************************************)
EXTENDS TempCompensator, FiniteSets

CONSTANT Devices   \* driver instances, one per client

ASSUME DeviceAssumption == IsFiniteSet(Devices)

VARIABLES
  connected,  \* of each instance
  setter,     \* Connected = true: where the call is
  task,       \* Connect(): where the background task is; "connecting" while it exists
  call,       \* of each instance's client: "none", "held" a connection at its check, or "checked" the board, too
  clients,    \* connectionClients
  dialog,     \* the setup dialog: "closed", "calling" c.Connect(), or "open"
  want,       \* wantConnected of the controller in use
  dfu,        \* the continuation of EnterDfu: "none", "armed", or "checked" (ConnectionClients > 0)
  late,       \* history: that continuation woke the controller after the last client had left
  stray       \* history: a call past its check switched the compensation on after the last connection was dropped

clientVars == <<connected, setter, task, call>>
serverVars == <<clients, dialog, want, dfu>>
pastCalls == <<late, stray>>
vars == <<tempVars, online, clientVars, serverVars, pastCalls>>

\* Before c.Connect(); before Server.Controller is read; waiting on the controller in use, or on a disposed one.
Places == {"none", "calling", "start", "current", "old"}

TypeOK ==
  /\ connected \in [Devices -> BOOLEAN]
  /\ setter \in [Devices -> Places] /\ task \in [Devices -> Places]
  /\ call \in [Devices -> {"none", "held", "checked"}]
  /\ clients \in 0 .. Cardinality(Devices) + 1
  /\ dialog \in {"closed", "calling", "open"} /\ want \in BOOLEAN /\ dfu \in {"none", "armed", "checked"}
  /\ late \in BOOLEAN /\ stray \in BOOLEAN
  /\ enabled \in BOOLEAN /\ online \in BOOLEAN /\ excused \in BOOLEAN
  /\ reference \in Temps \cup {None} /\ temp \in Temps
  /\ tick.pc \in {"none", "read", "submit", "failed"}
  /\ at \in 0 .. MaxPosition /\ going \in 0 .. MaxPosition \cup {None}
  /\ owed \in Int /\ moves \in 0 .. MaxMoves /\ mishaps \in 0 .. MaxMishaps

Init ==
  /\ InitTemp /\ online = FALSE
  /\ connected = [d \in Devices |-> FALSE]
  /\ setter = [d \in Devices |-> "none"] /\ task = [d \in Devices |-> "none"] /\ call = [d \in Devices |-> "none"]
  /\ clients = 0 /\ dialog = "closed" /\ want = FALSE /\ dfu = "none"
  /\ late = FALSE /\ stray = FALSE

\* The instance's lock is held from the start of a connection to the end of c.Connect().
Free(d) == setter[d] # "calling" /\ task[d] # "calling"

\* Its client is not inside a call, and the instance's lock is free.
Idle(d) == setter[d] = "none" /\ task[d] # "calling" /\ call[d] = "none"

Aged(where) == [d \in Devices |-> IF where[d] = "current" THEN "old" ELSE where[d]]

KeepTemp == UNCHANGED tempVars

\* AcquireConnection() up to c.Connect(); s and t are the places of the callers.  Dispose() takes the old
\* controller's word for its board with it.
Acquire(s, t) ==
  /\ clients' = clients + 1
  /\ IF clients = 0
     THEN /\ setter' = Aged(s) /\ task' = Aged(t)
          /\ online' = FALSE /\ want' = FALSE /\ late' = FALSE /\ stray' = FALSE
          /\ Reset /\ UNCHANGED <<temp, focusVars, moves, mishaps>>
     ELSE /\ setter' = s /\ task' = t
          /\ KeepTemp /\ UNCHANGED <<online, want, pastCalls>>

\* Mutant of ReleaseConnection: the last one leaves the controller as it is.
ReleaseOnly ==
  /\ clients' = clients - 1
  /\ KeepTemp /\ UNCHANGED want

ReleaseConnection ==
  /\ clients' = clients - 1
  /\ IF clients = 1
     THEN want' = FALSE /\ Reset /\ UNCHANGED <<temp, focusVars, moves, mishaps>>
     ELSE KeepTemp /\ UNCHANGED want

(***************************************************************************)
(* The instances.                                                          *)
(***************************************************************************)
\* Connected = true on an instance that is not connected.
SetConnected(d) ==
  /\ Idle(d) /\ ~connected[d]
  /\ connected' = [connected EXCEPT ![d] = TRUE]
  /\ Acquire([setter EXCEPT ![d] = "calling"], task)
  /\ UNCHANGED <<call, dialog, dfu>>

\* Connect(): ignored while an earlier one is under way.
Connect(d) ==
  /\ Idle(d) /\ ~connected[d] /\ task[d] = "none"
  /\ connected' = [connected EXCEPT ![d] = TRUE]
  /\ Acquire(setter, [task EXCEPT ![d] = "calling"])
  /\ UNCHANGED <<call, dialog, dfu>>

\* c.Connect(), outside the server's lock.
Call(d) ==
  /\ \/ setter[d] = "calling" /\ setter' = [setter EXCEPT ![d] = "start"] /\ UNCHANGED task
     \/ task[d] = "calling" /\ task' = [task EXCEPT ![d] = "start"] /\ UNCHANGED setter
  /\ want' = TRUE
  /\ KeepTemp /\ UNCHANGED <<online, connected, call, clients, dialog, dfu, pastCalls>>

\* Disconnect(), Connected = false or the release of the object.
Disconnect(d) ==
  /\ Idle(d) /\ connected[d]
  /\ connected' = [connected EXCEPT ![d] = FALSE]
  /\ ReleaseConnection
  /\ UNCHANGED <<online, setter, task, call, dialog, dfu, pastCalls>>

\* WaitForBoard(): takes the controller in use.
Begin(d) ==
  /\ \/ setter[d] = "start" /\ setter' = [setter EXCEPT ![d] = "current"] /\ UNCHANGED task
     \/ task[d] = "start" /\ task' = [task EXCEPT ![d] = "current"] /\ UNCHANGED setter
  /\ KeepTemp /\ UNCHANGED <<online, connected, call, serverVars, pastCalls>>

\* It sees the board.
Arrive(d) ==
  /\ online
  /\ \/ setter[d] = "current" /\ setter' = [setter EXCEPT ![d] = "none"] /\ UNCHANGED task
     \/ task[d] = "current" /\ task' = [task EXCEPT ![d] = "none"] /\ UNCHANGED setter
  /\ KeepTemp /\ UNCHANGED <<online, connected, call, serverVars, pastCalls>>

\* Mutant of DropOwn: the connection is given back without looking whether it is still held.
DropOwnTwice(d) ==
  /\ connected' = [connected EXCEPT ![d] = FALSE]
  /\ IF clients > 0 THEN ReleaseConnection ELSE KeepTemp /\ UNCHANGED <<clients, want>>

\* A failed wait gives the connection back, if the instance has one.
DropOwn(d) ==
  IF connected[d]
  THEN connected' = [connected EXCEPT ![d] = FALSE] /\ ReleaseConnection
  ELSE KeepTemp /\ UNCHANGED <<connected, clients, want>>

\* Its time is over; a disposed controller never connects.  It does not wait for the client's own calls.  A
\* board without the axis (MissingCapability()) fails the wait, too: that end is Arrive, then Disconnect.
FailWait(d) ==
  /\ Free(d)
  /\ \/ /\ setter[d] \in {"current", "old"} /\ setter' = [setter EXCEPT ![d] = "none"] /\ UNCHANGED task
        /\ setter[d] = "current" => ~online
     \/ /\ task[d] \in {"current", "old"} /\ task' = [task EXCEPT ![d] = "none"] /\ UNCHANGED setter
        /\ task[d] = "current" => ~online
  /\ DropOwn(d)
  /\ UNCHANGED <<online, call, dialog, dfu, pastCalls>>

(***************************************************************************)
(* The calls of the clients.                                               *)
(***************************************************************************)
\* The first half of RequireConnected(): the instance holds a connection.
Enter(d) ==
  /\ Idle(d) /\ connected[d]
  /\ call' = [call EXCEPT ![d] = "held"]
  /\ KeepTemp /\ UNCHANGED <<online, connected, setter, task, serverVars, pastCalls>>

\* The second half: the controller in use has the board's status.
Check(d) ==
  /\ call[d] = "held" /\ online
  /\ call' = [call EXCEPT ![d] = "checked"]
  /\ KeepTemp /\ UNCHANGED <<online, connected, setter, task, serverVars, pastCalls>>

\* The call ends here; whether its instance still holds a connection is not looked at again.
End(d) == call[d] = "checked" /\ call' = [call EXCEPT ![d] = "none"]

\* A call that found no board, only read, or was refused.
Return(d) ==
  /\ call[d] = "checked" \/ (call[d] = "held" /\ ~online)
  /\ call' = [call EXCEPT ![d] = "none"]
  /\ KeepTemp /\ UNCHANGED <<online, connected, setter, task, serverVars, pastCalls>>

(***************************************************************************)
(* The setup dialog and the firmware update.                               *)
(***************************************************************************)
OpenDialog ==
  /\ dialog = "closed" /\ dialog' = "calling"
  /\ Acquire(setter, task)
  /\ UNCHANGED <<connected, call, dfu>>

CallDialog ==
  /\ dialog = "calling" /\ dialog' = "open"
  /\ want' = TRUE
  /\ KeepTemp /\ UNCHANGED <<online, clientVars, clients, dfu, pastCalls>>

CloseDialog ==
  /\ dialog = "open" /\ dialog' = "closed"
  /\ ReleaseConnection
  /\ UNCHANGED <<online, clientVars, dfu, pastCalls>>

\* The action EnterDfu: the controller stops looking, and a continuation is due in three seconds.  Bound of
\* the model: one continuation at a time.
EnterDfu(d) ==
  /\ End(d) /\ online /\ going = None
  /\ dfu = "none" /\ dfu' = "armed"
  /\ want' = FALSE /\ online' = FALSE
  /\ KeepTemp /\ UNCHANGED <<connected, setter, task, clients, dialog, pastCalls>>

\* Mutant of StillHeld: the continuation does nothing.
StillHeldNot == FALSE

StillHeld == clients > 0

DfuCheck ==
  /\ dfu = "armed"
  /\ dfu' = IF StillHeld THEN "checked" ELSE "none"
  /\ KeepTemp /\ UNCHANGED <<online, clientVars, clients, dialog, want, pastCalls>>

DfuConnect ==
  /\ dfu = "checked" /\ dfu' = "none"
  /\ want' = TRUE /\ late' = (clients = 0)
  /\ KeepTemp /\ UNCHANGED <<online, clientVars, clients, dialog, stray>>

(***************************************************************************)
(* The controller in use.                                                  *)
(***************************************************************************)
Found ==
  /\ want /\ ~online /\ online' = TRUE
  /\ KeepTemp /\ UNCHANGED <<clientVars, serverVars, pastCalls>>

\* The board is lost, or the controller disconnects.
Lost ==
  /\ online /\ online' = FALSE
  /\ KeepTemp /\ UNCHANGED <<clientVars, serverVars, pastCalls>>

\* What the compensation and the clients' calls do with the focuser.  A move may halt another first.
UseFocuser ==
  /\ \/ (Tick \/ MoveEnds \/ Weather) /\ UNCHANGED <<call, stray>>
     \/ \E d \in Devices : call[d] = "checked" /\ ClientHalt /\ UNCHANGED <<call, stray>>
     \/ \E d \in Devices : End(d) /\ ClientMove /\ UNCHANGED stray
     \/ \E d \in Devices, on \in BOOLEAN : End(d) /\ Enable(on) /\ stray' = (on /\ clients = 0)
  /\ UNCHANGED <<connected, setter, task, serverVars, late>>

Next ==
  \/ \E d \in Devices :
       SetConnected(d) \/ Connect(d) \/ Call(d) \/ Disconnect(d) \/ Begin(d) \/ Arrive(d) \/ FailWait(d)
       \/ Enter(d) \/ Check(d) \/ Return(d) \/ EnterDfu(d)
  \/ OpenDialog \/ CallDialog \/ CloseDialog \/ DfuCheck \/ DfuConnect \/ Found \/ Lost
  \/ UseFocuser

\* Calls return, the timer fires, moves end, and a controller that looks finds the board.
Fairness ==
  /\ \A d \in Devices : WF_vars(Call(d))
  /\ WF_vars(CallDialog) /\ WF_vars(DfuCheck) /\ WF_vars(DfuConnect) /\ WF_vars(Found)
  /\ WF_vars(Tick /\ UNCHANGED <<clientVars, serverVars, pastCalls>>)
  /\ WF_vars(MoveEnds /\ UNCHANGED <<clientVars, serverVars, pastCalls>>)

Spec == Init /\ [][Next]_vars /\ Fairness

(***************************************************************************)
(* Properties.                                                             *)
(***************************************************************************)
\* Whatever calls, failed waits and dialogs cross each other, the count is the number of those who hold a
\* connection: it neither leaks, which would keep the port for ever, nor drops somebody else's.
CountsRight ==
  clients = Cardinality({d \in Devices : connected[d]}) + (IF dialog = "closed" THEN 0 ELSE 1)

\* When nobody holds a connection the controller does not want the port and the compensation is off
\* (driver/ASCOM/SPEC.md:43).  Two late comers alone can upset that until the next first connection: the
\* continuation of EnterDfu(), which had counted somebody just before, and a TempComp = true whose instance lost its
\* connection to a failing Connect() after the check (Focuser.cs:76-77).
AllQuiet == clients = 0 => (enabled => stray) /\ (want => late)

\* While somebody holds a connection the board is found again and again, after a firmware update, too.
Reached == <>[](clients > 0) => []<>online

\* A wait fails only when the shared controller has no board: what WaitForBoard() says it returns
\* (DeviceBase.cs:128).  The code waits on the controller it found at its start.
FailMeansNoBoard == [][\A d \in Devices : FailWait(d) => ~online]_vars
=============================================================================
