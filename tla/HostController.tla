---------------------------- MODULE HostController ----------------------------
(***************************************************************************)
(* The host's BoardController (driver/ASCOM/AstroUniBoard.Core): client    *)
(* threads submit commands to the one worker thread that owns the serial   *)
(* port.  The worker finds a board, connects, runs the commands, polls the *)
(* status, watches for moves that do not end and reconnects.               *)
(*                                                                         *)
(* A step of the worker is one exchange with the board or one access to    *)
(* state that other threads see.  Waiting for a time (poll, backoff, limit *)
(* of a move, timeout of a caller) is being able to go on at any moment.   *)
(* Every caller that moves has a target of its own, its name.              *)
(* Left out: the cached settings, housekeeping and environment values (one *)
(* exchange, "refresh"), the texts of problems, the ManualPort option and  *)
(* late replies: a reply comes in time or never.                           *)
(***************************************************************************)
EXTENDS Naturals, Sequences, FiniteSets

CONSTANTS
  Boards,       \* serial numbers of the boards of this computer
  Callers,      \* client threads
  Kinds,        \* what each of them submits: a set of "move", "halt", "reboot", "dfu"
  None,
  Able,         \* the boards whose motor driver answers: the others refuse every move
  Preferred,    \* BoardOptions.PreferredUsbSerial, or None
  MaxFailures,  \* BoardOptions.MaxConsecutiveFailures (3)
  MaxMishaps    \* bound of the model: exchanges lost, boards unplugged, the controller disposed of

ASSUME HostAssumption ==
  /\ Kinds \in [Callers -> SUBSET {"move", "halt", "reboot", "dfu"}]
  /\ None \notin Boards \cup Callers /\ Preferred \in Boards \cup {None}
  /\ Able \subseteq Boards
  /\ MaxFailures \in Nat \ {0} /\ MaxMishaps \in Nat

VARIABLES
  want,       \* wantConnected
  stop,       \* the controller is disposed of
  conn,       \* snapshot.Connection
  seen,       \* snapshot.Status: "none", "idle" or "busy"
  bound,      \* boundSerial
  port,       \* the board behind transport
  failures,   \* consecutiveFailures
  dog,        \* the watchdog: "calm", "timing" (busySinceMs is set) or "tripped" (watchdogTripped)
  queue,      \* callers whose Work is queued
  kind,       \* Work.Run
  work,       \* Work.State: "none", "pending", "running", "done" or "abandoned"
  result,     \* Work.Result: "none", "ok" or "fail"
  call,       \* in Submit(): "out", "checked" (saw Connected) or "waiting"
  pc, cur,    \* where the worker is; whose Work it runs
  sought,     \* the serial TryConnect() looks for
  up,         \* the boards: answering on USB
  moving, at, \* the boards: the target they move to; else the one they stand at
  mishaps,    \* so far
  did,        \* history: the board got the command that runs, or was at or moving to its target when it began
  last        \* history: the board last connected to, since Disconnect() or Connect() gave a free choice

snapVars  == <<conn, seen>>
callVars  == <<queue, kind, work, result, call>>
boardVars == <<up, moving, at>>
runVars   == <<pc, cur, sought>>
goalVars  == <<want, stop, bound, last>>
vars == <<goalVars, snapVars, port, failures, dog, callVars, runVars, boardVars, mishaps, did>>

Phases == {"top", "try", "refresh", "trip", "run", "reset", "ask", "after", "givingUp", "finish", "gone"}

Status(b) == IF moving[b] = None THEN "idle" ELSE "busy"

(***************************************************************************)
(* Clients.                                                                *)
(***************************************************************************)
\* Submit(): the test of IsConnected.  Bound of the model: one Work object per caller.
Check(c) ==
  /\ call[c] = "out" /\ conn = "connected"
  /\ \A i \in DOMAIN queue : queue[i] # c
  /\ call' = [call EXCEPT ![c] = "checked"]
  /\ UNCHANGED <<goalVars, snapVars, port, failures, dog, queue, kind, work, result, runVars, boardVars, mishaps, did>>

\* Mutant of Urgent: halts wait for their turn.
UrgentNever(k) == FALSE

\* FocuserHalt(), RotatorHalt() and HaltAll() jump the queue.
Urgent(k) == k = "halt"

Enqueue(c) ==
  /\ call[c] = "checked"
  /\ \E k \in Kinds[c] :
       /\ queue' = IF Urgent(k) THEN <<c>> \o queue ELSE Append(queue, c)
       /\ kind' = [kind EXCEPT ![c] = k]
  /\ work' = [work EXCEPT ![c] = "pending"]
  /\ call' = [call EXCEPT ![c] = "waiting"]
  /\ UNCHANGED <<goalVars, snapVars, port, failures, dog, result, runVars, boardVars, mishaps, did>>

\* Submit() returns with the result ...
Return(c) ==
  /\ call[c] = "waiting" /\ work[c] = "done"
  /\ call' = [call EXCEPT ![c] = "out"]
  /\ work' = [work EXCEPT ![c] = "none"] /\ result' = [result EXCEPT ![c] = "none"] /\ kind' = [kind EXCEPT ![c] = None]
  /\ did' = [did EXCEPT ![c] = FALSE]
  /\ UNCHANGED <<goalVars, snapVars, port, failures, dog, queue, runVars, boardVars, mishaps>>

\* Mutant of Cancel: the Work stays as it is.
CancelNot(c) == work[c] = "pending" /\ UNCHANGED <<work, kind>>

\* The exchange of State 0 for 3.
Cancel(c) ==
  /\ work[c] = "pending"
  /\ work' = [work EXCEPT ![c] = "abandoned"] /\ kind' = [kind EXCEPT ![c] = None]

\* ... or cancels a Work that has not started.  It waits for one that runs, longer than in the code,
\* which leaves after a second timeout: nobody reads that result.
GiveUp(c) ==
  /\ call[c] = "waiting"
  /\ Cancel(c)
  /\ call' = [call EXCEPT ![c] = "out"]
  /\ UNCHANGED <<goalVars, snapVars, port, failures, dog, queue, result, runVars, boardVars, mishaps, did>>

\* Connect(): any board will do again if the snapshot was not connected.  The snapshot may be older than
\* what is written: "refresh" stands for all the time of a new session.
Connect ==
  /\ want' = TRUE
  /\ \/ conn = "connected" /\ UNCHANGED <<bound, last>>
     \/ (conn # "connected" \/ pc = "refresh") /\ bound' = Preferred /\ last' = None
  /\ UNCHANGED <<stop, snapVars, port, failures, dog, callVars, runVars, boardVars, mishaps, did>>

Disconnect ==
  /\ want
  /\ want' = FALSE /\ last' = None
  /\ UNCHANGED <<stop, bound, snapVars, port, failures, dog, callVars, runVars, boardVars, mishaps, did>>

\* Dispose(); it does not wait for the worker longer than two seconds.  Bound of the model: it takes the place
\* of all mishaps.
Dispose ==
  /\ ~stop /\ stop' = TRUE
  /\ mishaps = 0 /\ mishaps' = MaxMishaps
  /\ want' = FALSE /\ last' = None
  /\ UNCHANGED <<bound, snapVars, port, failures, dog, callVars, runVars, boardVars, did>>

(***************************************************************************)
(* Losing the connection.                                                  *)
(***************************************************************************)
\* Mutant of FailAllQueued: the list is cleared, nobody is told.
DropAllQueued ==
  /\ queue' = <<>>
  /\ UNCHANGED <<work, result>>

FailAllQueued ==
  LET left == {c \in Callers : work[c] = "pending"}
  IN /\ queue' = <<>>
     /\ work'   = [c \in Callers |-> IF c \in left THEN "done" ELSE work[c]]
     /\ result' = [c \in Callers |-> IF c \in left THEN "fail" ELSE result[c]]

\* Where the worker goes on when the connection is lost: to the end of the Work, if it runs one.
Resume == IF cur = None THEN "top" ELSE "finish"

\* Mutant of Drop: the port stays open.
DropOpen ==
  /\ failures' = 0 /\ dog' = "calm"
  /\ FailAllQueued
  /\ UNCHANGED <<port, kind>>

\* CloseLink() and FailAllQueued(), up to what is published: a Submit() or Connect() in between does what it
\* does when only its test of the snapshot came before.  (What Found() resets is reset here.)
Drop ==
  /\ port' = None /\ failures' = 0 /\ dog' = "calm"
  /\ FailAllQueued
  /\ UNCHANGED kind

\* LoseConnection(): reconnect ...
Lose ==
  /\ Drop
  /\ \/ want /\ conn' = "reconnecting" /\ seen' = "none" /\ pc' = Resume
     \/ ~want /\ pc' = "givingUp" /\ UNCHANGED snapVars

\* ... or not.
GivingUp ==
  /\ pc = "givingUp"
  /\ want' = FALSE /\ conn' = "disconnected" /\ seen' = "none"
  /\ pc' = Resume
  /\ UNCHANGED <<stop, bound, last, port, failures, dog, callVars, cur, sought, boardVars, mishaps, did>>

(***************************************************************************)
(* Send(): one exchange.  Reply with a valid reply, Silent without one,    *)
(* Cut when the connection is given up.  An exchange lost is a mishap; the *)
(* board may have got the command.                                         *)
(***************************************************************************)
Reply ==
  /\ up[port]
  /\ failures' = 0
  /\ UNCHANGED <<conn, port, queue, kind, work, mishaps>>

\* RegisterFailure()
TooMany == failures + 1 >= MaxFailures

Silent ==
  /\ up[port]
  /\ mishaps < MaxMishaps /\ mishaps' = mishaps + 1
  /\ failures' = failures + 1
  /\ ~TooMany
  /\ UNCHANGED <<conn, port, queue, kind, work>>

\* The port is gone; or too many failures; or the board, its gate locked, does not identify as the same.
Cut ==
  /\ \/ ~up[port] /\ UNCHANGED mishaps
     \/ up[port] /\ mishaps < MaxMishaps /\ mishaps' = mishaps + 1
  /\ Lose

(***************************************************************************)
(* Connecting.                                                             *)
(***************************************************************************)
\* The test of WorkerMain() before each Step().
AtTop == pc = "top" /\ ~stop

\* The end of WorkerMain().
Quit ==
  /\ pc = "top" /\ stop /\ pc' = "gone"
  /\ Drop
  /\ conn' = "disconnected" /\ seen' = "none"
  /\ UNCHANGED <<goalVars, call, cur, sought, boardVars, mishaps, did>>

\* Step(): not wanted any more.
Close ==
  /\ AtTop /\ ~want /\ conn # "disconnected"
  /\ Drop
  /\ conn' = "disconnected" /\ seen' = "none"
  /\ UNCHANGED <<goalVars, call, runVars, boardVars, mishaps, did>>

\* Mutant of MayTry: a lost connection is not tried again.
MayTryFirst == conn \in {"disconnected", "connecting"}

MayTry == conn # "connected"

\* Step(): to TryConnect().
Attempt ==
  /\ AtTop /\ want /\ MayTry
  /\ conn' = IF conn = "disconnected" THEN "connecting" ELSE conn
  /\ pc' = "try" /\ sought' = bound
  /\ UNCHANGED <<goalVars, seen, port, failures, dog, callVars, cur, boardVars, mishaps, did>>

\* Mutant of Fits: any board will do.
FitsAny(b) == TRUE

\* The serial asked for, if any; candidates are tried in some order.
Fits(b) == sought \in {None, b}

\* A board identified itself and sent its status: the session starts.
Found(b) ==
  /\ pc = "try"
  /\ up[b] /\ Fits(b)
  /\ port' = b /\ bound' = b /\ last' = b
  /\ failures' = 0 /\ dog' = "calm"
  /\ conn' = "connected" /\ seen' = Status(b)
  /\ pc' = "refresh" /\ sought' = None
  /\ UNCHANGED <<want, stop, callVars, cur, boardVars, mishaps, did>>

\* No board that fits answers, or Disconnect() or Dispose() came.
NotFound ==
  /\ pc = "try"
  /\ \/ (~want \/ stop \/ \A b \in Boards : ~(up[b] /\ Fits(b))) /\ UNCHANGED mishaps
     \/ mishaps < MaxMishaps /\ mishaps' = mishaps + 1
  /\ pc' = "top" /\ sought' = None
  /\ UNCHANGED <<goalVars, snapVars, port, failures, dog, callVars, cur, boardVars, did>>

\* The settings, housekeeping and environment are read.
Refresh ==
  /\ pc = "refresh"
  /\ \/ (Reply \/ Silent) /\ pc' = "top" /\ UNCHANGED <<seen, dog, result>>
     \/ Cut
  /\ UNCHANGED <<goalVars, call, cur, sought, boardVars, did>>

(***************************************************************************)
(* Serving commands.                                                       *)
(***************************************************************************)
\* ServiceConnected(): the first Work that was not cancelled.
Pick ==
  /\ AtTop /\ want /\ conn = "connected"
  /\ \E i \in DOMAIN queue :
       /\ work[queue[i]] = "pending" /\ \A j \in 1 .. i - 1 : work[queue[j]] # "pending"
       /\ cur' = queue[i]
       /\ queue' = SubSeq(queue, i + 1, Len(queue))
       /\ work' = [work EXCEPT ![queue[i]] = "running"]
       /\ did' = [did EXCEPT ![queue[i]] = kind[queue[i]] = "move" /\ queue[i] \in {moving[port], at[port]}]
  /\ pc' = "run"
  /\ UNCHANGED <<goalVars, snapVars, port, failures, dog, kind, result, call, sought, boardVars, mishaps>>

Resets == {"reboot", "dfu"}

\* What the board does with a command it gets; it refuses all but halts while it moves.  A reset takes it
\* off the USB until Plug(); it remembers its position.
Carry ==
  /\ did' = [did EXCEPT ![cur] = TRUE]
  /\ \/ /\ kind[cur] = "move" /\ moving[port] = None /\ port \in Able
        /\ moving' = [moving EXCEPT ![port] = cur] /\ at' = [at EXCEPT ![port] = None]
        /\ UNCHANGED up
     \/ /\ kind[cur] = "halt"
        /\ moving' = [moving EXCEPT ![port] = None]
        /\ UNCHANGED <<at, up>>
     \/ /\ kind[cur] \in Resets /\ moving[port] = None
        /\ up' = [up EXCEPT ![port] = FALSE]
        /\ UNCHANGED <<moving, at>>

\* The status is read once more after a success; else the caller is released.
Conclude(res) ==
  /\ result' = [result EXCEPT ![cur] = res]
  /\ pc' = IF res = "ok" THEN "after" ELSE "finish"

\* The command itself is sent, a reset only after ResetCheck.
Sending ==
  \/ pc = "run" /\ kind[cur] \notin Resets
  \/ pc = "reset" /\ seen # "busy"

\* DoFocuserMove(), DoRotatorMove() and SendAction() of a halt: the board obeys.
Obeyed ==
  /\ Sending /\ kind[cur] \notin Resets
  /\ Reply /\ Carry /\ Conclude("ok")
  /\ UNCHANGED <<goalVars, seen, dog, call, cur, sought>>

\* It refuses: busy, or a dead motor driver.
Refused ==
  /\ Sending
  /\ \/ moving[port] # None /\ kind[cur] # "halt"
     \/ port \notin Able /\ kind[cur] = "move"
  /\ Reply /\ Conclude("fail")
  /\ UNCHANGED <<goalVars, seen, dog, call, cur, sought, boardVars, did>>

\* Mutant of AfterSilence: a lost reply is taken for a success.
AfterSilenceOk == IF kind[cur] = "move" THEN Conclude("ok") ELSE Conclude("fail")

\* A lost reply: a mover asks the board, the others report a failure.
AfterSilence == IF kind[cur] = "move" THEN pc' = "ask" /\ UNCHANGED result ELSE Conclude("fail")

Unanswered ==
  /\ Sending
  /\ Silent /\ AfterSilence
  /\ Carry \/ UNCHANGED <<boardVars, did>>
  /\ UNCHANGED <<goalVars, seen, dog, call, cur, sought>>

\* The connection ends during a command.
CutOff ==
  /\ Sending
  /\ Cut
  /\ (up[port] /\ Carry) \/ UNCHANGED <<boardVars, did>>
  /\ UNCHANGED <<goalVars, call, cur, sought>>

\* The second status of a move whose reply was lost.
Ask ==
  /\ pc = "ask"
  /\ \/ Reply /\ Conclude(IF cur \in {moving[port], at[port]} THEN "ok" ELSE "fail") /\ UNCHANGED <<seen, dog>>
     \/ Silent /\ Conclude("fail") /\ UNCHANGED <<seen, dog>>
     \/ Cut
  /\ UNCHANGED <<goalVars, call, cur, sought, boardVars, did>>

\* Poll(); goes on at next.
PollOr(next) ==
  \/ Reply /\ seen' = Status(port) /\ pc' = next /\ UNCHANGED <<dog, result>>
  \/ Silent /\ pc' = next /\ UNCHANGED <<seen, dog, result>>
  \/ Cut

\* RefuseResetWhileBusy(): refused by the fresh status.
ResetCheck ==
  /\ pc = "run" /\ kind[cur] \in Resets
  /\ PollOr("reset")
  /\ UNCHANGED <<goalVars, call, cur, sought, boardVars, did>>

ResetRefused ==
  /\ pc = "reset" /\ seen = "busy"
  /\ Conclude("fail")
  /\ UNCHANGED <<goalVars, snapVars, port, failures, dog, queue, kind, work, call, cur, sought, boardVars, mishaps, did>>

\* :22 and ExpectReset().
Rebooted ==
  /\ pc = "reset" /\ seen # "busy" /\ kind[cur] = "reboot"
  /\ up[port] /\ Carry
  /\ failures' = 0 /\ dog' = "calm" /\ port' = None
  /\ queue' = <<>>
  /\ work' = [c \in Callers |-> IF work[c] = "pending" THEN "done" ELSE work[c]]
  /\ result' = [c \in Callers |-> IF work[c] = "pending" THEN "fail" ELSE IF c = cur THEN "ok" ELSE result[c]]
  /\ conn' = "reconnecting" /\ seen' = "none"
  /\ pc' = "finish"
  /\ UNCHANGED <<goalVars, kind, call, cur, sought, mishaps>>

\* EnterDfu(): the controller stays away; what is queued stays queued.
InDfu ==
  /\ pc = "reset" /\ seen # "busy" /\ kind[cur] = "dfu"
  /\ up[port] /\ Carry
  /\ failures' = 0 /\ dog' = "calm" /\ port' = None
  /\ want' = FALSE /\ last' = None
  /\ result' = [result EXCEPT ![cur] = "ok"]
  /\ conn' = "disconnected" /\ seen' = "none"
  /\ pc' = "finish"
  /\ UNCHANGED <<stop, bound, queue, kind, work, call, cur, sought, mishaps>>

\* The status after a success, before the caller is released.
After ==
  /\ pc = "after"
  /\ PollOr("finish")
  /\ UNCHANGED <<goalVars, call, cur, sought, boardVars, did>>

\* The caller is released.  A connection lost on the way is a failure, unless the command was done.
Finish ==
  /\ pc = "finish"
  /\ work' = [work EXCEPT ![cur] = "done"]
  /\ result' = [result EXCEPT ![cur] = IF @ = "none" THEN "fail" ELSE @]
  /\ cur' = None
  /\ pc' = "top"
  /\ UNCHANGED <<goalVars, snapVars, port, failures, dog, queue, kind, call, sought, boardVars, mishaps, did>>

(***************************************************************************)
(* Polling and the watchdog.                                               *)
(***************************************************************************)
\* Watchdog(): the limit (MoveTimeoutMs, ImuTimeoutMs) may be over at any poll after the one that began to count.
WatchMove(st) ==
  \/ st # "busy" /\ dog' = "calm" /\ pc' = "top"
  \/ st = "busy" /\ dog' = (IF dog = "calm" THEN "timing" ELSE dog) /\ pc' = "top"
  \/ st = "busy" /\ dog = "timing" /\ dog' = "tripped" /\ pc' = "trip"

Poll ==
  /\ AtTop /\ want /\ conn = "connected"
  /\ \A i \in DOMAIN queue : work[queue[i]] # "pending"
  /\ \/ Reply /\ seen' = Status(port) /\ WatchMove(Status(port)) /\ UNCHANGED result
     \/ Silent /\ WatchMove(seen) /\ UNCHANGED <<seen, result>>
     \/ Cut
  /\ UNCHANGED <<goalVars, call, cur, sought, boardVars, did>>

\* The watchdog's :30.
Trip ==
  /\ pc = "trip"
  /\ LET Halted == moving' = [moving EXCEPT ![port] = None]
     IN \/ Reply /\ Halted /\ pc' = "top" /\ UNCHANGED <<seen, dog, result>>
        \/ Silent /\ (Halted \/ UNCHANGED moving) /\ pc' = "top" /\ UNCHANGED <<seen, dog, result>>
        \/ Cut /\ UNCHANGED moving
  /\ UNCHANGED <<goalVars, call, cur, sought, up, at, did>>

(***************************************************************************)
(* The boards.                                                             *)
(***************************************************************************)
MoveDone(b) ==
  /\ moving[b] # None
  /\ at' = [at EXCEPT ![b] = moving[b]] /\ moving' = [moving EXCEPT ![b] = None]
  /\ UNCHANGED <<goalVars, snapVars, port, failures, dog, callVars, runVars, up, mishaps, did>>

Plug(b) ==
  /\ ~up[b] /\ port # b
  /\ up' = [up EXCEPT ![b] = TRUE]
  /\ UNCHANGED <<goalVars, snapVars, port, failures, dog, callVars, runVars, moving, at, mishaps, did>>

\* Bound of the model: only the board in use is unplugged.
Unplug(b) ==
  /\ up[b] /\ port = b
  /\ mishaps < MaxMishaps /\ mishaps' = mishaps + 1
  /\ up' = [up EXCEPT ![b] = FALSE]
  /\ moving' = [moving EXCEPT ![b] = None] /\ at' = [at EXCEPT ![b] = None]
  /\ UNCHANGED <<goalVars, snapVars, port, failures, dog, callVars, runVars, did>>

Init ==
  /\ want = FALSE /\ stop = FALSE /\ conn = "disconnected" /\ seen = "none"
  /\ bound = None /\ port = None /\ failures = 0 /\ dog = "calm"
  /\ queue = <<>> /\ kind = [c \in Callers |-> None]
  /\ work = [c \in Callers |-> "none"] /\ result = [c \in Callers |-> "none"] /\ call = [c \in Callers |-> "out"]
  /\ pc = "top" /\ cur = None /\ sought = None
  /\ up = [b \in Boards |-> TRUE]
  /\ moving = [b \in Boards |-> None] /\ at = [b \in Boards |-> None]
  /\ mishaps = 0
  /\ did = [c \in Callers |-> FALSE] /\ last = None

Client ==
  \/ \E c \in Callers : Check(c) \/ Enqueue(c) \/ Return(c) \/ GiveUp(c)
  \/ Connect \/ Disconnect \/ Dispose

Worker ==
  \/ Quit \/ Close \/ Attempt \/ (\E b \in Boards : Found(b)) \/ NotFound \/ Refresh
  \/ Pick \/ Obeyed \/ Refused \/ Unanswered \/ CutOff \/ Ask \/ ResetCheck \/ ResetRefused \/ Rebooted \/ InDfu
  \/ After \/ Finish \/ Poll \/ Trip \/ GivingUp

Board == \E b \in Boards : MoveDone(b) \/ Plug(b) \/ Unplug(b)

Next == Client \/ Worker \/ Board

\* The worker thread runs.
Spec == Init /\ [][Next]_vars /\ WF_vars(Worker)
-----------------------------------------------------------------------------
(***************************************************************************)
(* Properties.                                                             *)
(***************************************************************************)
\* Types, and what the worker's place says about the port and the Work it runs: between two steps of
\* Step() a port is open exactly when the snapshot says Connected.
TypeOK ==
  /\ conn \in {"disconnected", "connecting", "connected", "reconnecting"} /\ seen \in {"none", "idle", "busy"}
  /\ {bound, port, sought, last} \subseteq Boards \cup {None} /\ failures \in 0 .. MaxMishaps /\ pc \in Phases
  /\ cur \in Callers \cup {None}
  /\ \A c \in Callers : work[c] = "running" <=> cur = c
  /\ pc \in {"refresh", "trip", "run", "reset", "ask", "after"} => conn = "connected" /\ port # None
  /\ pc \in {"top", "gone"} => (port # None <=> conn = "connected")

\* A command its caller has cancelled never reaches a board (BoardController.cs:466 "cancel it so it
\* can never run late"), nor does one that was failed because the connection was lost.
NeverLate ==
  [][\A c \in Callers : did'[c] /\ ~did[c] => call[c] = "waiting" /\ work[c] # "done"]_vars

\* "ok" is told only of a command the board got, or a move it was already making, also when replies are
\* lost on the way (BoardController.cs:817-822).
OkIsTrue == \A c \in Callers : work[c] = "done" /\ result[c] = "ok" => did[c]

\* Nobody waits for a Work that is over or forgotten: it is queued, runs or has its result.
NobodyForgotten ==
  \A c \in Callers : call[c] = "waiting" =>
    \/ work[c] = "pending" /\ \E i \in DOMAIN queue : queue[i] = c
    \/ work[c] = "running"
    \/ work[c] = "done" /\ result[c] # "none"

\* A halt that waits is the next command that runs (docs of HaltAll(): "jumps the queue").
HaltFirst ==
  [][\A c \in Callers : work[c] = "pending" /\ work'[c] = "running" /\ kind[c] # "halt" =>
       \A d \in Callers : kind[d] = "halt" => work[d] # "pending"]_vars

\* The controller changes over to another board only after Disconnect(), or after a Connect() that saw
\* no connection (BoardController.cs:153 "never another one after a reboot").
SameBoard == [][port' # None /\ port' # port => last \in {None, port'}]_vars

\* While connecting is wanted and the boards stay plugged in, the controller is connected again and again;
\* once it is not wanted, or the controller is disposed of, the port is closed for good: the server
\* (Server.cs:99) makes another controller then, and that one must be able to open it.
PortFollowsWish ==
  /\ <>[](want /\ ~stop /\ \A b \in Boards : up[b]) => []<>(conn = "connected")
  /\ <>[](~want \/ stop) => <>[](port = None)
=============================================================================
