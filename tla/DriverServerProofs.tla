-------------------------- MODULE DriverServerProofs --------------------------
(***************************************************************************)
(* Proofs about DriverServer and the TempCompensator in it, for any finite *)
(* set of instances, any temperatures, any coefficient and threshold.      *)
(***************************************************************************)
EXTENDS DriverServer, FiniteSetTheorems, TLAPS

\* The instances that hold a connection.
Holders == {d \in Devices : connected[d]}

\* Who is about to call c.Connect() holds a connection: the instance's lock keeps Disconnect() out.
CallersHold == \A d \in Devices : setter[d] = "calling" \/ task[d] = "calling" => connected[d]

\* Types of what the server and the instances keep.
ServerTypes ==
  /\ connected \in [Devices -> BOOLEAN]
  /\ setter \in [Devices -> Places] /\ task \in [Devices -> Places]
  /\ call \in [Devices -> {"none", "held", "checked"}]
  /\ clients \in Nat
  /\ dialog \in {"closed", "calling", "open"} /\ want \in BOOLEAN /\ dfu \in {"none", "armed", "checked"}
  /\ late \in BOOLEAN /\ stray \in BOOLEAN /\ online \in BOOLEAN /\ enabled \in BOOLEAN

ServerInv == ServerTypes /\ CountsRight /\ CallersHold /\ AllQuiet

-----------------------------------------------------------------------------
LEMMA HoldersFinite == IsFiniteSet(Holders) /\ Cardinality(Holders) \in Nat /\ Cardinality(Holders) <= Cardinality(Devices)
<1>1. Holders \in SUBSET Devices
  BY DEF Holders
<1>2. QED
  BY <1>1, DeviceAssumption, FS_Subset, FS_CardinalityType

\* One more holder, one less, or the same.
LEMMA HolderAdded ==
  ASSUME connected \in [Devices -> BOOLEAN], NEW d \in Devices, ~connected[d],
         connected' = [connected EXCEPT ![d] = TRUE]
  PROVE  Cardinality(Holders') = Cardinality(Holders) + 1
<1>1. Holders' = Holders \cup {d} /\ d \notin Holders
  BY DEF Holders
<1>2. QED
  BY <1>1, HoldersFinite, FS_AddElement

LEMMA HolderDropped ==
  ASSUME connected \in [Devices -> BOOLEAN], NEW d \in Devices, connected[d],
         connected' = [connected EXCEPT ![d] = FALSE]
  PROVE  Cardinality(Holders') = Cardinality(Holders) - 1
<1>1. Holders' = Holders \ {d} /\ d \in Holders
  BY DEF Holders
<1>2. QED
  BY <1>1, HoldersFinite, FS_RemoveElement

LEMMA CountByHolders ==
  /\ CountsRight <=> clients = Cardinality(Holders) + (IF dialog = "closed" THEN 0 ELSE 1)
  /\ CountsRight' <=> clients' = Cardinality(Holders') + (IF dialog' = "closed" THEN 0 ELSE 1)
BY DEF CountsRight, Holders

LEMMA SomebodyHolds ==
  ASSUME ServerInv, NEW d \in Devices, connected[d]
  PROVE  clients > 0
<1>1. d \in Holders
  BY DEF Holders
<1>2. Cardinality(Holders) # 0
  BY <1>1, HoldersFinite, FS_EmptySet
<1>3. QED
  BY <1>2, HoldersFinite DEF ServerInv, ServerTypes, CountsRight, Holders

-----------------------------------------------------------------------------
LEMMA ServerInit == Init => ServerInv
<1> SUFFICES ASSUME Init PROVE ServerInv
    OBVIOUS
<1>1. ServerTypes
  BY DEF Init, InitTemp, ServerTypes, Places
<1>2. CountsRight
  <2>1. {d \in Devices : connected[d]} = {}
    BY DEF Init
  <2>2. QED
    BY <2>1, FS_EmptySet DEF Init, CountsRight
<1>3. CallersHold /\ AllQuiet
  BY DEF Init, InitTemp, CallersHold, AllQuiet
<1>4. QED
  BY <1>1, <1>2, <1>3 DEF ServerInv

\* What changes neither the count nor who holds keeps the count right.
LEMMA CountKept ==
  ASSUME CountsRight, UNCHANGED <<connected, clients>>, (dialog' = "closed") = (dialog = "closed")
  PROVE  CountsRight'
BY DEF CountsRight

LEMMA AgedPlaces ==
  ASSUME NEW where \in [Devices -> Places]
  PROVE  /\ Aged(where) \in [Devices -> Places]
         /\ \A d \in Devices : Aged(where)[d] = "calling" => where[d] = "calling"
BY DEF Aged, Places

\* AcquireConnection() counts the new holder; only then may somebody be about to call c.Connect().
LEMMA AcquireKeeps ==
  ASSUME ServerInv, NEW s \in [Devices -> Places], NEW t \in [Devices -> Places], Acquire(s, t)
  PROVE  /\ setter' \in [Devices -> Places] /\ task' \in [Devices -> Places]
         /\ clients' = clients + 1 /\ clients' > 0
         /\ want' \in BOOLEAN /\ late' \in BOOLEAN /\ stray' \in BOOLEAN /\ online' \in BOOLEAN /\ enabled' \in BOOLEAN
         /\ \A d \in Devices : setter'[d] = "calling" => s[d] = "calling"
         /\ \A d \in Devices : task'[d] = "calling" => t[d] = "calling"
<1>1. clients \in Nat /\ clients' = clients + 1
  BY DEF Acquire, ServerInv, ServerTypes
<1>2. CASE clients = 0
  <2>1. setter' = Aged(s) /\ task' = Aged(t)
    BY <1>2 DEF Acquire
  <2>2. want' = FALSE /\ late' = FALSE /\ stray' = FALSE /\ online' = FALSE /\ enabled' = FALSE
    BY <1>2 DEF Acquire, Reset, Switch
  <2>3. /\ Aged(s) \in [Devices -> Places] /\ \A d \in Devices : Aged(s)[d] = "calling" => s[d] = "calling"
        /\ Aged(t) \in [Devices -> Places] /\ \A d \in Devices : Aged(t)[d] = "calling" => t[d] = "calling"
    BY AgedPlaces
  <2>4. clients' > 0
    BY <1>1
  <2>5. want' \in BOOLEAN /\ late' \in BOOLEAN /\ stray' \in BOOLEAN /\ online' \in BOOLEAN /\ enabled' \in BOOLEAN
    BY <2>2
  <2>6. QED
    BY <1>1, <2>1, <2>3, <2>4, <2>5, Zenon
<1>3. CASE clients # 0
  BY <1>1, <1>3 DEF Acquire, KeepTemp, tempVars, compVars, pastCalls, ServerInv, ServerTypes
<1>4. QED
  BY <1>2, <1>3

LEMMA ReleaseKeeps ==
  ASSUME ServerInv, ReleaseConnection, clients > 0, UNCHANGED pastCalls
  PROVE  /\ clients' = clients - 1 /\ clients' \in Nat
         /\ want' \in BOOLEAN /\ enabled' \in BOOLEAN
         /\ AllQuiet'
<1>1. clients' = clients - 1 /\ clients' \in Nat
  BY DEF ReleaseConnection, ServerInv, ServerTypes
<1>2. CASE clients = 1
  BY <1>1, <1>2 DEF ReleaseConnection, Reset, Switch, pastCalls, AllQuiet
<1>3. CASE clients # 1
  BY <1>1, <1>3 DEF ReleaseConnection, KeepTemp, tempVars, compVars, pastCalls, ServerInv, ServerTypes, AllQuiet
<1>4. QED
  BY <1>2, <1>3

LEMMA ServerNext == ServerInv /\ [Next]_vars => ServerInv'
<1> SUFFICES ASSUME ServerInv, [Next]_vars PROVE ServerInv'
    OBVIOUS
<1> USE DEF ServerInv
<1>1. ASSUME NEW d \in Devices, SetConnected(d) PROVE ServerInv'
  <2> DEFINE s == [setter EXCEPT ![d] = "calling"]
  <2>1. ~connected[d] /\ connected' = [connected EXCEPT ![d] = TRUE] /\ UNCHANGED <<call, dialog, dfu>> /\ Acquire(s, task)
    BY <1>1 DEF SetConnected
  <2>2. s \in [Devices -> Places] /\ task \in [Devices -> Places]
    BY DEF ServerTypes, Places
  <2> HIDE DEF s
  <2>3. /\ setter' \in [Devices -> Places] /\ task' \in [Devices -> Places]
        /\ clients' = clients + 1 /\ clients' > 0
        /\ want' \in BOOLEAN /\ late' \in BOOLEAN /\ stray' \in BOOLEAN /\ online' \in BOOLEAN /\ enabled' \in BOOLEAN
        /\ \A e \in Devices : setter'[e] = "calling" => s[e] = "calling"
        /\ \A e \in Devices : task'[e] = "calling" => task[e] = "calling"
    BY <2>1, <2>2, AcquireKeeps
  <2>4. ServerTypes'
    <3>1. connected' \in [Devices -> BOOLEAN]
      BY <2>1 DEF ServerTypes
    <3>2. QED
      BY <2>1, <2>3, <3>1 DEF ServerTypes
  <2>5. CountsRight'
    <3>1. connected \in [Devices -> BOOLEAN]
      BY DEF ServerTypes
    <3>2. Cardinality(Holders') = Cardinality(Holders) + 1
      BY <2>1, <2>3, <3>1, HolderAdded
    <3>3. QED
      BY <2>1, <2>3, <3>2, HoldersFinite, CountByHolders DEF ServerTypes
  <2>6. CallersHold'
    BY <2>1, <2>3 DEF CallersHold, ServerTypes, Places, s
  <2>7. AllQuiet'
    BY <2>3 DEF AllQuiet
  <2>8. QED
    BY <2>4, <2>5, <2>6, <2>7
<1>2. ASSUME NEW d \in Devices, Connect(d) PROVE ServerInv'
  <2> DEFINE t == [task EXCEPT ![d] = "calling"]
  <2>1. ~connected[d] /\ connected' = [connected EXCEPT ![d] = TRUE] /\ UNCHANGED <<call, dialog, dfu>> /\ Acquire(setter, t)
    BY <1>2 DEF Connect
  <2>2. t \in [Devices -> Places] /\ setter \in [Devices -> Places]
    BY DEF ServerTypes, Places
  <2> HIDE DEF t
  <2>3. /\ setter' \in [Devices -> Places] /\ task' \in [Devices -> Places]
        /\ clients' = clients + 1 /\ clients' > 0
        /\ want' \in BOOLEAN /\ late' \in BOOLEAN /\ stray' \in BOOLEAN /\ online' \in BOOLEAN /\ enabled' \in BOOLEAN
        /\ \A e \in Devices : setter'[e] = "calling" => setter[e] = "calling"
        /\ \A e \in Devices : task'[e] = "calling" => t[e] = "calling"
    BY <2>1, <2>2, AcquireKeeps
  <2>4. ServerTypes'
    <3>1. connected' \in [Devices -> BOOLEAN]
      BY <2>1 DEF ServerTypes
    <3>2. QED
      BY <2>1, <2>3, <3>1 DEF ServerTypes
  <2>5. CountsRight'
    <3>1. connected \in [Devices -> BOOLEAN]
      BY DEF ServerTypes
    <3>2. Cardinality(Holders') = Cardinality(Holders) + 1
      BY <2>1, <2>3, <3>1, HolderAdded
    <3>3. QED
      BY <2>1, <2>3, <3>2, HoldersFinite, CountByHolders DEF ServerTypes
  <2>6. CallersHold'
    BY <2>1, <2>3 DEF CallersHold, ServerTypes, t
  <2>7. AllQuiet'
    BY <2>3 DEF AllQuiet
  <2>8. QED
    BY <2>4, <2>5, <2>6, <2>7
<1>3. ASSUME NEW d \in Devices, Call(d) PROVE ServerInv'
  <2>1. connected[d]
    BY <1>3 DEF Call, CallersHold
  <2>2. clients > 0
    BY <2>1, SomebodyHolds
  <2>3. ServerTypes' /\ CallersHold'
    BY <1>3 DEF Call, KeepTemp, tempVars, compVars, pastCalls, ServerTypes, CallersHold, Places
  <2>4. CountsRight'
    BY <1>3, CountKept DEF Call
  <2>5. AllQuiet'
    BY <1>3, <2>2 DEF Call, AllQuiet, ServerTypes
  <2>6. QED
    BY <2>3, <2>4, <2>5
<1>4. ASSUME NEW d \in Devices, Disconnect(d) PROVE ServerInv'
  <2>1. connected[d] /\ connected' = [connected EXCEPT ![d] = FALSE] /\ ReleaseConnection
        /\ UNCHANGED <<online, setter, task, call, dialog, dfu, pastCalls>>
    BY <1>4 DEF Disconnect
  <2>2. clients > 0
    BY <2>1, SomebodyHolds
  <2>3. clients' = clients - 1 /\ clients' \in Nat /\ want' \in BOOLEAN /\ enabled' \in BOOLEAN /\ AllQuiet'
    BY <2>1, <2>2, ReleaseKeeps
  <2>4. ServerTypes'
    <3>1. connected' \in [Devices -> BOOLEAN]
      BY <2>1 DEF ServerTypes
    <3>2. QED
      BY <2>1, <2>3, <3>1 DEF pastCalls, ServerTypes
  <2>5. CountsRight'
    <3>1. connected \in [Devices -> BOOLEAN]
      BY DEF ServerTypes
    <3>2. Cardinality(Holders') = Cardinality(Holders) - 1
      BY <2>1, <2>3, <3>1, HolderDropped
    <3>3. QED
      BY <2>1, <2>3, <3>2, HoldersFinite, CountByHolders DEF ServerTypes
  <2>6. CallersHold'
    BY <1>4, <2>1 DEF Disconnect, Idle, CallersHold, ServerTypes
  <2>7. QED
    BY <2>3, <2>4, <2>5, <2>6
<1>5. ASSUME NEW d \in Devices, Begin(d) \/ Arrive(d) PROVE ServerInv'
  <2>1. ServerTypes' /\ CallersHold' /\ AllQuiet'
    BY <1>5 DEF Begin, Arrive, KeepTemp, tempVars, compVars, serverVars, pastCalls, ServerTypes, CallersHold, AllQuiet, Places
  <2>2. CountsRight'
    BY <1>5, CountKept DEF Begin, Arrive, serverVars
  <2>3. QED
    BY <2>1, <2>2
<1>6. ASSUME NEW d \in Devices, FailWait(d) PROVE ServerInv'
  <2>1. /\ DropOwn(d) /\ Free(d) /\ UNCHANGED <<online, call, dialog, dfu, pastCalls>>
        /\ setter' \in [Devices -> Places] /\ task' \in [Devices -> Places]
        /\ \A e \in Devices : setter'[e] = "calling" \/ task'[e] = "calling" =>
                                e # d /\ (setter[e] = "calling" \/ task[e] = "calling")
    BY <1>6 DEF FailWait, Free, ServerTypes, Places
  <2>2. CASE connected[d]
    <3>1. connected' = [connected EXCEPT ![d] = FALSE] /\ ReleaseConnection
      BY <2>1, <2>2 DEF DropOwn
    <3>2. clients > 0
      BY <2>2, SomebodyHolds
    <3>3. clients' = clients - 1 /\ clients' \in Nat /\ want' \in BOOLEAN /\ enabled' \in BOOLEAN /\ AllQuiet'
      BY <2>1, <3>1, <3>2, ReleaseKeeps
    <3>4. ServerTypes'
      BY <2>1, <3>1, <3>3 DEF pastCalls, ServerTypes
    <3>5. CountsRight'
      <4>1. connected \in [Devices -> BOOLEAN]
        BY DEF ServerTypes
      <4>2. Cardinality(Holders') = Cardinality(Holders) - 1
        BY <2>1, <2>2, <3>1, <3>3, <4>1, HolderDropped
      <4>3. QED
        BY <2>1, <2>2, <3>1, <3>3, <4>2, HoldersFinite, CountByHolders DEF ServerTypes
    <3>6. CallersHold'
      BY <2>1, <3>1 DEF CallersHold, ServerTypes
    <3>7. QED
      BY <3>3, <3>4, <3>5, <3>6
  <2>3. CASE ~connected[d]
    <3>1. UNCHANGED <<connected, clients, want, enabled>>
      BY <2>1, <2>3 DEF DropOwn, KeepTemp, tempVars, compVars
    <3>2. CountsRight'
      BY <2>1, <3>1, CountKept
    <3>3. QED
      BY <2>1, <3>1, <3>2 DEF pastCalls, ServerTypes, CallersHold, AllQuiet
  <2>4. QED
    BY <2>2, <2>3
<1>7. ASSUME NEW d \in Devices, EnterDfu(d) PROVE ServerInv'
  <2>1. /\ UNCHANGED <<connected, setter, task, clients, dialog, enabled, late, stray>>
        /\ call' = [call EXCEPT ![d] = "none"] /\ dfu' = "armed" /\ want' = FALSE /\ online' = FALSE
    BY <1>7 DEF EnterDfu, End, KeepTemp, tempVars, compVars, pastCalls
  <2>2. ServerTypes'
    BY <2>1 DEF ServerTypes
  <2>3. CallersHold' /\ AllQuiet'
    BY <2>1 DEF CallersHold, AllQuiet
  <2>4. CountsRight'
    BY <2>1, CountKept
  <2>5. QED
    BY <2>2, <2>3, <2>4
<1>8. CASE OpenDialog
  <2>1. UNCHANGED <<connected, call, dfu>> /\ dialog = "closed" /\ dialog' = "calling" /\ Acquire(setter, task)
    BY <1>8 DEF OpenDialog
  <2>2. setter \in [Devices -> Places] /\ task \in [Devices -> Places]
    BY DEF ServerTypes
  <2>3. /\ setter' \in [Devices -> Places] /\ task' \in [Devices -> Places]
        /\ clients' = clients + 1 /\ clients' > 0
        /\ want' \in BOOLEAN /\ late' \in BOOLEAN /\ stray' \in BOOLEAN /\ online' \in BOOLEAN /\ enabled' \in BOOLEAN
        /\ \A e \in Devices : setter'[e] = "calling" => setter[e] = "calling"
        /\ \A e \in Devices : task'[e] = "calling" => task[e] = "calling"
    BY <2>1, <2>2, AcquireKeeps
  <2>4. ServerTypes' /\ CallersHold' /\ AllQuiet'
    BY <2>1, <2>3 DEF ServerTypes, CallersHold, AllQuiet
  <2>5. CountsRight'
    BY <2>1, <2>3, HoldersFinite DEF CountsRight, ServerTypes, Holders
  <2>6. QED
    BY <2>4, <2>5
<1>9. CASE CallDialog
  <2>1. clients > 0
    BY <1>9, HoldersFinite DEF CallDialog, CountsRight, Holders
  <2>2. ServerTypes' /\ CallersHold' /\ AllQuiet'
    BY <1>9, <2>1 DEF CallDialog, KeepTemp, tempVars, compVars, clientVars, pastCalls, ServerTypes, CallersHold, AllQuiet
  <2>3. CountsRight'
    BY <1>9, CountKept DEF CallDialog, clientVars
  <2>4. QED
    BY <2>2, <2>3
<1>10. CASE CloseDialog
  <2>1. clients > 0
    BY <1>10, HoldersFinite DEF CloseDialog, CountsRight, Holders
  <2>2. clients' = clients - 1 /\ clients' \in Nat /\ want' \in BOOLEAN /\ enabled' \in BOOLEAN /\ AllQuiet'
    BY <1>10, <2>1, ReleaseKeeps DEF CloseDialog
  <2>3. ServerTypes' /\ CallersHold'
    BY <1>10, <2>2 DEF CloseDialog, clientVars, pastCalls, ServerTypes, CallersHold
  <2>4. CountsRight'
    BY <1>10, <2>2, HoldersFinite DEF CloseDialog, clientVars, CountsRight, ServerTypes, Holders
  <2>5. QED
    BY <2>2, <2>3, <2>4
<1>11. CASE DfuCheck \/ DfuConnect
  <2>1. /\ UNCHANGED <<connected, setter, task, call, clients, dialog, online, enabled, stray>>
        /\ dfu' \in {"none", "armed", "checked"}
        /\ UNCHANGED <<want, late>> \/ (want' = TRUE /\ late' = (clients = 0))
    BY <1>11 DEF DfuCheck, DfuConnect, KeepTemp, tempVars, compVars, clientVars, pastCalls
  <2>2. ServerTypes' /\ CallersHold'
    BY <2>1 DEF ServerTypes, CallersHold
  <2>3. AllQuiet'
    <3>1. CASE UNCHANGED <<want, late>>
      BY <2>1, <3>1 DEF AllQuiet
    <3>2. CASE late' = (clients = 0)
      <4>1. ASSUME clients' = 0 PROVE late' /\ (enabled' => stray')
        BY <2>1, <3>2, <4>1 DEF AllQuiet
      <4>2. QED
        BY <4>1 DEF AllQuiet
    <3>3. QED
      BY <2>1, <3>1, <3>2
  <2>4. CountsRight'
    BY <2>1, CountKept
  <2>5. QED
    BY <2>2, <2>3, <2>4
<1>12. CASE Found \/ Lost \/ UNCHANGED vars
  <2>1. UNCHANGED <<connected, setter, task, call, clients, dialog, want, dfu, late, stray, enabled>> /\ online' \in BOOLEAN
    BY <1>12 DEF Found, Lost, vars, KeepTemp, tempVars, compVars, clientVars, serverVars, pastCalls, ServerTypes
  <2>2. CountsRight'
    BY <2>1, CountKept
  <2>3. QED
    BY <2>1, <2>2 DEF ServerTypes, CallersHold, AllQuiet
<1>13. CASE UseFocuser
  <2>1. UNCHANGED <<connected, setter, task, clients, dialog, want, dfu, late>>
    BY <1>13 DEF UseFocuser, serverVars
  <2>2. call' \in [Devices -> {"none", "held", "checked"}]
    BY <1>13 DEF UseFocuser, End, ServerTypes
  <2>3. online' = online /\ enabled' \in BOOLEAN /\ stray' \in BOOLEAN /\ (clients = 0 => (enabled' => stray'))
    <3>1. ASSUME NEW on \in BOOLEAN, Enable(on), stray' = (on /\ clients = 0)
          PROVE  online' = online /\ enabled' = on /\ stray' \in BOOLEAN /\ (clients = 0 => (on => stray'))
      BY <3>1 DEF Enable, Switch
    <3>2. CASE (Tick \/ MoveEnds \/ Weather \/ ClientMove \/ ClientHalt) /\ UNCHANGED stray
      <4>1. online' = online /\ enabled' = enabled
        BY <3>2 DEF Tick, Look, Decide, Submit, Failed, MoveEnds, Weather, ClientMove, ClientHalt, compVars
      <4>2. QED
        BY <3>2, <4>1 DEF ServerTypes, AllQuiet
    <3>3. QED
      BY <1>13, <3>1, <3>2 DEF UseFocuser
  <2>4. CountsRight'
    BY <2>1, CountKept
  <2>5. ServerTypes' /\ CallersHold'
    BY <2>1, <2>2, <2>3 DEF ServerTypes, CallersHold
  <2>6. AllQuiet'
    BY <2>1, <2>3 DEF AllQuiet
  <2>7. QED
    BY <2>4, <2>5, <2>6
<1>14. ASSUME NEW d \in Devices, Enter(d) \/ Check(d) \/ Return(d) PROVE ServerInv'
  <2>1. /\ UNCHANGED <<connected, setter, task, clients, dialog, want, dfu, late, stray, online, enabled>>
        /\ call' \in [Devices -> {"none", "held", "checked"}]
    BY <1>14 DEF Enter, Check, Return, KeepTemp, tempVars, compVars, serverVars, pastCalls, ServerTypes
  <2>2. CountsRight'
    BY <2>1, CountKept
  <2>3. QED
    BY <2>1, <2>2 DEF ServerTypes, CallersHold, AllQuiet
<1>15. QED
  BY <1>1, <1>2, <1>3, <1>4, <1>5, <1>6, <1>7, <1>8, <1>9, <1>10, <1>11, <1>12, <1>13, <1>14 DEF Next

LEMMA ServerAlways == Spec => []ServerInv
BY ServerInit, ServerNext, PTL DEF Spec

\* The count of connections is the number of those who hold one, whatever calls, failed waits and dialogs cross
\* each other (Server.AcquireConnection, ReleaseConnection).
THEOREM CountsCorrect == Spec => []CountsRight
<1>1. ServerInv => CountsRight
  BY DEF ServerInv
<1>2. QED
  BY <1>1, ServerAlways, PTL

\* When nobody holds a connection, the port is not wanted and the compensation is off, but for the continuation
\* of a firmware update and for a TempComp = true whose instance lost its connection to a failing Connect() after the
\* check; no other interleaving of calls, tasks and the dialog leaves either of them behind.
THEOREM QuietCorrect == Spec => []AllQuiet
<1>1. ServerInv => AllQuiet
  BY DEF ServerInv
<1>2. QED
  BY <1>1, ServerAlways, PTL

-----------------------------------------------------------------------------
(***************************************************************************)
(* The temperature compensation.                                           *)
(***************************************************************************)
Positions == 0 .. MaxPosition

Ticks == [pc : {"none", "read", "submit", "failed"}, t : Temps \cup {None}, pos : Positions \cup {None},
          busy : BOOLEAN, previous : Temps \cup {None}, steps : Int \cup {None}, old : BOOLEAN]

TempTypes ==
  /\ enabled \in BOOLEAN /\ online \in BOOLEAN /\ excused \in BOOLEAN
  /\ reference \in Temps \cup {None} /\ temp \in Temps
  /\ tick \in Ticks
  /\ tick.pc # "none" => tick.t \in Temps /\ tick.pos \in Positions
  /\ tick.pc \in {"submit", "failed"} => tick.previous \in Temps /\ tick.steps \in Int
  /\ at \in Positions /\ going \in Positions \cup {None}
  /\ owed \in Int /\ moves \in 0 .. MaxMoves /\ mishaps \in 0 .. MaxMishaps

\* What is owed while a callback is under way: the steps it has decided on and not made.
BooksBalance ==
  /\ tick.old => excused
  /\ ~excused => owed = (IF tick.pc \in {"submit", "failed"} THEN tick.steps ELSE 0)

TempInv == TempTypes /\ BooksBalance

LEMMA ClampInRange ==
  ASSUME NEW n \in Int
  PROVE  Clamp(n) \in Positions
BY TempAssumption DEF Clamp, Positions

LEMMA StepsAreInt ==
  ASSUME reference \in Int, NEW t \in Int
  PROVE  Steps(t) \in Int
BY TempAssumption DEF Steps

LEMMA NoTickType == NoTick \in Ticks /\ NoTick.pc = "none" /\ NoTick.old = FALSE
BY DEF NoTick, Ticks

LEMMA TempInit == Init => TempInv
<1> SUFFICES ASSUME Init PROVE TempInv
    OBVIOUS
<1>1. tick \in Ticks /\ tick.pc = "none" /\ tick.old = FALSE
  BY NoTickType DEF Init, InitTemp
<1>2. 0 \in Positions /\ 0 \in 0 .. MaxMoves /\ 0 \in 0 .. MaxMishaps
  BY TempAssumption DEF Positions
<1>3. /\ enabled = FALSE /\ online = FALSE /\ excused = FALSE /\ reference = None /\ temp \in Temps
      /\ at = 0 /\ going = None /\ owed = 0 /\ moves = 0 /\ mishaps = 0
  BY DEF Init, InitTemp
<1>4. TempTypes
  <2>1. owed \in Int
    BY <1>3
  <2>2. reference \in Temps \cup {None} /\ going \in Positions \cup {None} /\ temp \in Temps
    BY <1>3
  <2>3. at \in Positions /\ moves \in 0 .. MaxMoves /\ mishaps \in 0 .. MaxMishaps
    BY <1>2, <1>3
  <2>4. enabled \in BOOLEAN /\ online \in BOOLEAN /\ excused \in BOOLEAN
    BY <1>3, Zenon
  <2>5. QED
    BY <1>1, <2>1, <2>2, <2>3, <2>4 DEF TempTypes
<1>5. BooksBalance
  BY <1>1, <1>3 DEF BooksBalance
<1>6. QED
  BY <1>4, <1>5 DEF TempInv

\* A new session starts with balanced books, or with an excuse.
LEMMA SwitchKeeps ==
  ASSUME TempInv, NEW on \in BOOLEAN, Switch(on), UNCHANGED <<temp, focusVars, moves, mishaps>>, online' \in BOOLEAN
  PROVE  TempInv'
<1>1. /\ enabled' = on /\ reference' = None /\ owed' = 0 /\ excused' = (tick.pc # "none")
      /\ tick' = [tick EXCEPT !.old = tick.pc # "none"] /\ UNCHANGED <<temp, at, going, moves, mishaps>>
  BY DEF Switch, focusVars
<1>2. /\ tick' \in Ticks /\ tick'.pc = tick.pc /\ tick'.old = (tick.pc # "none")
      /\ tick'.t = tick.t /\ tick'.pos = tick.pos /\ tick'.previous = tick.previous /\ tick'.steps = tick.steps
  BY <1>1 DEF TempInv, TempTypes, Ticks
<1>3. TempTypes'
  BY <1>1, <1>2 DEF TempInv, TempTypes
<1>4. BooksBalance'
  BY <1>1, <1>2 DEF BooksBalance
<1>5. QED
  BY <1>3, <1>4 DEF TempInv

LEMMA LookKeeps ==
  ASSUME TempInv, Look
  PROVE  TempInv'
<1>1. /\ tick.pc = "none" /\ UNCHANGED <<enabled, reference, online, temp, at, going, owed, excused, moves, mishaps>>
      /\ tick' = [NoTick EXCEPT !.pc = "read", !.t = temp, !.pos = at, !.busy = going # None]
  BY DEF Look, focusVars, pastVars
<1>2. tick' \in Ticks /\ tick'.pc = "read" /\ tick'.t = temp /\ tick'.pos = at /\ tick'.old = FALSE
  BY <1>1 DEF NoTick, Ticks, TempInv, TempTypes
<1>3. TempTypes'
  BY <1>1, <1>2 DEF TempInv, TempTypes
<1>4. BooksBalance'
  BY <1>1, <1>2 DEF TempInv, BooksBalance
<1>5. QED
  BY <1>3, <1>4 DEF TempInv

LEMMA DecideKeeps ==
  ASSUME TempInv, Decide
  PROVE  TempInv'
<1>1. /\ tick.pc = "read" /\ tick \in Ticks /\ tick.t \in Temps /\ tick.t \in Int
      /\ UNCHANGED <<enabled, online, temp, at, going, excused, moves, mishaps>>
  BY TempAssumption DEF Decide, TempInv, TempTypes, focusVars
<1>2. ~excused => owed = 0
  BY <1>1 DEF TempInv, BooksBalance
<1>3. CASE tick' = NoTick /\ UNCHANGED owed /\ (UNCHANGED reference \/ reference' = tick.t)
  BY <1>1, <1>2, <1>3, NoTickType DEF TempInv, TempTypes, BooksBalance
<1>4. CASE /\ reference # None
           /\ reference' = tick.t /\ owed' = owed + Steps(tick.t)
           /\ tick' = IF Steps(tick.t) = 0 THEN NoTick
                      ELSE [tick EXCEPT !.pc = "submit", !.previous = reference, !.steps = Steps(tick.t)]
  <2>1. reference \in Temps /\ reference \in Int /\ Steps(tick.t) \in Int
    BY <1>1, <1>4, TempAssumption, StepsAreInt DEF TempInv, TempTypes
  <2> DEFINE n == Steps(tick.t)
  <2>2. n \in Int /\ owed' = owed + n /\ owed' \in Int
    BY <1>4, <2>1 DEF TempInv, TempTypes
  <2>3. tick' = IF n = 0 THEN NoTick ELSE [tick EXCEPT !.pc = "submit", !.previous = reference, !.steps = n]
    BY <1>4
  <2> HIDE DEF n
  <2>4. CASE n = 0
    <3>1. tick' = NoTick /\ owed' = owed /\ reference' = tick.t
      BY <1>4, <2>2, <2>3, <2>4 DEF TempInv, TempTypes
    <3>2. TempTypes'
      BY <1>1, <2>2, <3>1, NoTickType DEF TempInv, TempTypes
    <3>3. BooksBalance'
      BY <1>1, <1>2, <3>1, NoTickType DEF BooksBalance
    <3>4. QED
      BY <3>2, <3>3 DEF TempInv
  <2>5. CASE n # 0
    <3>1. /\ tick' \in Ticks /\ tick'.pc = "submit" /\ tick'.t = tick.t /\ tick'.pos = tick.pos
          /\ tick'.previous = reference /\ tick'.steps = n /\ tick'.old = tick.old
      BY <1>1, <2>1, <2>2, <2>3, <2>5 DEF Ticks
    <3>2. TempTypes'
      BY <1>1, <1>4, <2>1, <2>2, <3>1 DEF TempInv, TempTypes
    <3>3. BooksBalance'
      BY <1>1, <1>2, <2>2, <3>1 DEF TempInv, TempTypes, BooksBalance
    <3>4. QED
      BY <3>2, <3>3 DEF TempInv
  <2>6. QED
    BY <2>4, <2>5
<1>5. QED
  BY <1>3, <1>4 DEF Decide

\* The board is told to make target - at steps: what was owed, unless there is an excuse.
LEMMA SubmitKeeps ==
  ASSUME TempInv, Submit
  PROVE  TempInv'
<1> DEFINE target == Clamp(tick.pos + tick.steps)
<1>1. /\ tick.pc = "submit" /\ tick \in Ticks /\ tick.pos \in Positions /\ tick.steps \in Int
      /\ tick.t \in Temps /\ tick.previous \in Temps
      /\ UNCHANGED <<enabled, reference, online, temp, moves>>
  BY DEF Submit, TempInv, TempTypes
<1>2. /\ tick.pos \in Int /\ at \in Int /\ owed \in Int /\ tick.old \in BOOLEAN /\ excused \in BOOLEAN
      /\ tick.pos + tick.steps \in Int
  BY <1>1, TempAssumption DEF Positions, TempInv, TempTypes, Ticks
<1>3. target \in Positions /\ target \in Int
  BY <1>2, ClampInRange, TempAssumption DEF Positions
<1>4. tick.old => excused
  BY DEF TempInv, BooksBalance
<1>5. ~excused => owed = tick.steps
  BY <1>1 DEF TempInv, BooksBalance
<1>6. CASE /\ Accept(target) /\ tick' = NoTick
           /\ excused' = (excused \/ target # tick.pos + tick.steps \/ tick.pos # at)
           /\ UNCHANGED mishaps
  <2>1. /\ going' = target /\ at' = at
        /\ owed' = IF tick.old THEN owed ELSE owed - (target - at)
    BY <1>6 DEF Accept
  <2> HIDE DEF target
  <2>2. owed' \in Int /\ excused' \in BOOLEAN
    BY <1>2, <1>3, <1>6, <2>1
  <2>3. TempTypes'
    BY <1>1, <1>3, <1>6, <2>1, <2>2, NoTickType DEF TempInv, TempTypes
  <2>4. ASSUME ~excused' PROVE owed' = 0
    <3>1. ~excused /\ target = tick.pos + tick.steps /\ tick.pos = at
      BY <1>6, <2>4, Zenon
    <3>2. owed' = owed - (target - at)
      BY <1>4, <2>1, <3>1
    <3>3. QED
      BY <1>1, <1>2, <1>5, <3>1, <3>2
  <2>5. BooksBalance'
    BY <1>6, <2>4, NoTickType DEF BooksBalance
  <2>6. QED
    BY <2>3, <2>5 DEF TempInv
<1>7. CASE /\ tick' = [tick EXCEPT !.pc = "failed"]
           /\ mishaps' \in 0 .. MaxMishaps
           /\ UNCHANGED <<at, going, owed, excused>>
  <2>1. /\ tick' \in Ticks /\ tick'.pc = "failed" /\ tick'.t = tick.t /\ tick'.pos = tick.pos
        /\ tick'.previous = tick.previous /\ tick'.steps = tick.steps /\ tick'.old = tick.old
    BY <1>1, <1>7 DEF Ticks
  <2>2. TempTypes'
    BY <1>1, <1>7, <2>1 DEF TempInv, TempTypes
  <2>3. BooksBalance'
    BY <1>1, <1>7, <2>1 DEF TempInv, BooksBalance
  <2>4. QED
    BY <2>2, <2>3 DEF TempInv
<1>8. CASE /\ tick' = [tick EXCEPT !.pc = "failed"]
           /\ mishaps' \in 0 .. MaxMishaps
           /\ Accept(target) /\ excused' = TRUE
  <2>1. /\ going' = target /\ at' = at
        /\ owed' = IF tick.old THEN owed ELSE owed - (target - at)
    BY <1>8 DEF Accept
  <2> HIDE DEF target
  <2>2. owed' \in Int
    BY <1>2, <1>3, <2>1
  <2>3. /\ tick' \in Ticks /\ tick'.pc = "failed" /\ tick'.t = tick.t /\ tick'.pos = tick.pos
        /\ tick'.previous = tick.previous /\ tick'.steps = tick.steps /\ tick'.old = tick.old
    BY <1>1, <1>8 DEF Ticks
  <2>4. TempTypes'
    BY <1>1, <1>3, <1>8, <2>1, <2>2, <2>3 DEF TempInv, TempTypes
  <2>5. QED
    BY <1>8, <2>4 DEF TempInv, BooksBalance
<1>9. mishaps < MaxMishaps /\ mishaps' = mishaps + 1 => mishaps' \in 0 .. MaxMishaps
  BY TempAssumption DEF TempInv, TempTypes
<1>10. UNCHANGED mishaps => mishaps' \in 0 .. MaxMishaps
  BY DEF TempInv, TempTypes
<1>11. QED
  BY <1>6, <1>7, <1>8, <1>9, <1>10, Zenon DEF Submit, focusVars, pastVars

LEMMA FailedKeeps ==
  ASSUME TempInv, Failed
  PROVE  TempInv'
<1>1. /\ tick.pc = "failed" /\ tick' = NoTick /\ tick.steps \in Int /\ tick.previous \in Temps /\ tick.old \in BOOLEAN
      /\ owed' = (IF tick.old THEN owed ELSE owed - tick.steps)
      /\ reference' \in {reference, tick.previous}
      /\ UNCHANGED <<enabled, online, temp, at, going, excused, moves, mishaps>>
  BY DEF Failed, focusVars, TempInv, TempTypes, Ticks
<1>2. owed' \in Int
  BY <1>1 DEF TempInv, TempTypes
<1>3. TempTypes'
  BY <1>1, <1>2, NoTickType DEF TempInv, TempTypes
<1>4. BooksBalance'
  BY <1>1, NoTickType DEF TempInv, TempTypes, BooksBalance
<1>5. QED
  BY <1>3, <1>4 DEF TempInv

LEMMA TempNext == TempInv /\ [Next]_vars => TempInv'
<1> SUFFICES ASSUME TempInv, [Next]_vars PROVE TempInv'
    OBVIOUS
<1>1. CASE UNCHANGED tempVars /\ online' \in BOOLEAN
  BY <1>1 DEF tempVars, compVars, focusVars, pastVars, TempInv, TempTypes, BooksBalance
<1>2. CASE Reset /\ UNCHANGED <<temp, focusVars, moves, mishaps>> /\ online' \in BOOLEAN
  BY <1>2, SwitchKeeps DEF Reset
<1>3. CASE UseFocuser
  <2>1. ASSUME NEW on \in BOOLEAN, Enable(on) PROVE TempInv'
    BY <2>1, SwitchKeeps DEF Enable, TempInv, TempTypes
  <2>2. CASE Tick
    BY <2>2, LookKeeps, DecideKeeps, SubmitKeeps, FailedKeeps DEF Tick
  <2>3. CASE ClientMove
    BY <2>3, TempAssumption DEF ClientMove, compVars, pastVars, TempInv, TempTypes, BooksBalance, Positions
  <2>4. CASE ClientHalt
    BY <2>4, TempAssumption DEF ClientHalt, compVars, pastVars, TempInv, TempTypes, BooksBalance, Positions
  <2>5. CASE MoveEnds
    BY <2>5 DEF MoveEnds, compVars, pastVars, TempInv, TempTypes, BooksBalance
  <2>6. CASE Weather
    BY <2>6 DEF Weather, compVars, focusVars, pastVars, TempInv, TempTypes, BooksBalance
  <2>7. QED
    BY <1>3, <2>1, <2>2, <2>3, <2>4, <2>5, <2>6 DEF UseFocuser
<1>4. online \in BOOLEAN
  BY DEF TempInv, TempTypes
<1>5. ASSUME NEW s, NEW t, Acquire(s, t) PROVE TempInv'
  BY <1>1, <1>2, <1>4, <1>5 DEF Acquire, KeepTemp
<1>6. ASSUME ReleaseConnection, UNCHANGED online PROVE TempInv'
  BY <1>1, <1>2, <1>4, <1>6 DEF ReleaseConnection, KeepTemp
<1>7. ASSUME NEW d \in Devices, SetConnected(d) \/ Connect(d) PROVE TempInv'
  BY <1>5, <1>7 DEF SetConnected, Connect
<1>8. ASSUME NEW d \in Devices, Disconnect(d) PROVE TempInv'
  BY <1>6, <1>8 DEF Disconnect
<1>9. ASSUME NEW d \in Devices, FailWait(d) PROVE TempInv'
  BY <1>1, <1>4, <1>6, <1>9 DEF FailWait, DropOwn, KeepTemp
<1>10. ASSUME NEW d \in Devices, Call(d) \/ Begin(d) \/ Arrive(d) \/ Enter(d) \/ Check(d) \/ Return(d) \/ EnterDfu(d)
      PROVE  TempInv'
  BY <1>1, <1>4, <1>10 DEF Call, Begin, Arrive, Enter, Check, Return, EnterDfu, KeepTemp
<1>11. CASE OpenDialog
  BY <1>5, <1>11 DEF OpenDialog
<1>12. CASE CloseDialog
  BY <1>6, <1>12 DEF CloseDialog
<1>13. CASE CallDialog \/ DfuCheck \/ DfuConnect \/ Found \/ Lost \/ UNCHANGED vars
  BY <1>1, <1>4, <1>13 DEF CallDialog, DfuCheck, DfuConnect, Found, Lost, vars, KeepTemp
<1>14. QED
  BY <1>3, <1>7, <1>8, <1>9, <1>10, <1>11, <1>12, <1>13 DEF Next

LEMMA TempAlways == Spec => []TempInv
BY TempInit, TempNext, PTL DEF Spec

\* Between two callbacks the focuser was told to make exactly the steps that the moves of the reference stand
\* for, but for the excuses the property names; for every coefficient, threshold and travel.
THEOREM CompensationCorrect == Spec => []Compensated
<1>1. TempInv => Compensated
  BY DEF TempInv, TempTypes, BooksBalance, Compensated
<1>2. QED
  BY <1>1, TempAlways, PTL

\* Types of the server's, the instances' and the compensation's state.
THEOREM ServerTypesCorrect == Spec => []TypeOK
<1>1. ServerInv /\ TempInv => TypeOK
  <2> SUFFICES ASSUME ServerInv, TempInv PROVE TypeOK
    OBVIOUS
  <2>1. Cardinality(Devices) \in Nat
    BY DeviceAssumption, FS_CardinalityType
  <2>2. clients \in 0 .. Cardinality(Devices) + 1
    BY <2>1, HoldersFinite, CountByHolders DEF ServerInv, ServerTypes
  <2>3. QED
    BY <2>2 DEF ServerInv, ServerTypes, TempInv, TempTypes, Ticks, Positions, TypeOK
<1>2. QED
  BY <1>1, ServerAlways, TempAlways, PTL
=============================================================================
