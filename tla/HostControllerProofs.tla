------------------------- MODULE HostControllerProofs -------------------------
(***************************************************************************)
(* Proofs about HostController, for any boards, callers and kinds of       *)
(* commands, any failure limit and any number of mishaps.                  *)
(***************************************************************************)
EXTENDS HostController, SequenceTheorems, TLAPS

\* Types of what Submit() and the worker share.
CallTypes ==
  /\ queue \in Seq(Callers)
  /\ kind \in [Callers -> {"move", "halt", "reboot", "dfu", None}]
  /\ work \in [Callers -> {"none", "pending", "running", "done", "abandoned"}]
  /\ result \in [Callers -> {"none", "ok", "fail"}]
  /\ call \in [Callers -> {"out", "checked", "waiting"}]
  /\ did \in [Callers -> BOOLEAN]
  /\ cur \in Callers \cup {None}

\* What the state of a Work says about its caller, its result and its place.
CallSound(c) ==
  /\ work[c] = "running" <=> cur = c
  /\ call[c] = "waiting" <=> work[c] \in {"pending", "running", "done"}
  /\ work[c] = "pending" => \E i \in 1 .. Len(queue) : queue[i] = c
  /\ work[c] \in {"none", "pending", "abandoned"} => result[c] = "none"
  /\ work[c] = "done" => result[c] # "none"
  /\ result[c] = "ok" => did[c]
CallsSound == \A c \in Callers : CallSound(c)

\* Nobody is queued twice, and no halt waits behind another command.
CheckedOut == \A c \in Callers : call[c] = "checked" => \A i \in 1 .. Len(queue) : queue[i] # c
HaltsAhead ==
  \A i, j \in 1 .. Len(queue) :
    i < j /\ work[queue[i]] = "pending" /\ work[queue[j]] = "pending" /\ kind[queue[j]] = "halt" => kind[queue[i]] = "halt"

\* Where the worker is, whether it runs a Work and whether the port is open.
Alone   == {"top", "try", "refresh", "trip", "gone"}
Serving == {"run", "reset", "ask", "after", "finish"}
Linked  == {"refresh", "trip", "run", "reset", "ask", "after"}
PlaceSound ==
  /\ pc \in Phases
  /\ pc \in Alone => cur = None
  /\ pc \in Serving => cur # None
  /\ pc \in Linked => conn = "connected"
  /\ pc = "try" => conn # "connected"
  /\ pc = "givingUp" => port = None
  /\ pc # "givingUp" => (port # None <=> conn = "connected")

\* Types of the rest; failures in a row are mishaps.
LinkTypes ==
  /\ conn \in {"disconnected", "connecting", "connected", "reconnecting"} /\ seen \in {"none", "idle", "busy"}
  /\ {bound, port, sought, last} \subseteq Boards \cup {None}
  /\ failures \in Nat /\ mishaps \in Nat /\ failures <= mishaps /\ mishaps <= MaxMishaps

BoardTypes == moving \in [Boards -> Callers \cup {None}] /\ at \in [Boards -> Callers \cup {None}]

\* A board that moves to the target of a move that runs, or stands there, got it.
TargetTrue ==
  /\ pc = "ask" \/ (pc = "run" /\ kind[cur] = "move") => (cur \in {moving[port], at[port]} => did[cur])
  /\ pc = "reset" => kind[cur] \in Resets

\* The board last connected to is the one that is looked for.
BoundToLast == last # None => bound = last /\ (pc = "try" => sought = last)

HostInv ==
  /\ CallTypes /\ CallsSound /\ CheckedOut /\ HaltsAhead
  /\ PlaceSound /\ LinkTypes /\ BoardTypes /\ TargetTrue /\ BoundToLast

-----------------------------------------------------------------------------
(***************************************************************************)
(* What a step may do to the calls.                                        *)
(***************************************************************************)
Kept == UNCHANGED <<queue, kind, work, result, call, did, cur>>

\* The board may have got the command that runs.
MayHaveDone == did' = did \/ (cur # None /\ did' = [did EXCEPT ![cur] = TRUE])

\* All that is queued has failed.
Dropped ==
  /\ queue' = <<>>
  /\ work' = [c \in Callers |-> IF work[c] = "pending" THEN "done" ELSE work[c]]
  /\ result' = [c \in Callers |-> IF work[c] = "pending" THEN "fail" ELSE result[c]]
  /\ MayHaveDone
  /\ UNCHANGED <<kind, call, cur>>

\* The Work that runs gets its result, or goes on.
Told ==
  /\ cur # None /\ MayHaveDone
  /\ \/ result' = result
     \/ \E r \in {"ok", "fail"} : result' = [result EXCEPT ![cur] = r] /\ (r = "ok" => did'[cur])
  /\ UNCHANGED <<queue, kind, work, call, cur>>

LEMMA DropDrops ==
  ASSUME Drop, UNCHANGED <<call, cur>>, MayHaveDone
  PROVE  Dropped
BY DEF Drop, FailAllQueued, Dropped

LEMMA CutDrops ==
  ASSUME Cut, UNCHANGED <<call, cur>>, MayHaveDone
  PROVE  Dropped
BY DropDrops DEF Cut, Lose

LEMMA CarryDoes ==
  ASSUME HostInv, Carry, cur # None
  PROVE  MayHaveDone /\ did'[cur]
BY DEF Carry, MayHaveDone, HostInv, CallTypes

LEMMA ConcludeTells ==
  ASSUME HostInv, NEW r \in {"ok", "fail"}, Conclude(r), r = "ok" => did'[cur],
         cur # None, MayHaveDone, UNCHANGED <<queue, kind, work, call, cur>>
  PROVE  Told
BY DEF Conclude, Told

\* A poll, or another exchange that concludes nothing.
LEMMA PollShape ==
  ASSUME NEW next, PollOr(next), UNCHANGED <<call, cur, did>>
  PROVE  Kept \/ Dropped
<1>1. MayHaveDone
  BY DEF MayHaveDone
<1>2. CASE Cut
  BY <1>1, <1>2, CutDrops
<1>3. CASE (Reply \/ Silent) /\ UNCHANGED result
  BY <1>3 DEF Reply, Silent, Kept
<1>4. QED
  BY <1>2, <1>3 DEF PollOr

LEMMA WorkerShape ==
  ASSUME HostInv, Worker
  PROVE  Kept \/ Dropped \/ Told \/ Pick \/ Rebooted \/ Finish
<1> DEFINE Shape == Kept \/ Dropped \/ Told \/ Pick \/ Rebooted \/ Finish
<1>1. CASE Quit \/ Close
  BY <1>1, DropDrops DEF Quit, Close, MayHaveDone, runVars
<1>2. CASE Attempt \/ (\E b \in Boards : Found(b)) \/ NotFound \/ GivingUp
  BY <1>2 DEF Attempt, Found, NotFound, GivingUp, callVars, Kept
<1>3. CASE Refresh
  <2>1. MayHaveDone
    BY <1>3 DEF Refresh, MayHaveDone
  <2>2. CASE Cut
    BY <1>3, <2>1, <2>2, CutDrops DEF Refresh
  <2>3. CASE (Reply \/ Silent) /\ UNCHANGED result
    BY <1>3, <2>3 DEF Refresh, Reply, Silent, Kept
  <2>4. QED
    BY <1>3, <2>2, <2>3 DEF Refresh
<1>4. CASE Obeyed
  <2>1. cur # None
    BY <1>4 DEF Obeyed, Sending, HostInv, PlaceSound, Serving
  <2>2. MayHaveDone /\ did'[cur]
    BY <1>4, <2>1, CarryDoes DEF Obeyed
  <2>3. Conclude("ok") /\ UNCHANGED <<queue, kind, work, call, cur>>
    BY <1>4 DEF Obeyed, Reply
  <2>4. QED
    BY <2>1, <2>2, <2>3, ConcludeTells
<1>5. CASE Refused
  <2>1. cur # None
    BY <1>5 DEF Refused, Sending, HostInv, PlaceSound, Serving
  <2>2. Conclude("fail") /\ UNCHANGED <<queue, kind, work, call, cur>> /\ MayHaveDone
    BY <1>5 DEF Refused, Reply, MayHaveDone
  <2>3. QED
    BY <2>1, <2>2, ConcludeTells
<1>6. CASE Unanswered
  <2>1. cur # None
    BY <1>6 DEF Unanswered, Sending, HostInv, PlaceSound, Serving
  <2>2. MayHaveDone
    BY <1>6, <2>1, CarryDoes DEF Unanswered, MayHaveDone
  <2>3. AfterSilence /\ UNCHANGED <<queue, kind, work, call, cur>>
    BY <1>6 DEF Unanswered, Silent
  <2>4. CASE UNCHANGED result
    BY <2>1, <2>2, <2>3, <2>4 DEF Told
  <2>5. CASE Conclude("fail")
    BY <2>1, <2>2, <2>3, <2>5, ConcludeTells
  <2>6. QED
    BY <2>3, <2>4, <2>5 DEF AfterSilence
<1>7. CASE CutOff
  <2>1. cur # None
    BY <1>7 DEF CutOff, Sending, HostInv, PlaceSound, Serving
  <2>2. MayHaveDone
    BY <1>7, <2>1, CarryDoes DEF CutOff, MayHaveDone
  <2>3. QED
    BY <1>7, <2>2, CutDrops DEF CutOff
<1>8. CASE Ask
  <2>1. cur # None /\ cur \in Callers
    BY <1>8 DEF Ask, HostInv, PlaceSound, Serving, CallTypes
  <2>2. MayHaveDone /\ did' = did
    BY <1>8 DEF Ask, MayHaveDone
  <2>3. CASE Cut
    BY <1>8, <2>2, <2>3, CutDrops DEF Ask
  <2>4. CASE Reply /\ Conclude(IF cur \in {moving[port], at[port]} THEN "ok" ELSE "fail")
    <3>1. cur \in {moving[port], at[port]} => did'[cur]
      BY <1>8, <2>2 DEF Ask, HostInv, TargetTrue
    <3>2. UNCHANGED <<queue, kind, work, call, cur>>
      BY <1>8, <2>4 DEF Ask, Reply
    <3>3. CASE cur \in {moving[port], at[port]}
      BY <2>1, <2>2, <2>4, <3>1, <3>2, <3>3, ConcludeTells
    <3>4. CASE cur \notin {moving[port], at[port]}
      BY <2>1, <2>2, <2>4, <3>1, <3>2, <3>4, ConcludeTells
    <3>5. QED
      BY <3>3, <3>4
  <2>5. CASE Silent /\ Conclude("fail")
    <3>1. UNCHANGED <<queue, kind, work, call, cur>>
      BY <1>8, <2>5 DEF Ask, Silent
    <3>2. QED
      BY <2>1, <2>2, <2>5, <3>1, ConcludeTells
  <2>6. QED
    BY <1>8, <2>3, <2>4, <2>5 DEF Ask
<1>9. CASE ResetCheck \/ After
  BY <1>9, PollShape DEF ResetCheck, After
<1>10. CASE ResetRefused
  <2>1. cur # None
    BY <1>10 DEF ResetRefused, HostInv, PlaceSound, Serving
  <2>2. QED
    BY <1>10, <2>1, ConcludeTells DEF ResetRefused, MayHaveDone
<1>11. CASE InDfu
  <2>1. cur # None
    BY <1>11 DEF InDfu, HostInv, PlaceSound, Serving
  <2>2. MayHaveDone /\ did'[cur]
    BY <1>11, <2>1, CarryDoes DEF InDfu
  <2>3. QED
    BY <1>11, <2>1, <2>2 DEF InDfu, Told
<1>12. CASE Poll
  <2>1. MayHaveDone
    BY <1>12 DEF Poll, MayHaveDone
  <2>2. CASE Cut
    BY <1>12, <2>1, <2>2, CutDrops DEF Poll
  <2>3. CASE (Reply \/ Silent) /\ UNCHANGED result
    BY <1>12, <2>3 DEF Poll, Reply, Silent, Kept
  <2>4. QED
    BY <1>12, <2>2, <2>3 DEF Poll
<1>13. CASE Trip
  <2>1. MayHaveDone
    BY <1>13 DEF Trip, MayHaveDone
  <2>2. CASE Cut
    BY <1>13, <2>1, <2>2, CutDrops DEF Trip
  <2>3. CASE (Reply \/ Silent) /\ UNCHANGED result
    BY <1>13, <2>3 DEF Trip, Reply, Silent, Kept
  <2>4. QED
    BY <1>13, <2>2, <2>3 DEF Trip
<1>14. QED
  BY <1>1, <1>2, <1>3, <1>4, <1>5, <1>6, <1>7, <1>8, <1>9, <1>10, <1>11, <1>12, <1>13 DEF Worker

LEMMA StepShape ==
  ASSUME HostInv, [Next]_vars
  PROVE  \/ Kept \/ Dropped \/ Told \/ Pick \/ Rebooted \/ Finish
         \/ \E c \in Callers : Check(c) \/ Enqueue(c) \/ Return(c) \/ GiveUp(c)
<1>1. CASE Worker
  BY <1>1, WorkerShape
<1>2. CASE Connect \/ Disconnect \/ Dispose
  BY <1>2 DEF Connect, Disconnect, Dispose, callVars, runVars, Kept
<1>3. CASE Board
  BY <1>3 DEF Board, MoveDone, Plug, Unplug, callVars, runVars, Kept
<1>4. CASE UNCHANGED vars
  BY <1>4 DEF vars, callVars, runVars, Kept
<1>5. QED
  BY <1>1, <1>2, <1>3, <1>4 DEF Next, Client

-----------------------------------------------------------------------------
(***************************************************************************)
(* The calls stay in order.                                                *)
(***************************************************************************)
CallInv == CallTypes /\ CallsSound /\ CheckedOut /\ HaltsAhead

\* Elements of the three sequences a queue may turn into.
LEMMA QueueEnds ==
  ASSUME NEW S, NEW q \in Seq(S), NEW c \in S
  PROVE  /\ Append(q, c) \in Seq(S) /\ Len(Append(q, c)) = Len(q) + 1
         /\ \A i \in 1 .. Len(q) : Append(q, c)[i] = q[i]
         /\ Append(q, c)[Len(q) + 1] = c
         /\ <<c>> \o q \in Seq(S) /\ Len(<<c>> \o q) = Len(q) + 1
         /\ \A i \in 2 .. Len(q) + 1 : (<<c>> \o q)[i] = q[i - 1]
         /\ (<<c>> \o q)[1] = c
OBVIOUS

LEMMA QueueRest ==
  ASSUME NEW S, NEW q \in Seq(S), NEW i \in 1 .. Len(q)
  PROVE  /\ SubSeq(q, i + 1, Len(q)) \in Seq(S) /\ Len(SubSeq(q, i + 1, Len(q))) = Len(q) - i
         /\ \A j \in 1 .. Len(q) - i : SubSeq(q, i + 1, Len(q))[j] = q[i + j]
OBVIOUS

LEMMA KeptKeeps ==
  ASSUME CallInv, Kept
  PROVE  CallInv'
BY DEF CallInv, Kept, CallTypes, CallsSound, CallSound, CheckedOut, HaltsAhead

\* did'[c] follows from did[c].
LEMMA DidStays ==
  ASSUME CallTypes, MayHaveDone
  PROVE  did' \in [Callers -> BOOLEAN] /\ \A c \in Callers : did[c] => did'[c]
BY DEF CallTypes, MayHaveDone

LEMMA DroppedKeeps ==
  ASSUME CallInv, Dropped
  PROVE  CallInv'
<1>1. did' \in [Callers -> BOOLEAN] /\ \A c \in Callers : did[c] => did'[c]
  BY DidStays DEF CallInv, Dropped
<1>2. queue' = <<>> /\ Len(queue') = 0 /\ UNCHANGED <<kind, call, cur>>
  BY DEF Dropped
<1>3. \A c \in Callers : /\ work'[c] = IF work[c] = "pending" THEN "done" ELSE work[c]
                         /\ result'[c] = IF work[c] = "pending" THEN "fail" ELSE result[c]
  BY DEF Dropped
<1>4. CallTypes'
  BY <1>1, <1>2 DEF CallInv, CallTypes, Dropped
<1>5. ASSUME NEW c \in Callers PROVE CallSound(c)'
  BY <1>1, <1>2, <1>3 DEF CallInv, CallTypes, CallsSound, CallSound
<1>6. CheckedOut' /\ HaltsAhead'
  BY <1>2 DEF CheckedOut, HaltsAhead
<1>7. QED
  BY <1>4, <1>5, <1>6 DEF CallInv, CallsSound

LEMMA ToldKeeps ==
  ASSUME CallInv, Told
  PROVE  CallInv'
<1>1. did' \in [Callers -> BOOLEAN] /\ \A c \in Callers : did[c] => did'[c]
  BY DidStays DEF CallInv, Told
<1>2. UNCHANGED <<queue, kind, work, call, cur>> /\ cur \in Callers /\ work[cur] = "running"
  BY DEF Told, CallInv, CallTypes, CallsSound, CallSound
<1>3. CheckedOut' /\ HaltsAhead'
  BY <1>2 DEF CallInv, CheckedOut, HaltsAhead
<1>4. CASE result' = result
  BY <1>1, <1>2, <1>3, <1>4 DEF CallInv, CallTypes, CallsSound, CallSound
<1>5. ASSUME NEW r \in {"ok", "fail"}, result' = [result EXCEPT ![cur] = r], r = "ok" => did'[cur] PROVE CallInv'
  <2>1. CallTypes'
    BY <1>1, <1>2, <1>5 DEF CallInv, CallTypes
  <2>2. ASSUME NEW c \in Callers PROVE CallSound(c)'
    <3>1. CASE c = cur
      BY <1>1, <1>2, <1>5, <3>1 DEF CallInv, CallTypes, CallsSound, CallSound
    <3>2. CASE c # cur
      BY <1>1, <1>2, <1>5, <3>2 DEF CallInv, CallTypes, CallsSound, CallSound
    <3>3. QED
      BY <3>1, <3>2
  <2>3. QED
    BY <1>3, <2>1, <2>2 DEF CallInv, CallsSound
<1>6. QED
  BY <1>4, <1>5 DEF Told

LEMMA RebootedKeeps ==
  ASSUME CallInv, cur # None, Rebooted
  PROVE  CallInv'
<1>1. cur \in Callers /\ work[cur] = "running" /\ UNCHANGED <<kind, call, cur>> /\ queue' = <<>> /\ Len(queue') = 0
  BY DEF Rebooted, CallInv, CallTypes, CallsSound, CallSound
<1>2. did' = [did EXCEPT ![cur] = TRUE]
  BY DEF Rebooted, Carry
<1>3. \A c \in Callers : /\ work'[c] = IF work[c] = "pending" THEN "done" ELSE work[c]
                         /\ result'[c] = IF work[c] = "pending" THEN "fail" ELSE IF c = cur THEN "ok" ELSE result[c]
  BY DEF Rebooted
<1>4. CallTypes'
  BY <1>1, <1>2 DEF CallInv, CallTypes, Rebooted
<1>5. ASSUME NEW c \in Callers PROVE CallSound(c)'
  BY <1>1, <1>2, <1>3 DEF CallInv, CallTypes, CallsSound, CallSound
<1>6. CheckedOut' /\ HaltsAhead'
  BY <1>1 DEF CheckedOut, HaltsAhead
<1>7. QED
  BY <1>4, <1>5, <1>6 DEF CallInv, CallsSound

LEMMA FinishKeeps ==
  ASSUME CallInv, cur # None, None \notin Callers, Finish
  PROVE  CallInv'
<1>1. cur \in Callers /\ work[cur] = "running" /\ UNCHANGED <<queue, kind, call, did>> /\ cur' = None
  BY DEF Finish, CallInv, CallTypes, CallsSound, CallSound
<1>2. /\ work' = [work EXCEPT ![cur] = "done"]
      /\ result' = [result EXCEPT ![cur] = IF result[cur] = "none" THEN "fail" ELSE result[cur]]
  BY DEF Finish
<1>3. CallTypes'
  BY <1>1, <1>2 DEF CallInv, CallTypes
<1>4. ASSUME NEW c \in Callers PROVE CallSound(c)'
  <2>1. CASE c = cur
    BY <1>1, <1>2, <2>1 DEF CallInv, CallTypes, CallsSound, CallSound
  <2>2. CASE c # cur
    BY <1>1, <1>2, <2>2 DEF CallInv, CallTypes, CallsSound, CallSound
  <2>3. QED
    BY <2>1, <2>2
<1>5. CheckedOut'
  BY <1>1 DEF CallInv, CheckedOut
<1>6. HaltsAhead'
  BY <1>1, <1>2 DEF CallInv, CallTypes, HaltsAhead
<1>7. QED
  BY <1>3, <1>4, <1>5, <1>6 DEF CallInv, CallsSound

LEMMA PickKeeps ==
  ASSUME CallInv, cur = None, None \notin Callers, Pick
  PROVE  CallInv'
<1>1. PICK i \in 1 .. Len(queue) :
        /\ work[queue[i]] = "pending" /\ \A j \in 1 .. i - 1 : work[queue[j]] # "pending"
        /\ cur' = queue[i]
        /\ queue' = SubSeq(queue, i + 1, Len(queue))
        /\ work' = [work EXCEPT ![queue[i]] = "running"]
        /\ did' = [did EXCEPT ![queue[i]] = kind[queue[i]] = "move" /\ queue[i] \in {moving[port], at[port]}]
  <2>1. DOMAIN queue = 1 .. Len(queue)
    BY DEF CallInv, CallTypes
  <2>2. QED
    BY <2>1 DEF Pick
<1> DEFINE p == queue[i]
<1>2. p \in Callers /\ i \in Nat /\ Len(queue) \in Nat /\ i >= 1 /\ i <= Len(queue)
  BY DEF CallInv, CallTypes
<1>3. UNCHANGED <<kind, result, call>>
  BY DEF Pick
<1>4. /\ queue' \in Seq(Callers) /\ Len(queue') = Len(queue) - i
      /\ \A j \in 1 .. Len(queue) - i : queue'[j] = queue[i + j]
  BY <1>1, QueueRest DEF CallInv, CallTypes
<1>5. work' \in [Callers -> {"none", "pending", "running", "done", "abandoned"}] /\ did' \in [Callers -> BOOLEAN]
  <2>1. (kind[p] = "move" /\ p \in {moving[port], at[port]}) \in BOOLEAN
    OBVIOUS
  <2>2. QED
    BY <1>1, <1>2, <2>1 DEF CallInv, CallTypes
<1>6. \A c \in Callers : c # p => work'[c] = work[c] /\ did'[c] = did[c]
  BY <1>1, <1>2 DEF CallInv, CallTypes
<1>7. work'[p] = "running" /\ cur' = p
  BY <1>1, <1>2 DEF CallInv, CallTypes
<1>8. CallTypes'
  BY <1>2, <1>3, <1>4, <1>5, <1>7 DEF CallInv, CallTypes
<1>9. ASSUME NEW c \in Callers PROVE CallSound(c)'
  <2>1. CallSound(c)
    BY DEF CallInv, CallsSound
  <2>2. CASE c = p
    BY <1>1, <1>3, <1>7, <2>1, <2>2 DEF CallSound
  <2>3. CASE c # p
    <3>1. ASSUME work[c] = "pending" PROVE \E j \in 1 .. Len(queue') : queue'[j] = c
      <4>1. PICK k \in 1 .. Len(queue) : queue[k] = c
        BY <2>1, <3>1 DEF CallSound
      <4>2. k # i /\ ~ k < i
        BY <1>1, <1>2, <2>3, <3>1, <4>1
      <4>3. k - i \in 1 .. Len(queue) - i /\ i + (k - i) = k
        BY <1>2, <4>1, <4>2
      <4>4. QED
        BY <1>4, <4>1, <4>3
    <3>2. QED
      BY <1>3, <1>6, <1>7, <2>1, <2>3, <3>1 DEF CallSound
  <2>4. QED
    BY <2>2, <2>3
<1>10. CheckedOut'
  <2>1. ASSUME NEW c \in Callers, call'[c] = "checked", NEW j \in 1 .. Len(queue') PROVE queue'[j] # c
    <3>1. j \in 1 .. Len(queue) - i /\ i + j \in 1 .. Len(queue)
      BY <1>2, <1>4
    <3>2. QED
      BY <1>3, <1>4, <2>1, <3>1 DEF CallInv, CheckedOut
  <2>2. QED
    BY <2>1 DEF CheckedOut
<1>11. HaltsAhead'
  <2>1. ASSUME NEW a \in 1 .. Len(queue'), NEW b \in 1 .. Len(queue'), a < b,
               work'[queue'[a]] = "pending", work'[queue'[b]] = "pending", kind'[queue'[b]] = "halt"
        PROVE  kind'[queue'[a]] = "halt"
    <3>1. /\ i + a \in 1 .. Len(queue) /\ i + b \in 1 .. Len(queue) /\ i + a < i + b
          /\ queue'[a] = queue[i + a] /\ queue'[b] = queue[i + b]
      BY <1>2, <1>4, <2>1
    <3>2. queue[i + a] \in Callers /\ queue[i + b] \in Callers
      BY <3>1 DEF CallInv, CallTypes
    <3>3. work[queue[i + a]] = "pending" /\ work[queue[i + b]] = "pending"
      BY <1>6, <1>7, <2>1, <3>1, <3>2
    <3>4. QED
      BY <1>3, <2>1, <3>1, <3>3 DEF CallInv, HaltsAhead
  <2>2. QED
    BY <2>1 DEF HaltsAhead
<1>12. QED
  BY <1>8, <1>9, <1>10, <1>11 DEF CallInv, CallsSound

LEMMA CheckKeeps ==
  ASSUME CallInv, NEW c \in Callers, Check(c)
  PROVE  CallInv'
<1>1. /\ call[c] = "out" /\ call' = [call EXCEPT ![c] = "checked"]
      /\ \A i \in 1 .. Len(queue) : queue[i] # c
      /\ UNCHANGED <<queue, kind, work, result, did, cur>>
  BY DEF Check, runVars, CallInv, CallTypes
<1>2. CallTypes'
  BY <1>1 DEF CallInv, CallTypes
<1>3. ASSUME NEW e \in Callers PROVE CallSound(e)'
  BY <1>1 DEF CallInv, CallTypes, CallsSound, CallSound
<1>4. CheckedOut' /\ HaltsAhead'
  BY <1>1 DEF CallInv, CallTypes, CheckedOut, HaltsAhead
<1>5. QED
  BY <1>2, <1>3, <1>4 DEF CallInv, CallsSound

LEMMA ReturnKeeps ==
  ASSUME CallInv, NEW c \in Callers, Return(c)
  PROVE  CallInv'
<1>1. /\ call[c] = "waiting" /\ work[c] = "done" /\ UNCHANGED <<queue, cur>>
      /\ call' = [call EXCEPT ![c] = "out"] /\ work' = [work EXCEPT ![c] = "none"]
      /\ result' = [result EXCEPT ![c] = "none"] /\ kind' = [kind EXCEPT ![c] = None]
      /\ did' = [did EXCEPT ![c] = FALSE]
  BY DEF Return, runVars
<1>2. CallTypes'
  BY <1>1 DEF CallInv, CallTypes
<1>3. ASSUME NEW e \in Callers PROVE CallSound(e)'
  <2>1. CASE e = c
    BY <1>1, <2>1 DEF CallInv, CallTypes, CallsSound, CallSound
  <2>2. CASE e # c
    BY <1>1, <2>2 DEF CallInv, CallTypes, CallsSound, CallSound
  <2>3. QED
    BY <2>1, <2>2
<1>4. CheckedOut'
  BY <1>1 DEF CallInv, CallTypes, CheckedOut
<1>5. HaltsAhead'
  <2>1. \A i \in 1 .. Len(queue) : queue[i] \in Callers
    BY DEF CallInv, CallTypes
  <2>2. \A e \in Callers : work'[e] = "pending" => e # c /\ work[e] = "pending" /\ kind'[e] = kind[e]
    BY <1>1 DEF CallInv, CallTypes
  <2>3. QED
    BY <1>1, <2>1, <2>2 DEF CallInv, HaltsAhead
<1>6. QED
  BY <1>2, <1>3, <1>4, <1>5 DEF CallInv, CallsSound

LEMMA GiveUpKeeps ==
  ASSUME CallInv, NEW c \in Callers, GiveUp(c)
  PROVE  CallInv'
<1>1. /\ call[c] = "waiting" /\ work[c] = "pending" /\ UNCHANGED <<queue, cur, result, did>>
      /\ call' = [call EXCEPT ![c] = "out"] /\ work' = [work EXCEPT ![c] = "abandoned"]
      /\ kind' = [kind EXCEPT ![c] = None]
  BY DEF GiveUp, Cancel, runVars
<1>2. CallTypes'
  BY <1>1 DEF CallInv, CallTypes
<1>3. ASSUME NEW e \in Callers PROVE CallSound(e)'
  <2>1. CASE e = c
    BY <1>1, <2>1 DEF CallInv, CallTypes, CallsSound, CallSound
  <2>2. CASE e # c
    BY <1>1, <2>2 DEF CallInv, CallTypes, CallsSound, CallSound
  <2>3. QED
    BY <2>1, <2>2
<1>4. CheckedOut'
  BY <1>1 DEF CallInv, CallTypes, CheckedOut
<1>5. HaltsAhead'
  <2>1. \A i \in 1 .. Len(queue) : queue[i] \in Callers
    BY DEF CallInv, CallTypes
  <2>2. \A e \in Callers : work'[e] = "pending" => e # c /\ work[e] = "pending" /\ kind'[e] = kind[e]
    BY <1>1 DEF CallInv, CallTypes
  <2>3. QED
    BY <1>1, <2>1, <2>2 DEF CallInv, HaltsAhead
<1>6. QED
  BY <1>2, <1>3, <1>4, <1>5 DEF CallInv, CallsSound

LEMMA EnqueueKeeps ==
  ASSUME CallInv, NEW c \in Callers, Enqueue(c)
  PROVE  CallInv'
<1>1. PICK k \in Kinds[c] :
        /\ queue' = IF Urgent(k) THEN <<c>> \o queue ELSE Append(queue, c)
        /\ kind' = [kind EXCEPT ![c] = k]
  BY DEF Enqueue
<1>2. /\ call[c] = "checked" /\ call' = [call EXCEPT ![c] = "waiting"] /\ work' = [work EXCEPT ![c] = "pending"]
      /\ UNCHANGED <<result, did, cur>>
  BY DEF Enqueue, runVars
<1>3. k \in {"move", "halt", "reboot", "dfu"} /\ queue \in Seq(Callers) /\ Len(queue) \in Nat
  <2>1. Kinds \in [Callers -> SUBSET {"move", "halt", "reboot", "dfu"}]
    BY HostAssumption
  <2>2. Kinds[c] \in SUBSET {"move", "halt", "reboot", "dfu"}
    BY <2>1
  <2>3. queue \in Seq(Callers) /\ Len(queue) \in Nat
    BY DEF CallInv, CallTypes
  <2>4. QED
    BY <1>1, <2>2, <2>3
<1>4. \A i \in 1 .. Len(queue) : queue[i] # c /\ queue[i] \in Callers
  BY <1>2 DEF CallInv, CallTypes, CheckedOut
<1>5. \A e \in Callers : e # c => work'[e] = work[e] /\ kind'[e] = kind[e] /\ call'[e] = call[e]
  BY <1>1, <1>2 DEF CallInv, CallTypes
<1>6. work'[c] = "pending" /\ kind'[c] = k /\ call'[c] = "waiting"
  BY <1>1, <1>2 DEF CallInv, CallTypes
\* The queue grew by c, at one end.
<1>7. /\ queue' \in Seq(Callers) /\ Len(queue') = Len(queue) + 1
      /\ \/ k = "halt" /\ queue'[1] = c /\ \A i \in 2 .. Len(queue) + 1 : queue'[i] = queue[i - 1]
         \/ k # "halt" /\ queue'[Len(queue) + 1] = c /\ \A i \in 1 .. Len(queue) : queue'[i] = queue[i]
  BY <1>1, <1>3, QueueEnds DEF Urgent
<1>8. \A e \in Callers : (\E i \in 1 .. Len(queue) : queue[i] = e) => \E i \in 1 .. Len(queue') : queue'[i] = e
  <2>1. ASSUME NEW i \in 1 .. Len(queue) PROVE \E j \in 1 .. Len(queue') : queue'[j] = queue[i]
    <3>1. CASE k = "halt"
      <4>1. i + 1 \in 2 .. Len(queue) + 1 /\ i + 1 \in 1 .. Len(queue') /\ (i + 1) - 1 = i
        BY <1>3, <1>7
      <4>2. queue'[i + 1] = queue[(i + 1) - 1]
        BY <1>7, <3>1, <4>1
      <4>3. QED
        BY <4>1, <4>2
    <3>2. CASE k # "halt"
      BY <1>3, <1>7, <3>2
    <3>3. QED
      BY <3>1, <3>2
  <2>2. QED
    BY <2>1
<1>9. \E i \in 1 .. Len(queue') : queue'[i] = c
  BY <1>3, <1>7
<1>10. \A i \in 1 .. Len(queue') : queue'[i] = c \/ \E j \in 1 .. Len(queue) : queue'[i] = queue[j]
  BY <1>3, <1>7
<1>11. CallTypes'
  BY <1>1, <1>2, <1>3, <1>7 DEF CallInv, CallTypes
<1>12. ASSUME NEW e \in Callers PROVE CallSound(e)'
  <2>1. CallSound(e)
    BY DEF CallInv, CallsSound
  <2>2. CASE e = c
    BY <1>2, <1>6, <1>9, <2>1, <2>2 DEF CallSound, CallInv, CallTypes
  <2>3. CASE e # c
    BY <1>2, <1>5, <1>8, <2>1, <2>3 DEF CallSound
  <2>4. QED
    BY <2>2, <2>3
<1>13. CheckedOut'
  <2>1. ASSUME NEW e \in Callers, call'[e] = "checked", NEW i \in 1 .. Len(queue') PROVE queue'[i] # e
    <3>1. e # c /\ call[e] = "checked"
      BY <1>5, <1>6, <2>1
    <3>2. QED
      BY <1>10, <2>1, <3>1 DEF CallInv, CheckedOut
  <2>2. QED
    BY <2>1 DEF CheckedOut
<1>14. HaltsAhead'
  <2>1. ASSUME NEW a \in 1 .. Len(queue'), NEW b \in 1 .. Len(queue'), a < b,
               work'[queue'[a]] = "pending", work'[queue'[b]] = "pending", kind'[queue'[b]] = "halt"
        PROVE  kind'[queue'[a]] = "halt"
    <3>1. CASE k = "halt" /\ a = 1
      BY <1>6, <1>7, <3>1
    <3>2. CASE k = "halt" /\ a # 1
      <4>1. /\ a \in 2 .. Len(queue) + 1 /\ b \in 2 .. Len(queue) + 1
            /\ a - 1 \in 1 .. Len(queue) /\ b - 1 \in 1 .. Len(queue) /\ a - 1 < b - 1
        BY <1>3, <1>7, <2>1, <3>2
      <4>2. queue'[a] = queue[a - 1] /\ queue'[b] = queue[b - 1]
        BY <1>7, <3>2, <4>1
      <4>3. QED
        BY <1>4, <1>5, <2>1, <4>1, <4>2 DEF CallInv, HaltsAhead
    <3>3. CASE k # "halt"
      <4>1. b # Len(queue) + 1
        BY <1>6, <1>7, <2>1, <3>3
      <4>2. a \in 1 .. Len(queue) /\ b \in 1 .. Len(queue)
        BY <1>3, <1>7, <2>1, <4>1
      <4>3. queue'[a] = queue[a] /\ queue'[b] = queue[b]
        BY <1>7, <3>3, <4>2
      <4>4. QED
        BY <1>4, <1>5, <2>1, <4>2, <4>3 DEF CallInv, HaltsAhead
    <3>4. QED
      BY <3>1, <3>2, <3>3
  <2>2. QED
    BY <2>1 DEF HaltsAhead
<1>15. QED
  BY <1>11, <1>12, <1>13, <1>14 DEF CallInv, CallsSound

LEMMA CallsKept ==
  ASSUME HostInv, [Next]_vars
  PROVE  CallInv'
<1>1. CallInv
  BY DEF HostInv, CallInv
<1>2. None \notin Callers
  BY HostAssumption
<1>3. ASSUME Pick PROVE cur = None
  BY <1>3 DEF Pick, AtTop, HostInv, PlaceSound, Alone
<1>4. ASSUME Rebooted \/ Finish PROVE cur # None
  BY <1>4 DEF Rebooted, Finish, HostInv, PlaceSound, Serving
<1>5. QED
  BY <1>1, <1>2, <1>3, <1>4, StepShape, KeptKeeps, DroppedKeeps, ToldKeeps, PickKeeps, RebootedKeeps, FinishKeeps,
     CheckKeeps, EnqueueKeeps, ReturnKeeps, GiveUpKeeps

-----------------------------------------------------------------------------
(***************************************************************************)
(* The worker's place, the link and the boards.                            *)
(***************************************************************************)
LinkInv == PlaceSound /\ LinkTypes

\* An exchange that keeps the connection.
LEMMA ExchangeKeeps ==
  ASSUME LinkInv, Reply \/ Silent, cur' = cur, UNCHANGED <<bound, sought, last>>,
         seen' \in {"none", "idle", "busy"}, conn = "connected", pc # "givingUp",
         pc' \in Phases \ {"try", "givingUp"}, pc' \in Alone => cur = None, pc' \in Serving => cur # None
  PROVE  LinkInv'
<1>1. UNCHANGED <<conn, port>>
  BY DEF Reply, Silent
<1>2. PlaceSound'
  BY <1>1 DEF LinkInv, PlaceSound, Phases
<1>3. failures' \in Nat /\ mishaps' \in Nat /\ failures' <= mishaps' /\ mishaps' <= MaxMishaps
  BY HostAssumption DEF LinkInv, LinkTypes, Reply, Silent
<1>4. QED
  BY <1>1, <1>2, <1>3 DEF LinkInv, LinkTypes

\* An exchange that loses it.
LEMMA CutKeeps ==
  ASSUME LinkInv, Cut, cur' = cur, UNCHANGED <<bound, sought, last>>, pc # "givingUp", pc # "try"
  PROVE  LinkInv'
<1>1. port' = None /\ failures' = 0 /\ \/ conn' = "reconnecting" /\ seen' = "none" /\ pc' = Resume
                                       \/ pc' = "givingUp" /\ conn' = conn /\ seen' = seen
  BY DEF Cut, Lose, Drop, snapVars
<1>2. PlaceSound'
  BY <1>1 DEF LinkInv, PlaceSound, Phases, Resume, Alone, Serving, Linked
<1>3. mishaps' \in Nat /\ mishaps' <= MaxMishaps
  BY HostAssumption DEF LinkInv, LinkTypes, Cut
<1>4. QED
  BY <1>1, <1>2, <1>3 DEF LinkInv, LinkTypes

LEMMA PollKeeps ==
  ASSUME LinkInv, NEW next \in Serving, PollOr(next), cur' = cur, UNCHANGED <<bound, sought, last>>,
         conn = "connected", pc \in Serving
  PROVE  LinkInv'
<1>1. cur # None /\ pc # "givingUp" /\ pc # "try"
  BY DEF LinkInv, PlaceSound, Serving
<1>2. CASE Cut
  BY <1>1, <1>2, CutKeeps
<1>3. CASE (Reply \/ Silent) /\ pc' = next /\ seen' \in {seen, Status(port)}
  <2>1. seen' \in {"none", "idle", "busy"}
    BY <1>3 DEF LinkInv, LinkTypes, Status
  <2>2. pc' \in Phases \ {"try", "givingUp"} /\ pc' \notin Alone /\ pc' \in Serving
    BY <1>3 DEF Phases, Serving, Alone
  <2>3. QED
    BY <1>1, <1>3, <2>1, <2>2, ExchangeKeeps
<1>4. QED
  BY <1>2, <1>3 DEF PollOr

\* A result keeps the worker serving.
LEMMA ConcludePlace ==
  ASSUME NEW r, Conclude(r)
  PROVE  pc' \in {"after", "finish"}
BY DEF Conclude

LEMMA WorkerLink ==
  ASSUME HostInv, Worker
  PROVE  LinkInv'
<1>1. LinkInv
  BY DEF HostInv, LinkInv
<1>2. {"after", "finish", "ask"} \subseteq Phases \ {"try", "givingUp"} /\ {"after", "finish", "ask"} \cap Alone = {}
      /\ "top" \in Phases \ {"try", "givingUp"} /\ "top" \notin Serving
      /\ "trip" \in Phases \ {"try", "givingUp"} /\ "trip" \notin Serving
  BY DEF Phases, Alone, Serving
<1>3. CASE Quit \/ Close
  BY <1>1, <1>3 DEF Quit, Close, AtTop, Drop, goalVars, runVars, LinkInv, PlaceSound, LinkTypes, Phases, Alone, Serving, Linked
<1>4. CASE Attempt \/ NotFound
  <2>1. PlaceSound'
    BY <1>1, <1>4 DEF Attempt, NotFound, AtTop, MayTry, snapVars, LinkInv, PlaceSound, Phases, Alone, Serving, Linked
  <2>2. LinkTypes'
    BY <1>1, <1>4, HostAssumption DEF Attempt, NotFound, snapVars, goalVars, LinkInv, LinkTypes
  <2>3. QED
    BY <2>1, <2>2 DEF LinkInv
<1>5. ASSUME NEW b \in Boards, Found(b) PROVE LinkInv'
  <2>1. b # None
    BY HostAssumption
  <2>2. QED
    BY <1>1, <1>5, <2>1 DEF Found, LinkInv, PlaceSound, LinkTypes, Phases, Alone, Serving, Linked, Status
<1>6. CASE GivingUp
  BY <1>1, <1>6 DEF GivingUp, Resume, LinkInv, PlaceSound, LinkTypes, Phases, Alone, Serving, Linked
<1>7. CASE Pick
  <2>1. cur' # None /\ pc' = "run" /\ conn = "connected" /\ pc = "top"
    <3>1. DOMAIN queue = 1 .. Len(queue) /\ \A i \in 1 .. Len(queue) : queue[i] \in Callers
      BY DEF HostInv, CallTypes
    <3>2. cur' \in Callers
      BY <1>7, <3>1 DEF Pick
    <3>3. QED
      BY <1>7, <3>2, HostAssumption DEF Pick, AtTop
  <2>2. UNCHANGED <<conn, seen, port, failures, mishaps, bound, sought, last>>
    BY <1>7 DEF Pick, goalVars, snapVars
  <2>3. QED
    BY <1>1, <2>1, <2>2 DEF LinkInv, PlaceSound, LinkTypes, Phases, Alone, Serving, Linked
<1>8. CASE Refresh
  <2>1. pc = "refresh" /\ conn = "connected" /\ cur = None /\ cur' = cur /\ UNCHANGED <<bound, sought, last>>
    BY <1>1, <1>8 DEF Refresh, LinkInv, PlaceSound, Alone, Linked, goalVars
  <2>2. CASE Cut
    BY <1>1, <2>1, <2>2, CutKeeps
  <2>3. CASE (Reply \/ Silent) /\ pc' = "top" /\ seen' = seen
    BY <1>1, <1>2, <2>1, <2>3, ExchangeKeeps DEF LinkInv, LinkTypes
  <2>4. QED
    BY <1>8, <2>2, <2>3 DEF Refresh
<1>9. CASE Obeyed \/ Refused \/ Unanswered
  <2>1. pc \in {"run", "reset"} /\ cur' = cur /\ UNCHANGED <<bound, sought, last, seen>>
    BY <1>9 DEF Obeyed, Refused, Unanswered, Sending, goalVars
  <2>2. conn = "connected" /\ cur # None
    BY <1>1, <2>1 DEF LinkInv, PlaceSound, Linked, Serving
  <2>3. pc' \in {"after", "finish", "ask"} /\ (Reply \/ Silent)
    BY <1>9, ConcludePlace DEF Obeyed, Refused, Unanswered, AfterSilence
  <2>4. QED
    BY <1>1, <1>2, <2>1, <2>2, <2>3, ExchangeKeeps DEF LinkInv, LinkTypes
<1>10. CASE CutOff
  BY <1>1, <1>10, CutKeeps DEF CutOff, Sending, goalVars
<1>11. CASE Ask
  <2>1. pc = "ask" /\ cur' = cur /\ UNCHANGED <<bound, sought, last>>
    BY <1>11 DEF Ask, goalVars
  <2>2. conn = "connected" /\ cur # None
    BY <1>1, <2>1 DEF LinkInv, PlaceSound, Linked, Serving
  <2>3. CASE Cut
    BY <1>1, <2>1, <2>3, CutKeeps
  <2>4. CASE (Reply \/ Silent) /\ pc' \in {"after", "finish"} /\ seen' = seen
    BY <1>1, <1>2, <2>1, <2>2, <2>4, ExchangeKeeps DEF LinkInv, LinkTypes
  <2>5. QED
    BY <1>11, <2>3, <2>4, ConcludePlace DEF Ask
<1>12. CASE ResetCheck \/ After
  <2>1. pc \in {"run", "after"} /\ cur' = cur /\ UNCHANGED <<bound, sought, last>> /\ (PollOr("reset") \/ PollOr("finish"))
    BY <1>12 DEF ResetCheck, After, goalVars
  <2>2. conn = "connected" /\ pc \in Serving /\ "reset" \in Serving /\ "finish" \in Serving
    BY <1>1, <2>1 DEF LinkInv, PlaceSound, Linked, Serving
  <2>3. QED
    BY <1>1, <2>1, <2>2, PollKeeps
<1>13. CASE ResetRefused \/ Rebooted \/ InDfu
  <2>1. pc = "reset" /\ pc' = "finish" /\ cur' = cur /\ UNCHANGED <<bound, sought, mishaps>> /\ last' \in {last, None}
    BY <1>13 DEF ResetRefused, Rebooted, InDfu, Conclude, goalVars
  <2>2. cur # None /\ conn = "connected"
    BY <1>1, <2>1 DEF LinkInv, PlaceSound, Serving, Linked
  <2>3. \/ UNCHANGED <<conn, seen, port, failures>>
        \/ port' = None /\ conn' \in {"reconnecting", "disconnected"} /\ seen' = "none" /\ failures' = 0
    BY <1>13 DEF ResetRefused, Rebooted, InDfu, snapVars
  <2>4. QED
    BY <1>1, <2>1, <2>2, <2>3 DEF LinkInv, PlaceSound, LinkTypes, Phases, Alone, Serving, Linked
<1>14. CASE Finish
  BY <1>1, <1>14 DEF Finish, goalVars, snapVars, LinkInv, PlaceSound, LinkTypes, Phases, Alone, Serving, Linked
<1>15. CASE Poll
  <2>1. pc = "top" /\ conn = "connected" /\ cur = None /\ cur' = cur /\ UNCHANGED <<bound, sought, last>>
    BY <1>1, <1>15 DEF Poll, AtTop, LinkInv, PlaceSound, Alone, goalVars
  <2>2. CASE Cut
    BY <1>1, <2>1, <2>2, CutKeeps
  <2>3. CASE (Reply \/ Silent) /\ pc' \in {"top", "trip"} /\ seen' \in {seen, Status(port)}
    <3>1. seen' \in {"none", "idle", "busy"}
      BY <1>1, <2>3 DEF LinkInv, LinkTypes, Status
    <3>2. QED
      BY <1>1, <1>2, <2>1, <2>3, <3>1, ExchangeKeeps
  <2>4. QED
    BY <1>15, <2>2, <2>3 DEF Poll, WatchMove
<1>16. CASE Trip
  <2>1. pc = "trip" /\ conn = "connected" /\ cur = None /\ cur' = cur /\ UNCHANGED <<bound, sought, last>>
    BY <1>1, <1>16 DEF Trip, LinkInv, PlaceSound, Alone, Linked, goalVars
  <2>2. CASE Cut
    BY <1>1, <2>1, <2>2, CutKeeps
  <2>3. CASE (Reply \/ Silent) /\ pc' = "top" /\ seen' = seen
    BY <1>1, <1>2, <2>1, <2>3, ExchangeKeeps DEF LinkInv, LinkTypes
  <2>4. QED
    BY <1>16, <2>2, <2>3 DEF Trip
<1>17. QED
  BY <1>3, <1>4, <1>5, <1>6, <1>7, <1>8, <1>9, <1>10, <1>11, <1>12, <1>13, <1>14, <1>15, <1>16 DEF Worker

LEMMA LinkKept ==
  ASSUME HostInv, [Next]_vars
  PROVE  LinkInv'
<1>1. LinkInv
  BY DEF HostInv, LinkInv
<1>2. CASE Worker
  BY <1>2, WorkerLink
<1>3. CASE Client
  <2>1. UNCHANGED <<pc, cur, sought, conn, seen, port, failures>>
    BY <1>3 DEF Client, Check, Enqueue, Return, GiveUp, Connect, Disconnect, Dispose, callVars, runVars, snapVars
  <2>2. bound' \in {bound, Preferred} /\ last' \in {last, None} /\ (mishaps' = mishaps \/ (mishaps = 0 /\ mishaps' = MaxMishaps))
    <3>1. CASE \E c \in Callers : Check(c) \/ Enqueue(c) \/ Return(c) \/ GiveUp(c)
      BY <3>1 DEF Check, Enqueue, Return, GiveUp, goalVars
    <3>2. CASE Connect
      BY <3>2 DEF Connect
    <3>3. CASE Disconnect \/ Dispose
      BY <3>3 DEF Disconnect, Dispose
    <3>4. QED
      BY <1>3, <3>1, <3>2, <3>3 DEF Client
  <2>3. PlaceSound'
    BY <1>1, <2>1 DEF LinkInv, PlaceSound
  <2>4. LinkTypes'
    BY <1>1, <2>1, <2>2, HostAssumption DEF LinkInv, LinkTypes
  <2>5. QED
    BY <2>3, <2>4 DEF LinkInv
<1>4. CASE Board
  <2>1. UNCHANGED <<pc, cur, sought, conn, seen, port, failures, bound, last>>
    BY <1>4 DEF Board, MoveDone, Plug, Unplug, goalVars, runVars, snapVars
  <2>2. mishaps' = mishaps \/ (mishaps < MaxMishaps /\ mishaps' = mishaps + 1)
    BY <1>4 DEF Board, MoveDone, Plug, Unplug
  <2>3. PlaceSound'
    BY <1>1, <2>1 DEF LinkInv, PlaceSound
  <2>4. LinkTypes'
    BY <1>1, <2>1, <2>2, HostAssumption DEF LinkInv, LinkTypes
  <2>5. QED
    BY <2>3, <2>4 DEF LinkInv
<1>5. CASE UNCHANGED vars
  BY <1>1, <1>5 DEF vars, goalVars, runVars, snapVars, LinkInv, PlaceSound, LinkTypes
<1>6. QED
  BY <1>2, <1>3, <1>4, <1>5 DEF Next

\* The boards change by a command that runs, by the halt of the watchdog, at the end of a move and without power.
LEMMA BoardsKept ==
  ASSUME HostInv, [Next]_vars
  PROVE  BoardTypes'
<1>1. BoardTypes /\ cur \in Callers \cup {None}
  BY DEF HostInv, CallTypes
<1>2. ASSUME Carry PROVE BoardTypes'
  BY <1>1, <1>2 DEF Carry, BoardTypes
<1>3. ASSUME UNCHANGED boardVars PROVE BoardTypes'
  BY <1>1, <1>3 DEF boardVars, BoardTypes
<1>4. ASSUME at' = at, moving' = moving \/ moving' = [moving EXCEPT ![port] = None] PROVE BoardTypes'
  BY <1>1, <1>4 DEF BoardTypes
<1>5. CASE Worker
  <2>1. CASE \/ Quit \/ Close \/ Attempt \/ (\E b \in Boards : Found(b)) \/ NotFound \/ Refresh
             \/ Pick \/ Refused \/ Ask \/ ResetCheck \/ ResetRefused \/ After \/ Finish \/ Poll \/ GivingUp
    BY <2>1, <1>3 DEF Quit, Close, Attempt, Found, NotFound, Refresh, Pick, Refused, Ask, ResetCheck, ResetRefused,
       After, Finish, Poll, GivingUp
  <2>2. CASE Obeyed \/ Unanswered \/ CutOff \/ Rebooted \/ InDfu
    BY <2>2, <1>2, <1>3 DEF Obeyed, Unanswered, CutOff, Rebooted, InDfu
  <2>3. CASE Trip
    BY <2>3, <1>4 DEF Trip
  <2>4. QED
    BY <1>5, <2>1, <2>2, <2>3 DEF Worker
<1>6. CASE Client
  BY <1>3, <1>6 DEF Client, Check, Enqueue, Return, GiveUp, Connect, Disconnect, Dispose
<1>7. CASE Board
  BY <1>1, <1>7 DEF Board, MoveDone, Plug, Unplug, BoardTypes
<1>8. CASE UNCHANGED vars
  BY <1>3, <1>8 DEF vars
<1>9. QED
  BY <1>5, <1>6, <1>7, <1>8 DEF Next

\* A step of another does not touch the Work that runs, and its board comes no nearer to its target by itself.
LEMMA OthersKeepTarget ==
  ASSUME HostInv, Client \/ Board \/ UNCHANGED vars
  PROVE  TargetTrue'
<1>1. UNCHANGED <<pc, cur, port>>
  <2>1. CASE Client
    BY <2>1 DEF Client, Check, Enqueue, Return, GiveUp, Connect, Disconnect, Dispose, runVars
  <2>2. CASE Board
    BY <2>2 DEF Board, MoveDone, Plug, Unplug, runVars
  <2>3. QED
    BY <2>1, <2>2 DEF vars, runVars
<1>2. CASE pc \notin {"run", "ask", "reset"}
  BY <1>1, <1>2 DEF TargetTrue
<1>3. CASE pc \in {"run", "ask", "reset"}
  <2>1. cur \in Callers /\ cur # None /\ port # None /\ port \in Boards
    BY <1>3 DEF HostInv, PlaceSound, LinkTypes, CallTypes, Serving, Linked
  <2>2. work[cur] = "running" /\ call[cur] = "waiting"
    BY <2>1 DEF HostInv, CallsSound, CallSound
  <2>3. kind'[cur] = kind[cur] /\ did'[cur] = did[cur]
    <3>1. CASE \E c \in Callers : Check(c) \/ Enqueue(c) \/ Return(c) \/ GiveUp(c)
      <4>1. PICK c \in Callers : Check(c) \/ Enqueue(c) \/ Return(c) \/ GiveUp(c)
        BY <3>1
      <4>2. /\ kind' = kind \/ \E k : kind' = [kind EXCEPT ![c] = k]
            /\ did' = did \/ did' = [did EXCEPT ![c] = FALSE]
        BY <4>1 DEF Check, Enqueue, Return, GiveUp, Cancel
      <4>3. CASE c = cur
        BY <2>2, <4>1, <4>3 DEF Check, Enqueue, Return, GiveUp, Cancel
      <4>4. CASE c # cur
        BY <2>1, <4>2, <4>4 DEF HostInv, CallTypes
      <4>5. QED
        BY <4>3, <4>4
    <3>2. CASE Connect \/ Disconnect \/ Dispose
      BY <3>2 DEF Connect, Disconnect, Dispose, callVars
    <3>3. CASE Board \/ UNCHANGED vars
      BY <3>3 DEF Board, MoveDone, Plug, Unplug, callVars, vars
    <3>4. QED
      BY <3>1, <3>2, <3>3 DEF Client
  <2>4. cur \in {moving'[port], at'[port]} => cur \in {moving[port], at[port]}
    <3>1. CASE Client \/ UNCHANGED vars
      BY <3>1 DEF Client, Check, Enqueue, Return, GiveUp, Connect, Disconnect, Dispose, boardVars, vars
    <3>2. CASE Board
      <4>1. PICK b \in Boards : MoveDone(b) \/ Plug(b) \/ Unplug(b)
        BY <3>2 DEF Board
      <4>2. CASE b = port
        BY <2>1, <4>1, <4>2 DEF MoveDone, Plug, Unplug, HostInv, BoardTypes
      <4>3. CASE b # port
        BY <2>1, <4>1, <4>3 DEF MoveDone, Plug, Unplug, HostInv, BoardTypes
      <4>4. QED
        BY <4>2, <4>3
    <3>3. QED
      BY <3>1, <3>2
  <2>5. QED
    BY <1>1, <2>3, <2>4 DEF HostInv, TargetTrue
<1>4. QED
  BY <1>2, <1>3

LEMMA WorkerKeepsTarget ==
  ASSUME HostInv, Worker
  PROVE  TargetTrue'
<1>1. CASE pc' \notin {"run", "ask", "reset"}
  BY <1>1 DEF TargetTrue
<1>2. CASE Pick
  <2>1. PICK i \in DOMAIN queue : cur' = queue[i] /\ did' = [did EXCEPT ![queue[i]] = kind[queue[i]] = "move" /\ queue[i] \in {moving[port], at[port]}]
    BY <1>2 DEF Pick
  <2>2. queue[i] \in Callers
    BY DEF HostInv, CallTypes
  <2>3. did'[cur'] = (kind[cur'] = "move" /\ cur' \in {moving[port], at[port]})
    BY <2>1, <2>2 DEF HostInv, CallTypes
  <2>4. UNCHANGED <<kind, moving, at, port>> /\ pc' = "run"
    BY <1>2 DEF Pick, boardVars
  <2>5. QED
    BY <2>3, <2>4 DEF TargetTrue
<1>3. CASE Unanswered
  <2>1. UNCHANGED <<cur, kind, port>>
    BY <1>3 DEF Unanswered, Silent
  <2>2. pc' = "finish" \/ (pc' = "ask" /\ kind[cur] = "move")
    BY <1>3 DEF Unanswered, AfterSilence, Conclude
  <2>3. cur # None /\ (kind[cur] = "move" => pc = "run")
    BY <1>3 DEF Unanswered, Sending, HostInv, PlaceSound, TargetTrue, Serving, Resets
  <2>4. CASE Carry
    <3>1. did'[cur]
      BY <2>3, <2>4, CarryDoes
    <3>2. QED
      BY <2>1, <2>2, <3>1 DEF TargetTrue
  <2>5. CASE UNCHANGED <<boardVars, did>>
    BY <2>1, <2>2, <2>3, <2>5 DEF boardVars, HostInv, TargetTrue
  <2>6. QED
    BY <1>3, <2>4, <2>5 DEF Unanswered
<1>4. CASE ResetCheck
  <2>1. CASE Cut
    <3>1. pc' \in {"top", "finish", "givingUp"}
      BY <2>1 DEF Cut, Lose, Resume
    <3>2. QED
      BY <3>1 DEF TargetTrue
  <2>2. CASE pc' = "reset" /\ (Reply \/ Silent)
    <3>1. UNCHANGED <<kind, cur>> /\ kind[cur] \in Resets
      BY <1>4, <2>2 DEF ResetCheck, Reply, Silent
    <3>2. QED
      BY <2>2, <3>1 DEF TargetTrue
  <2>3. QED
    BY <1>4, <2>1, <2>2 DEF ResetCheck, PollOr
<1>5. ASSUME Worker, ~Pick, ~Unanswered, ~ResetCheck PROVE pc' \notin {"run", "ask", "reset"}
  <2>1. CASE Quit \/ Close \/ Attempt \/ (\E b \in Boards : Found(b)) \/ NotFound
    BY <2>1 DEF Quit, Close, Attempt, Found, NotFound, AtTop, runVars
  <2>2. CASE Refresh \/ CutOff \/ Ask \/ After \/ Poll \/ Trip \/ GivingUp
    BY <2>2 DEF Refresh, CutOff, Ask, After, Poll, Trip, GivingUp, PollOr, Cut, Lose, Resume, Conclude, WatchMove
  <2>3. CASE Obeyed \/ Refused \/ ResetRefused \/ Rebooted \/ InDfu \/ Finish
    BY <2>3 DEF Obeyed, Refused, ResetRefused, Rebooted, InDfu, Finish, Conclude
  <2>4. QED
    BY <1>5, <2>1, <2>2, <2>3 DEF Worker
<1>6. QED
  BY <1>1, <1>2, <1>3, <1>4, <1>5

LEMMA BoundKept ==
  ASSUME HostInv, [Next]_vars
  PROVE  BoundToLast'
<1>1. BoundToLast
  BY DEF HostInv
<1>2. CASE Connect
  BY <1>1, <1>2 DEF Connect, HostInv, PlaceSound, BoundToLast, runVars
<1>3. CASE Disconnect \/ Dispose \/ InDfu
  BY <1>3 DEF Disconnect, Dispose, InDfu, BoundToLast
<1>4. CASE Attempt
  BY <1>1, <1>4 DEF Attempt, BoundToLast, goalVars
<1>5. CASE \E b \in Boards : Found(b)
  BY <1>5 DEF Found, BoundToLast
<1>6. CASE \/ UNCHANGED vars \/ Board \/ \E c \in Callers : Check(c) \/ Enqueue(c) \/ Return(c) \/ GiveUp(c)
  <2>1. UNCHANGED <<bound, last, pc, sought>>
    BY <1>6 DEF vars, Board, MoveDone, Plug, Unplug, Check, Enqueue, Return, GiveUp, runVars, goalVars
  <2>2. QED
    BY <1>1, <2>1 DEF BoundToLast
<1>7. CASE Worker /\ ~InDfu /\ ~Attempt /\ ~(\E b \in Boards : Found(b))
  <2>1. UNCHANGED <<bound, last>>
    BY <1>7 DEF Worker, Quit, Close, NotFound, Refresh, Pick, Obeyed, Refused, Unanswered, CutOff, Ask, ResetCheck, ResetRefused,
       Rebooted, After, Finish, Poll, Trip, GivingUp, goalVars
  <2>2. pc' # "try"
    <3>1. CASE Quit \/ Close \/ NotFound \/ Pick
      BY <3>1 DEF Quit, Close, NotFound, Pick, AtTop, runVars
    <3>2. CASE Refresh \/ CutOff \/ Ask \/ After \/ Poll \/ Trip \/ GivingUp \/ ResetCheck
      BY <3>2 DEF Refresh, CutOff, Ask, After, Poll, Trip, GivingUp, ResetCheck, PollOr, Cut, Lose, Resume, Conclude, WatchMove
    <3>3. CASE Obeyed \/ Refused \/ Unanswered \/ ResetRefused \/ Rebooted \/ Finish
      BY <3>3 DEF Obeyed, Refused, Unanswered, AfterSilence, ResetRefused, Rebooted, Finish, Conclude
    <3>4. QED
      BY <1>7, <3>1, <3>2, <3>3 DEF Worker
  <2>3. QED
    BY <1>1, <2>1, <2>2 DEF BoundToLast
<1>8. QED
  BY <1>2, <1>3, <1>4, <1>5, <1>6, <1>7 DEF Next, Client

-----------------------------------------------------------------------------
(***************************************************************************)
(* The invariant, and what follows from it.                                *)
(***************************************************************************)
LEMMA HostInit == Init => HostInv
<1> SUFFICES ASSUME Init PROVE HostInv
  OBVIOUS
<1>1. CallTypes /\ Len(queue) = 0
  BY DEF Init, CallTypes
<1>2. CallsSound
  BY HostAssumption DEF Init, CallsSound, CallSound
<1>3. CheckedOut /\ HaltsAhead
  BY <1>1 DEF CheckedOut, HaltsAhead
<1>4. PlaceSound /\ TargetTrue /\ BoundToLast
  BY DEF Init, PlaceSound, TargetTrue, BoundToLast, Phases, Alone, Serving, Linked
<1>5. LinkTypes /\ BoardTypes
  BY HostAssumption DEF Init, LinkTypes, BoardTypes
<1>6. QED
  BY <1>1, <1>2, <1>3, <1>4, <1>5 DEF HostInv

LEMMA HostNext == HostInv /\ [Next]_vars => HostInv'
<1> SUFFICES ASSUME HostInv, [Next]_vars PROVE HostInv'
  OBVIOUS
<1>1. CallInv' /\ LinkInv' /\ BoardTypes' /\ BoundToLast'
  BY CallsKept, LinkKept, BoardsKept, BoundKept
<1>2. TargetTrue'
  BY OthersKeepTarget, WorkerKeepsTarget DEF Next
<1>3. QED
  BY <1>1, <1>2 DEF HostInv, CallInv, LinkInv

\* The inductive invariant holds always.
THEOREM HostAlways == Spec => []HostInv
BY HostInit, HostNext, PTL DEF Spec

\* The worker's place fits the port, the snapshot and the Work it runs (Step(), ServiceConnected()).
THEOREM HostTypesCorrect == Spec => []TypeOK
<1>1. HostInv => TypeOK
  <2> SUFFICES ASSUME HostInv PROVE TypeOK
    OBVIOUS
  <2>1. failures \in 0 .. MaxMishaps
    BY HostAssumption DEF HostInv, LinkTypes
  <2>2. cur \in Callers \cup {None} /\ \A c \in Callers : work[c] = "running" <=> cur = c
    BY DEF HostInv, CallTypes, CallsSound, CallSound
  <2>3. /\ pc \in Phases
        /\ pc \in {"refresh", "trip", "run", "reset", "ask", "after"} => conn = "connected" /\ port # None
        /\ pc \in {"top", "gone"} => (port # None <=> conn = "connected")
    BY DEF HostInv, PlaceSound, Linked
  <2>4. QED
    BY <2>1, <2>2, <2>3 DEF HostInv, LinkTypes, TypeOK
<1>2. QED
  BY <1>1, HostAlways, PTL

\* "ok" is true: the board got the command, or was already making that move (Send(), DoFocuserMove()).
THEOREM OkIsTrueAlways == Spec => []OkIsTrue
<1>1. HostInv => OkIsTrue
  BY DEF HostInv, CallsSound, CallSound, OkIsTrue
<1>2. QED
  BY <1>1, HostAlways, PTL

\* Every waiting caller's Work is queued, runs or has its result (Submit(), FailAllQueued()).
THEOREM NobodyForgottenEver == Spec => []NobodyForgotten
<1>1. HostInv => NobodyForgotten
  <2> SUFFICES ASSUME HostInv, NEW c \in Callers, call[c] = "waiting"
               PROVE  \/ work[c] = "pending" /\ \E i \in DOMAIN queue : queue[i] = c
                      \/ work[c] = "running"
                      \/ work[c] = "done" /\ result[c] # "none"
    BY DEF NobodyForgotten
  <2>1. DOMAIN queue = 1 .. Len(queue)
    BY DEF HostInv, CallTypes
  <2>2. QED
    BY <2>1 DEF HostInv, CallsSound, CallSound
<1>2. QED
  BY <1>1, HostAlways, PTL

\* The first queued Work that is not cancelled runs next.
LEMMA PickedFirst ==
  ASSUME HostInv, Pick
  PROVE  \E i \in 1 .. Len(queue) :
           /\ work[queue[i]] = "pending" /\ \A j \in 1 .. i - 1 : work[queue[j]] # "pending"
           /\ queue[i] \in Callers
           /\ \A c \in Callers : c # queue[i] => work'[c] = work[c] /\ did'[c] = did[c]
<1>1. DOMAIN queue = 1 .. Len(queue) /\ \A i \in 1 .. Len(queue) : queue[i] \in Callers
  BY DEF HostInv, CallTypes
<1>2. PICK i \in 1 .. Len(queue) :
        /\ work[queue[i]] = "pending" /\ \A j \in 1 .. i - 1 : work[queue[j]] # "pending"
        /\ work' = [work EXCEPT ![queue[i]] = "running"]
        /\ \E r : did' = [did EXCEPT ![queue[i]] = r]
  BY <1>1 DEF Pick
<1>3. \A c \in Callers : c # queue[i] => work'[c] = work[c] /\ did'[c] = did[c]
  BY <1>2 DEF HostInv, CallTypes
<1>4. QED
  BY <1>1, <1>2, <1>3

\* Only a command whose caller still waits reaches a board: not one that was cancelled, failed or
\* answered before (Submit(), Execute()).
THEOREM NeverLateEver == Spec => NeverLate
<1> DEFINE InTime == \A c \in Callers : did'[c] /\ ~did[c] => call[c] = "waiting" /\ work[c] # "done"
<1>1. HostInv /\ [Next]_vars => [InTime]_vars
  <2> SUFFICES ASSUME HostInv, [Next]_vars, NEW c \in Callers, did'[c], ~did[c]
               PROVE  call[c] = "waiting" /\ work[c] # "done"
    OBVIOUS
  <2>1. work[c] \in {"pending", "running"} => call[c] = "waiting" /\ work[c] # "done"
    BY DEF HostInv, CallsSound, CallSound
  <2>2. did \in [Callers -> BOOLEAN] /\ (c = cur => work[c] = "running")
    BY DEF HostInv, CallTypes, CallsSound, CallSound
  <2>3. CASE MayHaveDone
    BY <2>1, <2>2, <2>3 DEF MayHaveDone
  <2>4. CASE Pick
    BY <2>1, <2>4, PickedFirst
  <2>5. CASE Rebooted
    BY <2>1, <2>2, <2>5 DEF Rebooted, Carry
  <2>6. CASE did' = did
    BY <2>6
  <2>7. ASSUME NEW e \in Callers, Check(e) \/ Enqueue(e) \/ Return(e) \/ GiveUp(e) PROVE FALSE
    BY <2>2, <2>7 DEF Check, Enqueue, Return, GiveUp
  <2>8. QED
    BY <2>3, <2>4, <2>5, <2>6, <2>7, StepShape DEF Kept, Dropped, Told, Finish
<1>2. QED
  BY <1>1, HostAlways, PTL DEF Spec, NeverLate

\* No other command starts while a halt waits (Submit() with urgent, ServiceConnected()).
THEOREM HaltFirstAlways == Spec => HaltFirst
<1> DEFINE HaltsGo == \A c \in Callers : work[c] = "pending" /\ work'[c] = "running" /\ kind[c] # "halt" =>
                        \A d \in Callers : kind[d] = "halt" => work[d] # "pending"
<1>1. HostInv /\ [Next]_vars => [HaltsGo]_vars
  <2> SUFFICES ASSUME HostInv, [Next]_vars,
                      NEW c \in Callers, work[c] = "pending", work'[c] = "running", kind[c] # "halt",
                      NEW d \in Callers, kind[d] = "halt", work[d] = "pending"
               PROVE  FALSE
    OBVIOUS
  <2>1. work \in [Callers -> {"none", "pending", "running", "done", "abandoned"}] /\ (cur # None => c # cur)
    BY DEF HostInv, CallTypes, CallsSound, CallSound
  <2>2. CASE Pick
    <3>1. PICK i \in 1 .. Len(queue) :
            /\ work[queue[i]] = "pending" /\ \A j \in 1 .. i - 1 : work[queue[j]] # "pending"
            /\ \A e \in Callers : e # queue[i] => work'[e] = work[e]
      BY <2>2, PickedFirst
    <3>2. queue[i] = c
      BY <3>1
    <3>3. PICK j \in 1 .. Len(queue) : queue[j] = d
      BY DEF HostInv, CallsSound, CallSound
    <3>4. Len(queue) \in Nat
      BY DEF HostInv, CallTypes
    <3>5. i < j
      BY <3>1, <3>2, <3>3, <3>4
    <3>6. QED
      BY <3>1, <3>2, <3>3, <3>5 DEF HostInv, HaltsAhead
  <2>3. CASE Kept \/ Told \/ Dropped \/ Rebooted
    BY <2>3 DEF Kept, Told, Dropped, Rebooted
  <2>4. CASE Finish
    BY <2>1, <2>4 DEF Finish, HostInv, PlaceSound, Serving
  <2>5. CASE \E e \in Callers : Check(e) \/ Enqueue(e) \/ Return(e) \/ GiveUp(e)
    BY <2>1, <2>5 DEF Check, Enqueue, Return, GiveUp, Cancel
  <2>6. QED
    BY <2>2, <2>3, <2>4, <2>5, StepShape
<1>2. QED
  BY <1>1, HostAlways, PTL DEF Spec, HaltFirst

\* Only TryConnect() opens a port, and it opens that of the board it is bound to (BoardController.cs:153).
THEOREM SameBoardAlways == Spec => SameBoard
<1> DEFINE Same == port' # None /\ port' # port => last \in {None, port'}
<1>1. HostInv /\ [Next]_vars => [Same]_vars
  <2> SUFFICES ASSUME HostInv, [Next]_vars, port' # None, port' # port, last # None
               PROVE  last = port'
    OBVIOUS
  <2>1. CASE \E b \in Boards : Found(b)
    BY <2>1 DEF Found, Fits, HostInv, BoundToLast
  <2>2. CASE Client \/ Board \/ UNCHANGED vars
    <3>1. port' = port
      BY <2>2 DEF Client, Check, Enqueue, Return, GiveUp, Connect, Disconnect, Dispose, Board, MoveDone, Plug, Unplug, vars
    <3>2. QED
      BY <3>1
  <2>3. CASE Worker /\ ~(\E b \in Boards : Found(b))
    <3>1. CASE Quit \/ Close \/ Attempt \/ NotFound \/ Pick \/ GivingUp \/ ResetRefused \/ Rebooted \/ InDfu \/ Finish
      BY <3>1 DEF Quit, Close, Attempt, NotFound, Pick, GivingUp, ResetRefused, Rebooted, InDfu, Finish, Drop
    <3>2. CASE Reply \/ Silent \/ Cut
      BY <3>2 DEF Reply, Silent, Cut, Lose, Drop
    <3>3. CASE Refresh \/ Obeyed \/ Refused \/ Unanswered \/ CutOff \/ Ask \/ ResetCheck \/ After \/ Poll \/ Trip
      BY <3>2, <3>3 DEF Refresh, Obeyed, Refused, Unanswered, CutOff, Ask, ResetCheck, After, Poll, Trip, PollOr
    <3>4. QED
      BY <2>3, <3>1, <3>3 DEF Worker
  <2>4. QED
    BY <2>1, <2>2, <2>3 DEF Next
<1>2. QED
  BY <1>1, HostAlways, PTL DEF Spec, SameBoard
=============================================================================
