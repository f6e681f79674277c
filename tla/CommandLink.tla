----------------------------- MODULE CommandLink -----------------------------
(***************************************************************************)
(* The serial link between the host and the board: the board's framing     *)
(* loop and identify gate (fw/src/protocol.cpp) and the host's handshake   *)
(* and exchanges (Transport, DeviceFinder.Identify(), TryConnect() and     *)
(* Send() of AstroUniBoard.Core).                                          *)
(*                                                                         *)
(* The driver has the port, or a stranger, which sends what it likes, or   *)
(* nobody; a program may end at any moment, in the middle of a command,    *)
(* too.  Opening the port sets a flag in the USB interrupt that the board  *)
(* sees at the start of its next pass over the bytes that have come.       *)
(* Bytes and replies keep their order and take any time, so a reply may    *)
(* come after its timeout, or to the next program.                         *)
(*                                                                         *)
(* A command is two tokens, its text and the '#', because that is where a  *)
(* write can be cut; commands that act are "act", polls "status".  A token *)
(* or reply belongs to the command now under way, to one before it, or to  *)
(* another program (or an earlier session of the same).                    *)
(***************************************************************************)
EXTENDS Naturals, Sequences, FiniteSets

CONSTANTS
  MaxFailures,  \* BoardOptions.MaxConsecutiveFailures
  MaxLine       \* bound of the model: tokens and replies under way

ASSUME LinkAssumption == MaxFailures \in Nat \ {0} /\ MaxLine \in Nat

VARIABLES
  usbPortOpened, identified,
  pass,     \* the board is inside Protocol::process()
  buf,      \* what it has of a command, or None (not inCommand)
  toBoard,  \* tokens on their way to the board
  toHost,   \* replies on their way to the host
  prog,     \* who has the port
  pc,       \* the driver: "ping", "identify", "status", "serve", or "again" and "repeat" after ERR,16
  step,     \* and where it is in Execute(): "send", "tail" (before the '#') or "wait"
  cmd,      \* the command of "serve"
  tries, failures,
  dirty,    \* history: a command of this session was not answered in time, or several were under way at its start
  unlocker, \* history: whose :32 unlocked the board: "mine", or "stale", unread when the port was opened
  overlap,  \* history: the pass that runs began before the port was opened
  breach,   \* history: the board obeyed a command not wholly sent by who unlocked it
  refused   \* history: the driver was told ERR,16 again after it had identified again

boardVars  == <<usbPortOpened, identified, pass, buf>>
driverVars == <<pc, step, cmd, tries, failures>>
pastVars   == <<dirty, unlocker, overlap, breach, refused>>
vars == <<boardVars, toBoard, toHost, prog, driverVars, pastVars>>

None == [text |-> "none", by |-> "other"]
Texts == {"ping", "ident", "status", "act"}
Ages == {"now", "before", "other"}
Tokens  == [text : Texts \cup {"#"}, by : Ages]
Replies == [kind : {"OK", "ID", "ST", "ERR16", "REJ"}, by : Ages]

TypeOK ==
  /\ usbPortOpened \in BOOLEAN /\ identified \in BOOLEAN /\ pass \in BOOLEAN
  /\ buf \in Tokens \cup {None}
  /\ toBoard \in Seq(Tokens) /\ toHost \in Seq(Replies)
  /\ prog \in {"none", "driver", "stranger"}
  /\ pc \in {"ping", "identify", "status", "serve", "again", "repeat"} /\ step \in {"send", "tail", "wait"}
  /\ cmd \in {"act", "status"} /\ tries \in 0 .. 2 /\ failures \in 0 .. MaxFailures - 1
  /\ unlocker \in {"mine", "other", "stale"} /\ dirty \in BOOLEAN /\ overlap \in BOOLEAN
  /\ breach \in BOOLEAN /\ refused \in BOOLEAN

Quiet == pc = "ping" /\ step = "send" /\ cmd = "act" /\ tries = 0 /\ failures = 0

Init ==
  /\ usbPortOpened = FALSE /\ identified = FALSE /\ pass = FALSE /\ buf = None
  /\ toBoard = <<>> /\ toHost = <<>> /\ prog = "none" /\ Quiet
  /\ dirty = FALSE /\ unlocker = "other" /\ overlap = FALSE /\ breach = FALSE /\ refused = FALSE

Older(s, from, to) == [i \in DOMAIN s |-> IF s[i].by \in from THEN [s[i] EXCEPT !.by = to] ELSE s[i]]

(***************************************************************************)
(* The board.                                                              *)
(***************************************************************************)
\* Mutant of Locks: opening the port does not lock.
LocksNot == FALSE

\* The port was opened.
Locks == usbPortOpened

\* Mutant of StartPass: the flag stays set.
StartPassKeeps ==
  /\ ~pass /\ pass' = TRUE
  /\ identified' = (identified /\ ~Locks)
  /\ UNCHANGED <<usbPortOpened, buf, toBoard, toHost, prog, driverVars, pastVars>>

\* process(): the flag is looked at once, before the bytes.
StartPass ==
  /\ ~pass /\ pass' = TRUE
  /\ usbPortOpened' = FALSE
  /\ identified' = (identified /\ ~Locks)
  /\ UNCHANGED <<buf, toBoard, toHost, prog, driverVars, pastVars>>

\* No byte has come yet; more may be under way.
EndPass ==
  /\ pass /\ pass' = FALSE /\ overlap' = FALSE
  /\ UNCHANGED <<usbPortOpened, identified, buf, toBoard, toHost, prog, driverVars, dirty, unlocker, breach, refused>>

\* handleCommand(): the gate, and one reply to each command.
Handle(c, end) ==
  LET Say(kind) == toHost' = Append(toHost, [kind |-> kind, by |-> c.by])
      locked    == ~identified /\ c.text \in {"status", "act"}
  IN /\ \/ c.text = "ping" /\ Say("OK")
        \/ c.text = "ident" /\ Say("ID")
        \/ c.text = "status" /\ ~locked /\ Say("ST")
        \/ c.text = "act" /\ ~locked /\ (Say("OK") \/ Say("REJ"))
        \/ locked /\ Say("ERR16")
     /\ identified' = (identified \/ c.text = "ident")
     /\ unlocker' = IF c.text # "ident" THEN unlocker ELSE IF c.by = "other" THEN "stale" ELSE "mine"
     /\ breach' = (breach \/ (/\ c.text \in {"status", "act"} /\ ~locked
                              /\ ~overlap /\ unlocker # "stale"
                              /\ (c.by = "other" \/ end.by = "other" \/ unlocker # "mine")))

\* The framing loop: a text begins a command, whatever came before; '#' ends it; a '#' alone is noise.
Take ==
  /\ pass /\ toBoard # <<>>
  /\ toBoard' = Tail(toBoard)
  /\ LET t == Head(toBoard)
     IN \/ t.text # "#" /\ buf' = t /\ UNCHANGED <<identified, toHost, unlocker, breach>>
        \/ t.text = "#" /\ buf # None /\ buf' = None /\ Handle(buf, t)
        \/ t.text = "#" /\ buf = None /\ UNCHANGED <<buf, identified, toHost, unlocker, breach>>
  /\ UNCHANGED <<usbPortOpened, pass, prog, driverVars, dirty, overlap, refused>>

(***************************************************************************)
(* The programs.                                                           *)
(***************************************************************************)
\* Commands that are still to be answered, or their replies to be read.
UnderWay ==
  Len(toHost) + Cardinality({i \in DOMAIN toBoard : toBoard[i].text # "#"}) + (IF buf = None THEN 0 ELSE 1)

\* The port is opened: what is still under way belongs to somebody else.
Open(p) ==
  /\ prog = "none" /\ prog' = p
  /\ usbPortOpened' = TRUE /\ overlap' = pass
  /\ buf' = IF buf = None THEN None ELSE [buf EXCEPT !.by = "other"]
  /\ toBoard' = Older(toBoard, Ages, "other") /\ toHost' = Older(toHost, Ages, "other")
  /\ unlocker' = "other" /\ dirty' = (UnderWay > 1)
  /\ UNCHANGED <<identified, pass, driverVars, breach, refused>>

\* The port is closed, by the program or with it.  Replies that have come are lost.
CloseAs(lost) ==
  /\ prog' = "none"
  /\ toHost' = SubSeq(toHost, lost + 1, Len(toHost))
  /\ pc' = "ping" /\ step' = "send" /\ cmd' = "act" /\ tries' = 0 /\ failures' = 0

Close ==
  /\ prog # "none"
  /\ \E lost \in 0 .. Len(toHost) : CloseAs(lost)
  /\ UNCHANGED <<boardVars, toBoard, pastVars>>

\* A stranger sends any tokens and reads nothing.
Stranger ==
  /\ prog = "stranger"
  /\ Len(toBoard) + Len(toHost) < MaxLine
  /\ \E t \in {"act", "ident", "#"} : toBoard' = Append(toBoard, [text |-> t, by |-> "now"])
  /\ UNCHANGED <<boardVars, toHost, prog, driverVars, pastVars>>

Text ==
  CASE pc = "ping" -> "ping"
    [] pc \in {"identify", "again"} -> "ident"
    [] pc = "status" -> "status"
    [] pc \in {"serve", "repeat"} -> cmd

\* What DiscardInput() finds: the replies that have come so far.
Discarded == 0 .. Len(toHost)

\* Execute(): old input is discarded and the command written ...
Send ==
  /\ prog = "driver" /\ step = "send"
  /\ \E k \in Discarded : toHost' = Older(SubSeq(toHost, k + 1, Len(toHost)), {"now"}, "before")
  /\ Len(toBoard) + Len(toHost') + 1 < MaxLine
  /\ toBoard' = Append(Older(toBoard, {"now"}, "before"), [text |-> Text, by |-> "now"])
  /\ buf' = IF buf.by = "now" THEN [buf EXCEPT !.by = "before"] ELSE buf
  /\ step' = "tail"
  /\ UNCHANGED <<usbPortOpened, identified, pass, prog, pc, cmd, tries, failures, pastVars>>

\* ... to the end.
SendTail ==
  /\ prog = "driver" /\ step = "tail" /\ step' = "wait"
  /\ toBoard' = Append(toBoard, [text |-> "#", by |-> "now"])
  /\ UNCHANGED <<boardVars, toHost, prog, pc, cmd, tries, failures, pastVars>>

\* The ping is sent three times at most.
PingAgain == tries < 2

\* Mutant of After: identify and status take any line for their reply.
AfterTrusting(kind) ==
  CASE pc = "ping"     -> IF kind = "OK" THEN "identify" ELSE IF PingAgain THEN "ping" ELSE "close"
    [] pc = "identify" -> "status"
    [] pc = "status"   -> "serve"
    [] pc = "serve"    -> IF kind = "ERR16" THEN "again" ELSE "serve"
    [] pc = "again"    -> IF kind = "ID" THEN "repeat" ELSE "close"
    [] pc = "repeat"   -> "serve"

\* Where the driver goes on after a reply of this kind; "close" when it gives the port up.
After(kind) ==
  CASE pc = "ping"     -> IF kind = "OK" THEN "identify" ELSE IF PingAgain THEN "ping" ELSE "close"
    [] pc = "identify" -> IF kind = "ID" THEN "status" ELSE "close"
    [] pc = "status"   -> IF kind = "ST" THEN "serve" ELSE "close"
    [] pc = "serve"    -> IF kind = "ERR16" THEN "again" ELSE "serve"
    [] pc = "again"    -> IF kind = "ID" THEN "repeat" ELSE "close"
    [] pc = "repeat"   -> "serve"

GoOn(next) ==
  /\ step' = "send"
  /\ pc' = next
  /\ tries' = IF next = "ping" THEN tries + 1 ELSE 0
  /\ IF next = "serve" THEN cmd' \in {"act", "status"} ELSE UNCHANGED cmd
  /\ UNCHANGED prog

\* A line has come: it is taken for the reply to the command.
Read ==
  /\ prog = "driver" /\ step = "wait" /\ toHost # <<>>
  /\ LET next == After(Head(toHost).kind)
     IN \/ /\ next # "close" /\ GoOn(next)
           /\ toHost' = Tail(toHost) /\ failures' = 0
        \/ next = "close" /\ \E lost \in 1 .. Len(toHost) : CloseAs(lost)
  /\ refused' = (refused \/ (pc = "repeat" /\ Head(toHost).kind = "ERR16" /\ ~dirty))
  /\ UNCHANGED <<boardVars, toBoard, dirty, unlocker, overlap, breach>>

\* No line has come in time.  In the handshake only the ping is tried again.
Timeout ==
  /\ prog = "driver" /\ step = "wait"
  /\ dirty' = TRUE
  /\ LET next == IF pc \in {"serve", "repeat"} THEN "serve" ELSE IF pc = "ping" /\ PingAgain THEN "ping" ELSE "close"
         count == IF next = "serve" THEN failures + 1 ELSE 0
     IN IF next = "close" \/ count >= MaxFailures THEN \E lost \in 0 .. Len(toHost) : CloseAs(lost)
        ELSE GoOn(next) /\ failures' = count /\ UNCHANGED toHost
  /\ UNCHANGED <<boardVars, toBoard, unlocker, overlap, breach, refused>>

\* The board is reset and leaves the USB for a while.
Reset ==
  /\ usbPortOpened' = FALSE /\ identified' = FALSE /\ pass' = FALSE /\ buf' = None
  /\ toBoard' = <<>> /\ toHost' = <<>> /\ prog' = "none"
  /\ pc' = "ping" /\ step' = "send" /\ cmd' = "act" /\ tries' = 0 /\ failures' = 0
  /\ overlap' = FALSE /\ unlocker' = "other"
  /\ UNCHANGED <<dirty, breach, refused>>

Next ==
  \/ StartPass \/ EndPass \/ Take \/ Reset
  \/ Open("driver") \/ Open("stranger") \/ Close \/ Stranger
  \/ Send \/ SendTail \/ Read \/ Timeout

Spec == Init /\ [][Next]_vars

(***************************************************************************)
(* Properties.                                                             *)
(***************************************************************************)
\* The board obeys no command but one whose text and end both come from the program that identified it
\* since it opened the port (docs/PROTOCOL.md:43-48) - except in a pass that began before that (protocol.cpp:103),
\* or when the :32 of the program before was still unread then.
OnlyIdentified == ~breach

\* A driver that serves commands and has missed no reply since it opened the port reads the answers to its
\* own commands: the handshake has thrown away the one answer the program before may have left on the line.
CleanLine ==
  prog = "driver" /\ pc = "serve" /\ ~dirty =>
    /\ \A i \in DOMAIN toHost : toHost[i].by = "now" /\ step = "wait"
    /\ \A i \in DOMAIN toBoard : toBoard[i].by = "now" /\ step # "send"

\* A locked gate never reaches a client: after ERR,16 the driver identifies and its command is accepted.
NotLockedOut == ~refused
=============================================================================
