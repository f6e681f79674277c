--------------------------- MODULE CommandLinkProofs ---------------------------
(***************************************************************************)
(* Proofs about CommandLink, for any number of failures a session is       *)
(* allowed and any number of tokens and replies on the line.               *)
(***************************************************************************)
EXTENDS CommandLink, SequenceTheorems, FiniteSetTheorems, TLAPS

BoardTypes ==
  /\ usbPortOpened \in BOOLEAN /\ identified \in BOOLEAN /\ pass \in BOOLEAN
  /\ buf \in Tokens \cup {None}

LineTypes == toBoard \in Seq(Tokens) /\ toHost \in Seq(Replies)

DriverTypes ==
  /\ prog \in {"none", "driver", "stranger"}
  /\ pc \in {"ping", "identify", "status", "serve", "again", "repeat"} /\ step \in {"send", "tail", "wait"}
  /\ cmd \in {"act", "status"} /\ tries \in 0 .. 2 /\ failures \in 0 .. MaxFailures - 1

PastTypes ==
  /\ unlocker \in {"mine", "other", "stale"} /\ dirty \in BOOLEAN /\ overlap \in BOOLEAN
  /\ breach \in BOOLEAN /\ refused \in BOOLEAN

Types == BoardTypes /\ LineTypes /\ DriverTypes /\ PastTypes

(***************************************************************************)
(* Who unlocked the board, and whose tokens it has still to read.          *)
(***************************************************************************)
\* What came before the port was opened is read before what came after.
OthersFirst ==
  /\ \A i, j \in 1 .. Len(toBoard) : i < j /\ toBoard[j].by = "other" => toBoard[i].by = "other"
  /\ buf.by # "other" => \A i \in 1 .. Len(toBoard) : toBoard[i].by # "other"

\* A board that has seen the port open obeys only those who identified since, and then nothing older is unread.
Gate ==
  /\ overlap => pass
  /\ pass /\ ~overlap => ~usbPortOpened
  /\ identified /\ ~usbPortOpened => unlocker # "other"
  /\ unlocker = "mine" => (buf = None \/ buf.by # "other") /\ \A i \in 1 .. Len(toBoard) : toBoard[i].by # "other"

(***************************************************************************)
(* What is on the line for a driver that has missed no reply.              *)
(***************************************************************************)
InHost(A)  == \E i \in 1 .. Len(toHost) : toHost[i].by \in A
InBoard(A) == \E i \in 1 .. Len(toBoard) : toBoard[i].by \in A /\ toBoard[i].text # "#"
InBuf(A)   == buf # None /\ buf.by \in A

\* At most one command of these ages is unanswered or its reply unread.
AtMostOne(A) ==
  /\ ~(InHost(A) /\ InBoard(A)) /\ ~(InHost(A) /\ InBuf(A)) /\ ~(InBuf(A) /\ InBoard(A))
  /\ \A i, j \in 1 .. Len(toHost) : toHost[i].by \in A /\ toHost[j].by \in A => i = j
  /\ \A i, j \in 1 .. Len(toBoard) :
       toBoard[i].by \in A /\ toBoard[j].by \in A /\ toBoard[i].text # "#" /\ toBoard[j].text # "#" => i = j

\* And it is a ping.
PingsOnly(A) ==
  /\ \A i \in 1 .. Len(toHost) : toHost[i].by \in A => toHost[i].kind = "OK"
  /\ \A i \in 1 .. Len(toBoard) : toBoard[i].by \in A => toBoard[i].text \in {"ping", "#"}
  /\ buf # None /\ buf.by \in A => buf.text = "ping"

\* There is none, not even a '#'.
Nothing(A) ==
  /\ \A i \in 1 .. Len(toHost) : toHost[i].by \notin A
  /\ \A i \in 1 .. Len(toBoard) : toBoard[i].by \notin A
  /\ buf # None => buf.by \notin A

Past == {"before", "other"}

\* What may be left of other commands, by how far the driver has come.
Leftovers(A) ==
  CASE pc = "ping" -> AtMostOne(A)
    [] pc = "identify" -> AtMostOne(A) /\ PingsOnly(A)
    [] OTHER -> Nothing(A)

Own == [text |-> Text, by |-> "now"]
End == [text |-> "#", by |-> "now"]

\* The driver's own command is the last: on its way, begun, or answered.
OwnPlace == IF step = "tail" THEN Len(toBoard) ELSE Len(toBoard) - 1

OnItsWay ==
  /\ OwnPlace > 0 /\ toBoard[OwnPlace] = Own
  /\ step = "wait" => toBoard[OwnPlace + 1] = End
  /\ \A i \in 1 .. OwnPlace - 1 : toBoard[i].by # "now"
  /\ \A i \in 1 .. Len(toHost) : toHost[i].by # "now"
  /\ buf.by # "now"

Begun ==
  /\ buf = Own
  /\ IF step = "tail" THEN Len(toBoard) = 0 ELSE Len(toBoard) = 1 /\ toBoard[1] = End
  /\ \A i \in 1 .. Len(toHost) : toHost[i].by # "now"

Answered ==
  /\ step = "wait" /\ buf = None /\ Len(toBoard) = 0 /\ Len(toHost) > 0
  /\ toHost[Len(toHost)].by = "now"
  /\ pc = "ping" => toHost[Len(toHost)].kind = "OK"
  /\ \A i \in 1 .. Len(toHost) - 1 : toHost[i].by # "now"

InStep == prog = "driver" /\ ~dirty

Line ==
  InStep =>
    IF step = "send" THEN Leftovers(Ages)
    ELSE Leftovers(Past) /\ (OnItsWay \/ Begun \/ Answered)

\* A driver that is not there is at its beginning.
Fresh == prog # "driver" => pc = "ping" /\ step = "send"

(***************************************************************************)
(* Why a driver that was refused once is not refused again.                *)
(***************************************************************************)
Unlocked ==
  InStep =>
    /\ pc \in {"status", "serve"} \/ (pc = "identify" /\ Answered) => (usbPortOpened => identified)
    /\ pc = "serve" /\ Answered /\ toHost[Len(toHost)].kind = "ERR16" => ~usbPortOpened
    /\ pc \in {"again", "repeat"} => ~usbPortOpened
    /\ (pc = "again" /\ Answered) \/ pc = "repeat" => identified
    /\ pc = "repeat" /\ Answered => toHost[Len(toHost)].kind # "ERR16"

LinkInv == Types /\ OthersFirst /\ Gate /\ ~breach /\ Fresh /\ Line /\ Unlocked /\ ~refused

-----------------------------------------------------------------------------
(***************************************************************************)
(* Tokens, replies, and what the steps do to the sequences of them.        *)
(***************************************************************************)
LEMMA Records ==
  /\ None \notin Tokens /\ None.by = "other" /\ None.text = "none"
  /\ \A t \in Tokens : t.text \in Texts \cup {"#"} /\ t.by \in Ages /\ t = [text |-> t.text, by |-> t.by]
  /\ \A r \in Replies : r.kind \in {"OK", "ID", "ST", "ERR16", "REJ"} /\ r.by \in Ages
BY DEF None, Tokens, Replies, Texts, Ages

\* Growing older changes whose a token is, and nothing else.
LEMMA OlderTokens ==
  ASSUME NEW s \in Seq(Tokens), NEW from \in SUBSET Ages, NEW to \in Ages
  PROVE  /\ Older(s, from, to) \in Seq(Tokens)
         /\ Len(Older(s, from, to)) = Len(s)
         /\ \A i \in 1 .. Len(s) :
              /\ Older(s, from, to)[i].text = s[i].text
              /\ Older(s, from, to)[i].by = IF s[i].by \in from THEN to ELSE s[i].by
<1> DEFINE o == Older(s, from, to)
<1>1. Len(s) \in Nat /\ DOMAIN s = 1 .. Len(s) /\ \A i \in 1 .. Len(s) : s[i] \in Tokens
  BY LenProperties, ElementOfSeq
<1>2. \A i \in 1 .. Len(s) : [s[i] EXCEPT !.by = to] \in Tokens /\ [s[i] EXCEPT !.by = to].by = to
                            /\ [s[i] EXCEPT !.by = to].text = s[i].text
  BY <1>1 DEF Tokens
<1>3. o \in [1 .. Len(s) -> Tokens]
  BY <1>1, <1>2 DEF Older
<1>4. o \in Seq(Tokens)
  BY <1>1, <1>3, SeqDef
<1>5. Len(o) = Len(s)
  BY <1>1, <1>3, <1>4, LenProperties
<1>6. \A i \in 1 .. Len(s) : o[i].text = s[i].text /\ o[i].by = IF s[i].by \in from THEN to ELSE s[i].by
  BY <1>1, <1>2 DEF Older
<1>7. QED
  BY <1>4, <1>5, <1>6

LEMMA OlderReplies ==
  ASSUME NEW s \in Seq(Replies), NEW from \in SUBSET Ages, NEW to \in Ages
  PROVE  /\ Older(s, from, to) \in Seq(Replies)
         /\ Len(Older(s, from, to)) = Len(s)
         /\ \A i \in 1 .. Len(s) :
              /\ Older(s, from, to)[i].kind = s[i].kind
              /\ Older(s, from, to)[i].by = IF s[i].by \in from THEN to ELSE s[i].by
<1> DEFINE o == Older(s, from, to)
<1>1. Len(s) \in Nat /\ DOMAIN s = 1 .. Len(s) /\ \A i \in 1 .. Len(s) : s[i] \in Replies
  BY LenProperties, ElementOfSeq
<1>2. \A i \in 1 .. Len(s) : [s[i] EXCEPT !.by = to] \in Replies /\ [s[i] EXCEPT !.by = to].by = to
                            /\ [s[i] EXCEPT !.by = to].kind = s[i].kind
  BY <1>1 DEF Replies
<1>3. o \in [1 .. Len(s) -> Replies]
  BY <1>1, <1>2 DEF Older
<1>4. o \in Seq(Replies)
  BY <1>1, <1>3, SeqDef
<1>5. Len(o) = Len(s)
  BY <1>1, <1>3, <1>4, LenProperties
<1>6. \A i \in 1 .. Len(s) : o[i].kind = s[i].kind /\ o[i].by = IF s[i].by \in from THEN to ELSE s[i].by
  BY <1>1, <1>2 DEF Older
<1>7. QED
  BY <1>4, <1>5, <1>6

\* The first replies are lost.
LEMMA Lost ==
  ASSUME NEW s \in Seq(Replies), NEW k \in 0 .. Len(s)
  PROVE  /\ SubSeq(s, k + 1, Len(s)) \in Seq(Replies)
         /\ Len(SubSeq(s, k + 1, Len(s))) = Len(s) - k
         /\ \A i \in 1 .. Len(s) - k : SubSeq(s, k + 1, Len(s))[i] = s[i + k]
<1>1. Len(s) \in Nat /\ k \in Nat /\ k <= Len(s) /\ k + 1 \in Int /\ Len(s) \in Int
  BY LenProperties
<1>2. \A i \in k + 1 .. Len(s) : s[i] \in Replies
  BY <1>1, ElementOfSeq
<1> DEFINE m == k + 1
<1>3. /\ SubSeq(s, m, Len(s)) \in Seq(Replies)
      /\ Len(SubSeq(s, m, Len(s))) = IF m <= Len(s) THEN Len(s) - m + 1 ELSE 0
      /\ \A i \in 1 .. Len(s) - m + 1 : SubSeq(s, m, Len(s))[i] = s[m + i - 1]
  <2> HIDE DEF m
  <2> QED BY <1>1, <1>2, SubSeqProperties DEF m
<1>4. Len(SubSeq(s, m, Len(s))) = Len(s) - k
  BY <1>1, <1>3
<1>5. \A i \in 1 .. Len(s) - k : i \in 1 .. Len(s) - m + 1 /\ m + i - 1 = i + k
  BY <1>1
<1>6. QED
  BY <1>3, <1>4, <1>5

LEMMA TextIsText ==
  ASSUME DriverTypes
  PROVE  Text \in Texts
BY DEF DriverTypes, Text, Texts

LEMMA LineFacts ==
  ASSUME LineTypes
  PROVE  /\ Len(toBoard) \in Nat /\ \A i \in 1 .. Len(toBoard) : toBoard[i] \in Tokens
         /\ Len(toHost) \in Nat /\ \A i \in 1 .. Len(toHost) : toHost[i] \in Replies
BY LenProperties, ElementOfSeq DEF LineTypes

-----------------------------------------------------------------------------
(***************************************************************************)
(* What each step does.                                                    *)
(***************************************************************************)
\* A command is answered once, in the end of the replies; a ping always with OK, and ERR,16 comes from a locked board.
LEMMA HandleEffect ==
  ASSUME LineTypes, BoardTypes, PastTypes, NEW c \in Tokens, NEW end \in Tokens, Handle(c, end)
  PROVE  /\ toHost' \in Seq(Replies) /\ Len(toHost') = Len(toHost) + 1
         /\ \A i \in 1 .. Len(toHost) : toHost'[i] = toHost[i]
         /\ toHost'[Len(toHost) + 1].by = c.by
         /\ c.text = "ping" => toHost'[Len(toHost) + 1].kind = "OK"
         /\ toHost'[Len(toHost) + 1].kind = "ERR16" => ~identified /\ c.text # "ident"
         /\ identified' \in BOOLEAN /\ (identified' <=> identified \/ c.text = "ident")
         /\ unlocker' \in {"mine", "other", "stale"}
         /\ unlocker' = IF c.text # "ident" THEN unlocker ELSE IF c.by = "other" THEN "stale" ELSE "mine"
         /\ breach' \in BOOLEAN
         /\ breach' => breach \/ (/\ identified /\ ~overlap /\ unlocker # "stale"
                                  /\ (c.by = "other" \/ end.by = "other" \/ unlocker # "mine"))
<1>1. PICK kind \in {"OK", "ID", "ST", "ERR16", "REJ"} :
        /\ toHost' = Append(toHost, [kind |-> kind, by |-> c.by])
        /\ c.text = "ping" => kind = "OK"
        /\ kind = "ERR16" => ~identified /\ c.text # "ident"
  BY DEF Handle
<1>2. [kind |-> kind, by |-> c.by] \in Replies
  BY Records DEF Replies
<1>3. /\ toHost' \in Seq(Replies) /\ Len(toHost') = Len(toHost) + 1
      /\ \A i \in 1 .. Len(toHost) : toHost'[i] = toHost[i]
      /\ toHost'[Len(toHost) + 1] = [kind |-> kind, by |-> c.by]
  BY <1>1, <1>2, AppendProperties DEF LineTypes
<1>4. /\ toHost'[Len(toHost) + 1].by = c.by
      /\ toHost'[Len(toHost) + 1].kind = kind
  BY <1>3
<1>5. /\ identified' \in BOOLEAN /\ (identified' <=> identified \/ c.text = "ident")
      /\ breach' \in BOOLEAN
  BY Zenon DEF Handle
<1>6. /\ unlocker' \in {"mine", "other", "stale"}
      /\ unlocker' = IF c.text # "ident" THEN unlocker ELSE IF c.by = "other" THEN "stale" ELSE "mine"
  BY DEF Handle, PastTypes
<1>7. breach' => breach \/ (/\ identified /\ ~overlap /\ unlocker # "stale"
                           /\ (c.by = "other" \/ end.by = "other" \/ unlocker # "mine"))
  BY DEF Handle
<1>8. QED
  BY <1>1, <1>3, <1>4, <1>5, <1>6, <1>7

LEMMA TakeEffect ==
  ASSUME LineTypes, Take
  PROVE  /\ pass /\ Len(toBoard) > 0 /\ toBoard[1] \in Tokens
         /\ toBoard' \in Seq(Tokens) /\ Len(toBoard') = Len(toBoard) - 1
         /\ \A i \in 1 .. Len(toBoard) - 1 : toBoard'[i] = toBoard[i + 1]
         /\ \/ /\ toBoard[1].text # "#" /\ buf' = toBoard[1]
               /\ UNCHANGED <<identified, toHost, unlocker, breach>>
            \/ toBoard[1].text = "#" /\ buf # None /\ buf' = None /\ Handle(buf, toBoard[1])
            \/ /\ toBoard[1].text = "#" /\ buf = None
               /\ UNCHANGED <<buf, identified, toHost, unlocker, breach>>
<1>1. toBoard \in Seq(Tokens) /\ toBoard # <<>>
  BY DEF Take, LineTypes
<1>2. /\ Tail(toBoard) \in Seq(Tokens) /\ Len(Tail(toBoard)) = Len(toBoard) - 1
      /\ \A i \in 1 .. Len(Tail(toBoard)) : Tail(toBoard)[i] = toBoard[i + 1]
  BY <1>1, HeadTailProperties
<1>3. Len(toBoard) \in Nat \ {0}
  BY <1>1, EmptySeq
<1>4. Head(toBoard) = toBoard[1] /\ toBoard[1] \in Tokens
  <2>1. 1 \in 1 .. Len(toBoard)
    BY <1>3
  <2>2. QED
    BY <1>1, <2>1, ElementOfSeq
<1>5. /\ toBoard' = Tail(toBoard) /\ pass
      /\ \/ /\ toBoard[1].text # "#" /\ buf' = toBoard[1]
            /\ UNCHANGED <<identified, toHost, unlocker, breach>>
         \/ toBoard[1].text = "#" /\ buf # None /\ buf' = None /\ Handle(buf, toBoard[1])
         \/ /\ toBoard[1].text = "#" /\ buf = None
            /\ UNCHANGED <<buf, identified, toHost, unlocker, breach>>
  BY <1>4 DEF Take
<1>6. QED
  BY <1>2, <1>3, <1>4, <1>5

\* What was under way when the port was opened is another program's.
LEMMA OpenEffect ==
  ASSUME LineTypes, BoardTypes, NEW p, Open(p)
  PROVE  /\ toBoard' \in Seq(Tokens) /\ Len(toBoard') = Len(toBoard)
         /\ \A i \in 1 .. Len(toBoard) : toBoard'[i].text = toBoard[i].text /\ toBoard'[i].by = "other"
         /\ toHost' \in Seq(Replies) /\ Len(toHost') = Len(toHost)
         /\ \A i \in 1 .. Len(toHost) : toHost'[i].kind = toHost[i].kind /\ toHost'[i].by = "other"
         /\ buf' \in Tokens \cup {None} /\ buf'.by = "other" /\ (buf' = None <=> buf = None)
<1>1. "other" \in Ages /\ Ages \in SUBSET Ages
  BY DEF Ages
<1>2. /\ toBoard' = Older(toBoard, Ages, "other") /\ toHost' = Older(toHost, Ages, "other")
      /\ buf' = IF buf = None THEN None ELSE [buf EXCEPT !.by = "other"]
  BY DEF Open
<1>3. \A i \in 1 .. Len(toBoard) : toBoard[i].by \in Ages
  BY LineFacts, Records
<1>4. \A i \in 1 .. Len(toHost) : toHost[i].by \in Ages
  BY LineFacts, Records
<1>5. /\ toBoard' \in Seq(Tokens) /\ Len(toBoard') = Len(toBoard)
      /\ \A i \in 1 .. Len(toBoard) : toBoard'[i].text = toBoard[i].text /\ toBoard'[i].by = "other"
  BY <1>1, <1>2, <1>3, OlderTokens DEF LineTypes
<1>6. /\ toHost' \in Seq(Replies) /\ Len(toHost') = Len(toHost)
      /\ \A i \in 1 .. Len(toHost) : toHost'[i].kind = toHost[i].kind /\ toHost'[i].by = "other"
  BY <1>1, <1>2, <1>4, OlderReplies DEF LineTypes
<1>7. buf' \in Tokens \cup {None} /\ buf'.by = "other" /\ (buf' = None <=> buf = None)
  <2>1. CASE buf = None
    BY <1>2, <2>1, Records
  <2>2. CASE buf \in Tokens
    <3>1. [buf EXCEPT !.by = "other"] \in Tokens /\ [buf EXCEPT !.by = "other"].by = "other"
      BY <2>2 DEF Tokens, Ages
    <3>2. QED
      BY <1>2, <2>2, <3>1, Records
  <2>3. QED
    BY <2>1, <2>2 DEF BoardTypes
<1>8. QED
  BY <1>5, <1>6, <1>7

LEMMA CloseEffect ==
  ASSUME LineTypes, NEW k \in 0 .. Len(toHost), CloseAs(k)
  PROVE  toHost' \in Seq(Replies) /\ prog' = "none" /\ Quiet'
BY Lost DEF LineTypes, CloseAs, Quiet

LEMMA StrangerEffect ==
  ASSUME LineTypes, Stranger
  PROVE  /\ toBoard' \in Seq(Tokens) /\ Len(toBoard') = Len(toBoard) + 1
         /\ \A i \in 1 .. Len(toBoard) : toBoard'[i] = toBoard[i]
         /\ toBoard'[Len(toBoard) + 1].by = "now"
<1>1. PICK t \in {"act", "ident", "#"} : toBoard' = Append(toBoard, [text |-> t, by |-> "now"])
  BY DEF Stranger
<1>2. [text |-> t, by |-> "now"] \in Tokens /\ [text |-> t, by |-> "now"].by = "now"
  BY DEF Tokens, Texts, Ages
<1>3. QED
  BY <1>1, <1>2, AppendProperties DEF LineTypes

\* What has come is thrown away, what has not is older now, and the command follows it.
LEMMA SendEffect ==
  ASSUME LineTypes, BoardTypes, DriverTypes, Send
  PROVE  /\ toHost' \in Seq(Replies)
         /\ \E k \in 0 .. Len(toHost) :
              /\ Len(toHost') = Len(toHost) - k
              /\ \A i \in 1 .. Len(toHost) - k :
                   /\ toHost'[i].kind = toHost[i + k].kind
                   /\ toHost'[i].by = IF toHost[i + k].by = "now" THEN "before" ELSE toHost[i + k].by
         /\ toBoard' \in Seq(Tokens) /\ Len(toBoard') = Len(toBoard) + 1
         /\ \A i \in 1 .. Len(toBoard) :
              /\ toBoard'[i].text = toBoard[i].text
              /\ toBoard'[i].by = IF toBoard[i].by = "now" THEN "before" ELSE toBoard[i].by
         /\ toBoard'[Len(toBoard) + 1] = Own
         /\ buf' \in Tokens \cup {None} /\ (buf' = None <=> buf = None) /\ buf'.text = buf.text
         /\ buf'.by = IF buf.by = "now" THEN "before" ELSE buf.by
<1>1. "before" \in Ages /\ {"now"} \in SUBSET Ages /\ Own \in Tokens
  BY TextIsText DEF Ages, Own, Tokens
<1>2. /\ toHost' \in Seq(Replies)
      /\ \E k \in 0 .. Len(toHost) :
           /\ Len(toHost') = Len(toHost) - k
           /\ \A i \in 1 .. Len(toHost) - k :
                /\ toHost'[i].kind = toHost[i + k].kind
                /\ toHost'[i].by = IF toHost[i + k].by = "now" THEN "before" ELSE toHost[i + k].by
  <2>1. PICK k \in 0 .. Len(toHost) : toHost' = Older(SubSeq(toHost, k + 1, Len(toHost)), {"now"}, "before")
    BY DEF Send, Discarded
  <2> DEFINE s == SubSeq(toHost, k + 1, Len(toHost))
  <2>2. /\ s \in Seq(Replies) /\ Len(s) = Len(toHost) - k
        /\ \A i \in 1 .. Len(toHost) - k : s[i] = toHost[i + k]
    BY Lost DEF LineTypes
  <2>3. toHost' = Older(s, {"now"}, "before")
    BY <2>1
  <2> HIDE DEF s
  <2>4. /\ toHost' \in Seq(Replies) /\ Len(toHost') = Len(s)
        /\ \A i \in 1 .. Len(s) :
             toHost'[i].kind = s[i].kind /\ toHost'[i].by = IF s[i].by \in {"now"} THEN "before" ELSE s[i].by
    BY <1>1, <2>2, <2>3, OlderReplies
  <2>5. QED
    BY <2>2, <2>4
<1> DEFINE o == Older(toBoard, {"now"}, "before")
<1>3. /\ o \in Seq(Tokens) /\ Len(o) = Len(toBoard)
      /\ \A i \in 1 .. Len(toBoard) :
           o[i].text = toBoard[i].text /\ o[i].by = IF toBoard[i].by \in {"now"} THEN "before" ELSE toBoard[i].by
  BY <1>1, OlderTokens DEF LineTypes
<1>4. toBoard' = Append(o, Own)
  BY DEF Send, Own
<1> HIDE DEF o
<1>5. /\ toBoard' \in Seq(Tokens) /\ Len(toBoard') = Len(o) + 1
      /\ \A i \in 1 .. Len(o) : toBoard'[i] = o[i]
      /\ toBoard'[Len(o) + 1] = Own
  BY <1>1, <1>3, <1>4, AppendProperties
<1>6. /\ buf' \in Tokens \cup {None} /\ (buf' = None <=> buf = None) /\ buf'.text = buf.text
      /\ buf'.by = IF buf.by = "now" THEN "before" ELSE buf.by
  <2>1. buf' = IF buf.by = "now" THEN [buf EXCEPT !.by = "before"] ELSE buf
    BY DEF Send
  <2>2. CASE buf = None
    BY <2>1, <2>2, Records
  <2>3. CASE buf \in Tokens
    <3>1. /\ [buf EXCEPT !.by = "before"] \in Tokens
          /\ [buf EXCEPT !.by = "before"].by = "before" /\ [buf EXCEPT !.by = "before"].text = buf.text
      BY <2>3 DEF Tokens, Ages
    <3>2. QED
      BY <2>1, <2>3, <3>1, Records
  <2>4. QED
    BY <2>2, <2>3 DEF BoardTypes
<1>7. QED
  BY <1>2, <1>3, <1>5, <1>6

LEMMA SendTailEffect ==
  ASSUME LineTypes, SendTail
  PROVE  /\ toBoard' \in Seq(Tokens) /\ Len(toBoard') = Len(toBoard) + 1
         /\ \A i \in 1 .. Len(toBoard) : toBoard'[i] = toBoard[i]
         /\ toBoard'[Len(toBoard) + 1] = End
<1>1. End \in Tokens /\ toBoard' = Append(toBoard, End)
  BY DEF SendTail, End, Tokens, Ages
<1>2. QED
  BY <1>1, AppendProperties DEF LineTypes

\* The driver goes on with the next command, or gives the port up.
LEMMA ReadEffect ==
  ASSUME LineTypes, Read
  PROVE  /\ Len(toHost) > 0 /\ toHost[1] \in Replies /\ step = "wait" /\ prog = "driver"
         /\ refused' \in BOOLEAN
         /\ refused' => refused \/ (pc = "repeat" /\ toHost[1].kind = "ERR16" /\ ~dirty)
         /\ \/ /\ After(toHost[1].kind) # "close" /\ GoOn(After(toHost[1].kind)) /\ failures' = 0
               /\ toHost' \in Seq(Replies) /\ Len(toHost') = Len(toHost) - 1
               /\ \A i \in 1 .. Len(toHost) - 1 : toHost'[i] = toHost[i + 1]
            \/ toHost' \in Seq(Replies) /\ prog' = "none" /\ Quiet'
<1>1. toHost \in Seq(Replies) /\ toHost # <<>> /\ step = "wait" /\ prog = "driver"
  BY DEF Read, LineTypes
<1>2. /\ Tail(toHost) \in Seq(Replies) /\ Len(Tail(toHost)) = Len(toHost) - 1
      /\ \A i \in 1 .. Len(Tail(toHost)) : Tail(toHost)[i] = toHost[i + 1]
  BY <1>1, HeadTailProperties
<1>3. Len(toHost) \in Nat \ {0}
  BY <1>1, EmptySeq
<1>4. Head(toHost) = toHost[1] /\ toHost[1] \in Replies
  <2>1. 1 \in 1 .. Len(toHost)
    BY <1>3
  <2>2. QED
    BY <1>1, <2>1, ElementOfSeq
<1>5. \/ After(toHost[1].kind) # "close" /\ GoOn(After(toHost[1].kind)) /\ toHost' = Tail(toHost) /\ failures' = 0
      \/ \E k \in 1 .. Len(toHost) : CloseAs(k)
  BY <1>4 DEF Read
<1>6. ASSUME NEW k \in 1 .. Len(toHost), CloseAs(k)
      PROVE  toHost' \in Seq(Replies) /\ prog' = "none" /\ Quiet'
  <2>1. k \in 0 .. Len(toHost)
    BY <1>3
  <2>2. QED
    BY <1>6, <2>1, CloseEffect
<1>7. refused' \in BOOLEAN
  BY Zenon DEF Read
<1>8. refused' => refused \/ (pc = "repeat" /\ toHost[1].kind = "ERR16" /\ ~dirty)
  BY <1>4 DEF Read
<1>9. CASE \E k \in 1 .. Len(toHost) : CloseAs(k)
  BY <1>1, <1>3, <1>4, <1>6, <1>7, <1>8, <1>9
<1>10. CASE After(toHost[1].kind) # "close" /\ GoOn(After(toHost[1].kind)) /\ toHost' = Tail(toHost) /\ failures' = 0
  BY <1>1, <1>2, <1>3, <1>4, <1>7, <1>8, <1>10
<1>11. QED
  BY <1>5, <1>9, <1>10

-----------------------------------------------------------------------------
(***************************************************************************)
(* Types.                                                                  *)
(***************************************************************************)
LEMMA TypesAreTypeOK == Types <=> TypeOK
BY DEF Types, TypeOK, BoardTypes, LineTypes, DriverTypes, PastTypes

LEMMA QuietTypes ==
  ASSUME Quiet', prog' \in {"none", "driver", "stranger"}
  PROVE  DriverTypes'
<1>1. 0 \in 0 .. MaxFailures - 1 /\ 0 \in 0 .. 2
  BY LinkAssumption
<1>2. QED
  BY <1>1 DEF Quiet, DriverTypes

Places == {"ping", "identify", "status", "serve", "again", "repeat"}

LEMMA AfterPlaces ==
  ASSUME DriverTypes, NEW kind
  PROVE  /\ After(kind) \in Places \cup {"close"}
         /\ After(kind) = "ping" => pc = "ping" /\ tries < 2
BY DEF DriverTypes, After, Places, PingAgain

LEMMA GoOnTypes ==
  ASSUME DriverTypes, NEW next \in Places, GoOn(next), next = "ping" => tries < 2
  PROVE  /\ prog' \in {"none", "driver", "stranger"} /\ pc' \in Places /\ step' = "send"
         /\ cmd' \in {"act", "status"} /\ tries' \in 0 .. 2
<1>1. tries' \in 0 .. 2
  BY DEF DriverTypes, GoOn
<1>2. cmd' \in {"act", "status"}
  BY DEF DriverTypes, GoOn
<1>3. QED
  BY <1>1, <1>2 DEF DriverTypes, GoOn, Places

LEMMA InitTypes ==
  ASSUME Init
  PROVE  Types
<1>1. BoardTypes
  BY DEF Init, BoardTypes
<1>2. LineTypes
  BY EmptySeq DEF Init, LineTypes
<1>3. DriverTypes
  <2>1. 0 \in 0 .. MaxFailures - 1 /\ 0 \in 0 .. 2
    BY LinkAssumption
  <2>2. QED
    BY <2>1 DEF Init, Quiet, DriverTypes
<1>4. PastTypes
  BY DEF Init, PastTypes
<1>5. QED
  BY <1>1, <1>2, <1>3, <1>4 DEF Types

LEMMA TimeoutEffect ==
  ASSUME Types, Timeout
  PROVE  /\ dirty' = TRUE /\ step = "wait" /\ prog = "driver" /\ toHost' \in Seq(Replies)
         /\ DriverTypes' /\ (prog' # "driver" => Quiet')
         /\ UNCHANGED <<boardVars, toBoard, unlocker, overlap, breach, refused>>
<1> DEFINE next == IF pc \in {"serve", "repeat"} THEN "serve" ELSE IF pc = "ping" /\ PingAgain THEN "ping" ELSE "close"
           count == IF next = "serve" THEN failures + 1 ELSE 0
<1>1. /\ dirty' = TRUE /\ step = "wait" /\ prog = "driver"
      /\ UNCHANGED <<boardVars, toBoard, unlocker, overlap, breach, refused>>
      /\ IF next = "close" \/ count >= MaxFailures THEN \E lost \in 0 .. Len(toHost) : CloseAs(lost)
         ELSE GoOn(next) /\ failures' = count /\ UNCHANGED toHost
  BY DEF Timeout
<1>2. next \in Places \cup {"close"} /\ (next = "ping" => tries < 2)
  BY DEF Types, DriverTypes, Places, PingAgain
<1>3. count \in Nat
  BY LinkAssumption DEF Types, DriverTypes
<1> HIDE DEF next, count
<1>4. CASE \E lost \in 0 .. Len(toHost) : CloseAs(lost)
  <2>1. toHost' \in Seq(Replies) /\ prog' = "none" /\ Quiet'
    BY <1>4, CloseEffect DEF Types
  <2>2. DriverTypes'
    BY <2>1, QuietTypes
  <2>3. QED
    BY <1>1, <2>1, <2>2
<1>5. CASE next # "close" /\ ~(count >= MaxFailures) /\ GoOn(next) /\ failures' = count /\ UNCHANGED toHost
  <2>1. next \in Places /\ DriverTypes
    BY <1>2, <1>5 DEF Types
  <2>2. /\ prog' \in {"none", "driver", "stranger"} /\ pc' \in Places /\ step' = "send"
        /\ cmd' \in {"act", "status"} /\ tries' \in 0 .. 2
    BY <1>2, <1>5, <2>1, GoOnTypes
  <2>3. failures' \in 0 .. MaxFailures - 1
    BY <1>3, <1>5, LinkAssumption
  <2>4. DriverTypes' /\ prog' = "driver"
    BY <1>1, <1>5, <2>2, <2>3 DEF DriverTypes, Places, GoOn
  <2>5. toHost' \in Seq(Replies)
    BY <1>5 DEF Types, LineTypes
  <2>6. QED
    BY <1>1, <2>4, <2>5
<1>6. QED
  BY <1>1, <1>4, <1>5

LEMMA NextTypes ==
  ASSUME Types, Next
  PROVE  Types'
<1>1. BoardTypes /\ LineTypes /\ DriverTypes /\ PastTypes
  BY DEF Types
<1>2. CASE StartPass
  <2>1. BoardTypes'
    <3>1. identified' \in BOOLEAN
      BY <1>2, Zenon DEF StartPass
    <3>2. QED
      BY <1>1, <1>2, <3>1 DEF StartPass, BoardTypes
  <2>2. LineTypes' /\ DriverTypes' /\ PastTypes'
    BY <1>1, <1>2 DEF StartPass, LineTypes, DriverTypes, driverVars, PastTypes, pastVars
  <2>3. QED
    BY <2>1, <2>2 DEF Types
<1>3. CASE EndPass
  <2>1. pass' = FALSE /\ overlap' = FALSE
    BY <1>3 DEF EndPass
  <2>2. LineTypes' /\ DriverTypes'
    BY <1>1, <1>3 DEF EndPass, LineTypes, DriverTypes, driverVars
  <2>3. BoardTypes' /\ PastTypes'
    BY <1>1, <1>3, <2>1 DEF EndPass, BoardTypes, PastTypes
  <2>4. QED
    BY <2>2, <2>3 DEF Types
<1>4. CASE Take
  <2>1. DriverTypes' /\ UNCHANGED <<usbPortOpened, pass, dirty, overlap, refused>>
    BY <1>1, <1>4 DEF Take, DriverTypes, driverVars
  <2>2. toBoard' \in Seq(Tokens)
    BY <1>1, <1>4, TakeEffect
  <2>3. /\ buf' \in Tokens \cup {None} /\ identified' \in BOOLEAN /\ toHost' \in Seq(Replies)
        /\ unlocker' \in {"mine", "other", "stale"} /\ breach' \in BOOLEAN
    <3>1. CASE toBoard[1].text = "#" /\ buf # None /\ buf' = None /\ Handle(buf, toBoard[1])
      <4>1. buf \in Tokens /\ toBoard[1] \in Tokens
        BY <1>1, <1>4, <3>1, TakeEffect DEF BoardTypes
      <4>2. QED
        BY <1>1, <3>1, <4>1, HandleEffect
    <3>2. CASE toBoard[1].text # "#" /\ buf' = toBoard[1] /\ UNCHANGED <<identified, toHost, unlocker, breach>>
      <4>1. toBoard[1] \in Tokens
        BY <1>1, <1>4, TakeEffect
      <4>2. QED
        BY <1>1, <3>2, <4>1 DEF BoardTypes, LineTypes, PastTypes
    <3>3. CASE UNCHANGED <<buf, identified, toHost, unlocker, breach>>
      BY <1>1, <3>3 DEF BoardTypes, LineTypes, PastTypes
    <3>4. QED
      BY <1>1, <1>4, <3>1, <3>2, <3>3, TakeEffect
  <2>4. BoardTypes' /\ LineTypes' /\ PastTypes'
    BY <1>1, <2>1, <2>2, <2>3 DEF BoardTypes, LineTypes, PastTypes
  <2>5. QED
    BY <2>1, <2>4 DEF Types
<1>5. CASE Reset
  <2>1. BoardTypes'
    BY <1>5 DEF Reset, BoardTypes
  <2>2. LineTypes'
    BY <1>5, EmptySeq DEF Reset, LineTypes
  <2>3. DriverTypes'
    <3>1. Quiet' /\ prog' = "none"
      BY <1>5 DEF Reset, Quiet
    <3>2. QED
      BY <3>1, QuietTypes
  <2>4. PastTypes'
    BY <1>1, <1>5 DEF Reset, PastTypes
  <2>5. QED
    BY <2>1, <2>2, <2>3, <2>4 DEF Types
<1>6. ASSUME NEW p \in {"driver", "stranger"}, Open(p)
      PROVE  Types'
  <2>1. LineTypes' /\ buf' \in Tokens \cup {None}
    BY <1>1, <1>6, OpenEffect DEF LineTypes
  <2>2. BoardTypes'
    BY <1>1, <1>6, <2>1 DEF Open, BoardTypes
  <2>3. DriverTypes'
    BY <1>1, <1>6 DEF Open, DriverTypes, driverVars
  <2>4. PastTypes'
    <3>1. dirty' \in BOOLEAN
      <4>1. (UnderWay > 1) \in BOOLEAN
        OBVIOUS
      <4>2. dirty' = (UnderWay > 1)
        BY <1>6 DEF Open
      <4>3. QED
        BY <4>1, <4>2
    <3>2. QED
      BY <1>1, <1>6, <3>1 DEF Open, PastTypes, BoardTypes
  <2>5. QED
    BY <2>1, <2>2, <2>3, <2>4 DEF Types
<1>7. CASE Close
  <2>1. toHost' \in Seq(Replies) /\ prog' = "none" /\ Quiet'
    BY <1>1, <1>7, CloseEffect DEF Close
  <2>2. DriverTypes'
    BY <2>1, QuietTypes
  <2>3. BoardTypes' /\ LineTypes' /\ PastTypes'
    BY <1>1, <1>7, <2>1 DEF Close, BoardTypes, boardVars, LineTypes, PastTypes, pastVars
  <2>4. QED
    BY <2>2, <2>3 DEF Types
<1>8. CASE Stranger
  <2>1. toBoard' \in Seq(Tokens)
    BY <1>1, <1>8, StrangerEffect
  <2>2. QED
    BY <1>1, <1>8, <2>1 DEF Stranger, Types, BoardTypes, boardVars, LineTypes, DriverTypes, driverVars, PastTypes, pastVars
<1>9. CASE Send
  <2>1. toBoard' \in Seq(Tokens) /\ toHost' \in Seq(Replies) /\ buf' \in Tokens \cup {None}
    BY <1>1, <1>9, SendEffect
  <2>2. QED
    BY <1>1, <1>9, <2>1 DEF Send, Types, BoardTypes, LineTypes, DriverTypes, PastTypes, pastVars
<1>10. CASE SendTail
  <2>1. toBoard' \in Seq(Tokens)
    BY <1>1, <1>10, SendTailEffect
  <2>2. QED
    BY <1>1, <1>10, <2>1 DEF SendTail, Types, BoardTypes, boardVars, LineTypes, DriverTypes, PastTypes, pastVars
<1>11. CASE Read
  <2>1. toHost' \in Seq(Replies) /\ refused' \in BOOLEAN /\ DriverTypes'
    <3>1. CASE toHost' \in Seq(Replies) /\ prog' = "none" /\ Quiet'
      <4>1. DriverTypes'
        BY <3>1, QuietTypes
      <4>2. QED
        BY <1>1, <1>11, <3>1, <4>1, ReadEffect
    <3>2. CASE /\ After(toHost[1].kind) # "close" /\ GoOn(After(toHost[1].kind)) /\ failures' = 0
               /\ toHost' \in Seq(Replies)
      <4>1. After(toHost[1].kind) \in Places /\ (After(toHost[1].kind) = "ping" => tries < 2)
        BY <1>1, <3>2, AfterPlaces
      <4> DEFINE next == After(toHost[1].kind)
      <4>2. next \in Places /\ (next = "ping" => tries < 2) /\ GoOn(next)
        BY <3>2, <4>1
      <4> HIDE DEF next
      <4>3. /\ prog' \in {"none", "driver", "stranger"} /\ pc' \in Places /\ step' = "send"
            /\ cmd' \in {"act", "status"} /\ tries' \in 0 .. 2
        BY <1>1, <4>2, GoOnTypes
      <4>4. failures' \in 0 .. MaxFailures - 1
        BY <3>2, LinkAssumption
      <4>5. DriverTypes'
        BY <4>3, <4>4 DEF DriverTypes, Places
      <4>6. QED
        BY <1>1, <1>11, <3>2, <4>5, ReadEffect
    <3>3. QED
      BY <1>1, <1>11, <3>1, <3>2, ReadEffect
  <2>2. BoardTypes' /\ LineTypes' /\ PastTypes'
    BY <1>1, <1>11, <2>1 DEF Read, BoardTypes, boardVars, LineTypes, PastTypes
  <2>3. QED
    BY <2>1, <2>2 DEF Types
<1>12. CASE Timeout
  <2>1. DriverTypes' /\ toHost' \in Seq(Replies)
        /\ dirty' = TRUE /\ UNCHANGED <<boardVars, toBoard, unlocker, overlap, breach, refused>>
    BY <1>12, TimeoutEffect
  <2>2. BoardTypes' /\ LineTypes' /\ PastTypes'
    BY <1>1, <2>1 DEF BoardTypes, boardVars, LineTypes, PastTypes
  <2>3. QED
    BY <2>1, <2>2 DEF Types
<1>13. QED
  BY <1>2, <1>3, <1>4, <1>5, <1>6, <1>7, <1>8, <1>9, <1>10, <1>11, <1>12 DEF Next

\* The type invariant holds in every state, whatever the bounds.
THEOREM TypesCorrect == Spec => []TypeOK
<1>1. Init => Types
  BY InitTypes
<1>2. Types /\ [Next]_vars => Types'
  <2> SUFFICES ASSUME Types, [Next]_vars PROVE Types'
    OBVIOUS
  <2>1. CASE Next
    BY <2>1, NextTypes
  <2>2. CASE UNCHANGED vars
    BY <2>2 DEF vars, boardVars, driverVars, pastVars, Types, BoardTypes, LineTypes, DriverTypes, PastTypes
  <2>3. QED
    BY <2>1, <2>2
<1>3. Types => TypeOK
  BY TypesAreTypeOK
<1>4. QED
  BY <1>1, <1>2, <1>3, PTL DEF Spec

-----------------------------------------------------------------------------
(***************************************************************************)
(* The gate: only who identified is obeyed.                                *)
(***************************************************************************)
LEMMA BufFacts ==
  ASSUME Types
  PROVE  /\ buf.by \in Ages /\ (buf # None => buf \in Tokens)
         /\ Len(toBoard) \in Nat /\ \A i \in 1 .. Len(toBoard) : toBoard[i] \in Tokens
         /\ Len(toHost) \in Nat /\ \A i \in 1 .. Len(toHost) : toHost[i] \in Replies
<1>1. buf.by \in Ages /\ (buf # None => buf \in Tokens)
  BY Records DEF Types, BoardTypes, Ages
<1>2. QED
  BY <1>1, LineFacts DEF Types

LEMMA OthersFirstNext ==
  ASSUME Types, OthersFirst, Next
  PROVE  OthersFirst'
<1>1. CASE StartPass \/ EndPass \/ Close \/ Read \/ Timeout
  <2>1. UNCHANGED <<toBoard, buf>>
    BY <1>1 DEF StartPass, EndPass, Close, Read, Timeout, boardVars
  <2>2. QED
    BY <2>1 DEF OthersFirst
<1>2. CASE Take
  <2>1. /\ Len(toBoard) \in Nat \ {0} /\ Len(toBoard') = Len(toBoard) - 1
        /\ \A i \in 1 .. Len(toBoard) - 1 : toBoard'[i] = toBoard[i + 1]
        /\ buf' = toBoard[1] \/ buf' = None
    BY <1>2, TakeEffect, BufFacts DEF Types
  <2>2. \A i \in 1 .. Len(toBoard') : i + 1 \in 1 .. Len(toBoard) /\ toBoard'[i] = toBoard[i + 1]
    BY <2>1
  <2>3. ASSUME NEW i \in 1 .. Len(toBoard'), NEW j \in 1 .. Len(toBoard'), i < j, toBoard'[j].by = "other"
        PROVE  toBoard'[i].by = "other"
    <3>1. i \in Nat /\ j \in Nat /\ i + 1 < j + 1
      BY <2>1, <2>3
    <3>2. toBoard[j + 1].by = "other" /\ i + 1 \in 1 .. Len(toBoard) /\ j + 1 \in 1 .. Len(toBoard)
      BY <2>2, <2>3
    <3>3. toBoard[i + 1].by = "other"
      <4> DEFINE a == i + 1
                 b == j + 1
      <4>1. a \in 1 .. Len(toBoard) /\ b \in 1 .. Len(toBoard) /\ a < b /\ toBoard[b].by = "other"
        BY <3>1, <3>2
      <4> HIDE DEF a, b
      <4>2. toBoard[a].by = "other"
        BY <4>1 DEF OthersFirst
      <4>3. QED
        BY <4>2 DEF a
    <3>4. QED
      BY <2>2, <3>3
  <2>4. ASSUME buf'.by # "other", NEW i \in 1 .. Len(toBoard')
        PROVE  toBoard'[i].by # "other"
    <3>1. buf' = toBoard[1] /\ toBoard[1].by # "other"
      BY <2>1, <2>4, Records
    <3>2. 1 \in 1 .. Len(toBoard) /\ i + 1 \in 1 .. Len(toBoard) /\ 1 < i + 1
      BY <2>1, <2>2
    <3>3. QED
      BY <2>2, <3>1, <3>2 DEF OthersFirst
  <2>5. QED
    BY <2>3, <2>4 DEF OthersFirst
<1>3. CASE Reset
  BY <1>3, EmptySeq, Records DEF Reset, OthersFirst
<1>4. ASSUME NEW p, Open(p)
      PROVE  OthersFirst'
  BY <1>4, OpenEffect DEF Types, OthersFirst
<1>5. CASE Stranger
  <2>1. /\ Len(toBoard) \in Nat /\ Len(toBoard') = Len(toBoard) + 1 /\ buf' = buf
        /\ \A i \in 1 .. Len(toBoard) : toBoard'[i] = toBoard[i]
        /\ toBoard'[Len(toBoard) + 1].by = "now"
    BY <1>5, StrangerEffect, BufFacts DEF Types, Stranger, boardVars
  <2>2. \A i \in 1 .. Len(toBoard') : i \in 1 .. Len(toBoard) \/ i = Len(toBoard) + 1
    BY <2>1
  <2>3. QED
    BY <2>1, <2>2 DEF OthersFirst
<1>6. CASE Send
  <2>1. /\ Len(toBoard) \in Nat /\ Len(toBoard') = Len(toBoard) + 1
        /\ (buf'.by = "other" <=> buf.by = "other")
        /\ \A i \in 1 .. Len(toBoard) : (toBoard'[i].by = "other" <=> toBoard[i].by = "other")
        /\ toBoard'[Len(toBoard) + 1].by = "now"
    BY <1>6, SendEffect, BufFacts DEF Types, Own
  <2>2. \A i \in 1 .. Len(toBoard') : i \in 1 .. Len(toBoard) \/ i = Len(toBoard) + 1
    BY <2>1
  <2>3. QED
    BY <2>1, <2>2 DEF OthersFirst
<1>7. CASE SendTail
  <2>1. /\ Len(toBoard) \in Nat /\ Len(toBoard') = Len(toBoard) + 1 /\ buf' = buf
        /\ \A i \in 1 .. Len(toBoard) : toBoard'[i] = toBoard[i]
        /\ toBoard'[Len(toBoard) + 1].by = "now"
    BY <1>7, SendTailEffect, BufFacts DEF Types, SendTail, boardVars, End
  <2>2. \A i \in 1 .. Len(toBoard') : i \in 1 .. Len(toBoard) \/ i = Len(toBoard) + 1
    BY <2>1
  <2>3. QED
    BY <2>1, <2>2 DEF OthersFirst
<1>8. QED
  BY <1>1, <1>2, <1>3, <1>4, <1>5, <1>6, <1>7 DEF Next

LEMMA GateNext ==
  ASSUME Types, OthersFirst, Gate, ~breach, Next
  PROVE  Gate' /\ ~breach'
<1> USE DEF Gate
<1>1. CASE StartPass
  <2>1. UNCHANGED <<overlap, buf, toBoard, unlocker, breach>> /\ pass' = TRUE /\ usbPortOpened' = FALSE
    BY <1>1 DEF StartPass, pastVars
  <2>2. identified' => identified /\ ~usbPortOpened
    BY <1>1 DEF StartPass, Locks
  <2>3. QED
    BY <2>1, <2>2
<1>2. CASE EndPass
  BY <1>2 DEF EndPass
<1>3. CASE Take
  <2>1. /\ pass /\ Len(toBoard) \in Nat \ {0} /\ toBoard[1] \in Tokens /\ Len(toBoard') = Len(toBoard) - 1
        /\ \A i \in 1 .. Len(toBoard) - 1 : toBoard'[i] = toBoard[i + 1]
        /\ UNCHANGED <<usbPortOpened, pass, overlap>>
    BY <1>3, TakeEffect, BufFacts DEF Types, Take
  <2>2. \A i \in 1 .. Len(toBoard') : i + 1 \in 1 .. Len(toBoard) /\ toBoard'[i] = toBoard[i + 1]
    BY <2>1
  <2>3. 1 \in 1 .. Len(toBoard)
    BY <2>1
  <2>4. CASE toBoard[1].text # "#" /\ buf' = toBoard[1] /\ UNCHANGED <<identified, toHost, unlocker, breach>>
    BY <2>1, <2>2, <2>3, <2>4
  <2>5. CASE UNCHANGED <<buf, identified, toHost, unlocker, breach>>
    BY <2>1, <2>2, <2>5
  <2>6. CASE toBoard[1].text = "#" /\ buf # None /\ buf' = None /\ Handle(buf, toBoard[1])
    <3>1. buf \in Tokens
      BY <2>6, BufFacts
    <3>2. /\ (identified' <=> identified \/ buf.text = "ident")
          /\ unlocker' = IF buf.text # "ident" THEN unlocker ELSE IF buf.by = "other" THEN "stale" ELSE "mine"
          /\ breach' \in BOOLEAN
          /\ breach' => breach \/ (/\ identified /\ ~overlap /\ unlocker # "stale"
                                   /\ (buf.by = "other" \/ toBoard[1].by = "other" \/ unlocker # "mine"))
      BY <2>1, <2>6, <3>1, HandleEffect DEF Types
    <3>3. ~breach'
      <4>1. SUFFICES ASSUME identified, ~overlap, unlocker # "stale"
                     PROVE  buf.by # "other" /\ toBoard[1].by # "other" /\ unlocker = "mine"
        BY <3>2
      <4>2. unlocker # "other"
        BY <2>1, <4>1
      <4>3. unlocker = "mine"
        BY <4>1, <4>2 DEF Types, PastTypes
      <4>4. QED
        BY <2>3, <2>6, <4>3
    <3>4. identified' /\ ~usbPortOpened' => unlocker' # "other"
      BY <2>1, <3>2
    <3>5. ASSUME unlocker' = "mine", NEW i \in 1 .. Len(toBoard')
          PROVE  toBoard'[i].by # "other"
      BY <2>2, <3>2, <3>5 DEF OthersFirst
    <3>6. QED
      BY <2>1, <2>6, <3>3, <3>4, <3>5
  <2>7. QED
    BY <1>3, <2>4, <2>5, <2>6, TakeEffect DEF Types
<1>4. CASE Reset
  BY <1>4 DEF Reset
<1>5. ASSUME NEW p, Open(p)
      PROVE  Gate' /\ ~breach'
  BY <1>5 DEF Open
<1>6. CASE Close
  BY <1>6 DEF Close, boardVars, pastVars
<1>7. CASE Stranger
  <2>1. /\ Len(toBoard) \in Nat /\ Len(toBoard') = Len(toBoard) + 1
        /\ \A i \in 1 .. Len(toBoard) : toBoard'[i] = toBoard[i]
        /\ toBoard'[Len(toBoard) + 1].by = "now"
    BY <1>7, StrangerEffect, BufFacts DEF Types
  <2>2. \A i \in 1 .. Len(toBoard') : i \in 1 .. Len(toBoard) \/ i = Len(toBoard) + 1
    BY <2>1
  <2>3. QED
    BY <1>7, <2>1, <2>2 DEF Stranger, boardVars, pastVars
<1>8. CASE Send
  <2>1. /\ Len(toBoard) \in Nat /\ Len(toBoard') = Len(toBoard) + 1
        /\ (buf'.by = "other" <=> buf.by = "other") /\ (buf' = None <=> buf = None)
        /\ \A i \in 1 .. Len(toBoard) : (toBoard'[i].by = "other" <=> toBoard[i].by = "other")
        /\ toBoard'[Len(toBoard) + 1].by = "now"
    BY <1>8, SendEffect, BufFacts DEF Types, Own
  <2>2. \A i \in 1 .. Len(toBoard') : i \in 1 .. Len(toBoard) \/ i = Len(toBoard) + 1
    BY <2>1
  <2>3. QED
    BY <1>8, <2>1, <2>2 DEF Send, pastVars
<1>9. CASE SendTail
  <2>1. /\ Len(toBoard) \in Nat /\ Len(toBoard') = Len(toBoard) + 1
        /\ \A i \in 1 .. Len(toBoard) : toBoard'[i] = toBoard[i]
        /\ toBoard'[Len(toBoard) + 1].by = "now"
    BY <1>9, SendTailEffect, BufFacts DEF Types, End
  <2>2. \A i \in 1 .. Len(toBoard') : i \in 1 .. Len(toBoard) \/ i = Len(toBoard) + 1
    BY <2>1
  <2>3. QED
    BY <1>9, <2>1, <2>2 DEF SendTail, boardVars, pastVars
<1>10. CASE Read
  BY <1>10 DEF Read, boardVars
<1>11. CASE Timeout
  BY <1>11 DEF Timeout, boardVars
<1>12. QED
  BY <1>1, <1>2, <1>3, <1>4, <1>5, <1>6, <1>7, <1>8, <1>9, <1>10, <1>11 DEF Next

LEMMA InitGate ==
  ASSUME Init
  PROVE  OthersFirst /\ Gate /\ ~breach
BY EmptySeq, Records DEF Init, OthersFirst, Gate

\* The board obeys no command but one whose text and end both come from the program that identified it, for any
\* bound on the line and on the failures (handleCommand()'s gate and the flag of the USB interrupt).
THEOREM OnlyIdentifiedAlways == Spec => []OnlyIdentified
<1> DEFINE Inv == Types /\ OthersFirst /\ Gate /\ ~breach
<1>1. Init => Inv
  BY InitTypes, InitGate
<1>2. Inv /\ [Next]_vars => Inv'
  <2> SUFFICES ASSUME Inv, [Next]_vars PROVE Inv'
    OBVIOUS
  <2>1. CASE Next
    BY <2>1, NextTypes, OthersFirstNext, GateNext
  <2>2. CASE UNCHANGED vars
    <3>1. Types'
      BY <2>2 DEF vars, boardVars, driverVars, pastVars, Types, BoardTypes, LineTypes, DriverTypes, PastTypes
    <3>2. OthersFirst' /\ Gate' /\ ~breach'
      BY <2>2 DEF vars, boardVars, pastVars, OthersFirst, Gate
    <3>3. QED
      BY <3>1, <3>2
  <2>3. QED
    BY <2>1, <2>2
<1>3. Inv => OnlyIdentified
  BY DEF OnlyIdentified
<1>4. QED
  BY <1>1, <1>2, <1>3, PTL DEF Spec

-----------------------------------------------------------------------------
(***************************************************************************)
(* What is left of other commands.                                         *)
(***************************************************************************)
\* With no more than one command under way there is at most one, wherever it is.
LEMMA OneUnderWay ==
  ASSUME Types, ~(UnderWay > 1)
  PROVE  AtMostOne(Ages)
<1> DEFINE texts == {i \in DOMAIN toBoard : toBoard[i].text # "#"}
           mine == IF buf = None THEN 0 ELSE 1
<1>1. Len(toBoard) \in Nat /\ DOMAIN toBoard = 1 .. Len(toBoard) /\ Len(toHost) \in Nat
  BY LenProperties DEF Types, LineTypes
<1>2. IsFiniteSet(1 .. Len(toBoard))
  BY <1>1, FS_Interval
<1>3. IsFiniteSet(texts)
  BY <1>1, <1>2, FS_Subset
<1>4. /\ Cardinality(texts) \in Nat
      /\ Cardinality(texts) = 0 => texts = {}
      /\ Cardinality(texts) = 1 => \E x : texts = {x}
  BY <1>3, FS_CardinalityType, FS_EmptySet, FS_Singleton
<1>5. ~(Len(toHost) + Cardinality(texts) + mine > 1)
  BY DEF UnderWay
<1>6. mine \in {0, 1} /\ (mine = 0 <=> buf = None)
  OBVIOUS
<1>7. \A i \in 1 .. Len(toBoard) : toBoard[i].text # "#" <=> i \in texts
  BY <1>1
<1> HIDE DEF texts, mine
<1>8. /\ Len(toHost) > 0 => Len(toHost) = 1 /\ Cardinality(texts) = 0 /\ mine = 0
      /\ mine = 1 => Len(toHost) = 0 /\ Cardinality(texts) = 0
      /\ Cardinality(texts) \in {0, 1}
  <2> DEFINE c == Cardinality(texts)
             n == Len(toHost)
  <2>1. c \in Nat /\ n \in Nat /\ mine \in {0, 1} /\ ~(n + c + mine > 1)
    BY <1>1, <1>4, <1>5, <1>6
  <2> HIDE DEF c, n
  <2>2. /\ n > 0 => n = 1 /\ c = 0 /\ mine = 0
        /\ mine = 1 => n = 0 /\ c = 0
        /\ c \in {0, 1}
    BY <2>1
  <2>3. QED
    BY <2>2 DEF c, n
<1>9. \A i, j \in texts : i = j
  BY <1>4, <1>8
<1>10. InHost(Ages) => Len(toHost) > 0
  BY <1>1 DEF InHost
<1>11. InBoard(Ages) => texts # {}
  BY <1>7 DEF InBoard
<1>12. \A i, j \in 1 .. Len(toHost) : i = j
  <2>1. Len(toHost) = 0 \/ Len(toHost) = 1
    BY <1>1, <1>8
  <2>2. CASE Len(toHost) = 0
    BY <2>2
  <2>3. CASE Len(toHost) = 1
    BY <2>3
  <2>4. QED
    BY <2>1, <2>2, <2>3
<1>13. QED
  BY <1>4, <1>6, <1>7, <1>8, <1>9, <1>10, <1>11, <1>12 DEF AtMostOne, InBuf

LEMMA OpenLeftovers ==
  ASSUME Types, NEW p, Open(p), AtMostOne(Ages)
  PROVE  AtMostOne(Ages)'
<1>1. /\ Len(toBoard') = Len(toBoard) /\ Len(toHost') = Len(toHost) /\ (buf' = None <=> buf = None)
      /\ \A i \in 1 .. Len(toBoard) : toBoard'[i].text = toBoard[i].text
  BY OpenEffect DEF Types
<1>2. /\ \A i \in 1 .. Len(toBoard) : toBoard[i].by \in Ages
      /\ \A i \in 1 .. Len(toHost) : toHost[i].by \in Ages
      /\ buf.by \in Ages
  BY BufFacts, Records
<1>3. (InHost(Ages)' => InHost(Ages)) /\ (InBoard(Ages)' => InBoard(Ages)) /\ (InBuf(Ages)' => InBuf(Ages))
  BY <1>1, <1>2 DEF InHost, InBoard, InBuf
<1>4. QED
  BY <1>1, <1>2, <1>3 DEF AtMostOne

\* The board takes a token: a command goes from the line to the board, or its answer from the board to the line.
LEMMA TakeAtMostOne ==
  ASSUME Types, Take, NEW A, AtMostOne(A)
  PROVE  AtMostOne(A)'
<1>1. /\ Len(toBoard) \in Nat \ {0} /\ Len(toBoard') = Len(toBoard) - 1 /\ Len(toHost) \in Nat
      /\ \A i \in 1 .. Len(toBoard) - 1 : toBoard'[i] = toBoard[i + 1]
  BY TakeEffect, BufFacts DEF Types
<1>2. \A i \in 1 .. Len(toBoard') : i + 1 \in 1 .. Len(toBoard) /\ i + 1 # 1 /\ toBoard'[i] = toBoard[i + 1]
  BY <1>1
<1>3. 1 \in 1 .. Len(toBoard)
  BY <1>1
<1>4. InBoard(A)' => InBoard(A)
  BY <1>2 DEF InBoard
<1>5. \A i, j \in 1 .. Len(toBoard') :
        toBoard'[i].by \in A /\ toBoard'[j].by \in A /\ toBoard'[i].text # "#" /\ toBoard'[j].text # "#" => i = j
  BY <1>2 DEF AtMostOne
<1>6. CASE toBoard[1].text # "#" /\ buf' = toBoard[1] /\ UNCHANGED <<identified, toHost, unlocker, breach>>
  <2>1. InBuf(A)' => InBoard(A)
    BY <1>3, <1>6 DEF InBuf, InBoard
  <2>2. ~(InBuf(A)' /\ InBoard(A)')
    BY <1>2, <1>3, <1>6 DEF InBuf, InBoard, AtMostOne
  <2>3. InHost(A)' => InHost(A)
    BY <1>6 DEF InHost
  <2>4. QED
    BY <1>4, <1>5, <1>6, <2>1, <2>2, <2>3 DEF AtMostOne
<1>7. CASE toBoard[1].text = "#" /\ buf # None /\ buf' = None /\ Handle(buf, toBoard[1])
  <2>1. /\ Len(toHost') = Len(toHost) + 1 /\ \A i \in 1 .. Len(toHost) : toHost'[i] = toHost[i]
        /\ toHost'[Len(toHost) + 1].by = buf.by
    BY <1>3, <1>7, BufFacts, HandleEffect DEF Types
  <2>2. \A i \in 1 .. Len(toHost') : i \in 1 .. Len(toHost) \/ i = Len(toHost) + 1
    BY <1>1, <2>1
  <2>3. InHost(A)' => InHost(A) \/ InBuf(A)
    BY <1>7, <2>1, <2>2 DEF InHost, InBuf
  <2>4. ~InBuf(A)'
    BY <1>7 DEF InBuf
  <2>5. \A i, j \in 1 .. Len(toHost') : toHost'[i].by \in A /\ toHost'[j].by \in A => i = j
    <3>1. InBuf(A) => \A i \in 1 .. Len(toHost) : toHost[i].by \notin A
      BY DEF AtMostOne, InHost
    <3>2. buf.by \in A => InBuf(A)
      BY <1>7 DEF InBuf
    <3>3. QED
      BY <2>1, <2>2, <3>1, <3>2 DEF AtMostOne
  <2>6. QED
    BY <1>4, <1>5, <2>3, <2>4, <2>5 DEF AtMostOne
<1>8. CASE UNCHANGED <<buf, identified, toHost, unlocker, breach>>
  <2>1. (InHost(A)' => InHost(A)) /\ (InBuf(A)' => InBuf(A))
    BY <1>8 DEF InHost, InBuf
  <2>2. QED
    BY <1>4, <1>5, <1>8, <2>1 DEF AtMostOne
<1>9. QED
  BY <1>6, <1>7, <1>8, TakeEffect DEF Types

LEMMA TakePingsOnly ==
  ASSUME Types, Take, NEW A, PingsOnly(A)
  PROVE  PingsOnly(A)'
<1>1. /\ Len(toBoard) \in Nat \ {0} /\ Len(toBoard') = Len(toBoard) - 1 /\ Len(toHost) \in Nat
      /\ \A i \in 1 .. Len(toBoard) - 1 : toBoard'[i] = toBoard[i + 1]
  BY TakeEffect, BufFacts DEF Types
<1>2. \A i \in 1 .. Len(toBoard') : i + 1 \in 1 .. Len(toBoard) /\ toBoard'[i] = toBoard[i + 1]
  BY <1>1
<1>3. 1 \in 1 .. Len(toBoard)
  BY <1>1
<1>4. \A i \in 1 .. Len(toBoard') : toBoard'[i].by \in A => toBoard'[i].text \in {"ping", "#"}
  BY <1>2 DEF PingsOnly
<1>5. CASE toBoard[1].text # "#" /\ buf' = toBoard[1] /\ UNCHANGED <<identified, toHost, unlocker, breach>>
  BY <1>3, <1>4, <1>5 DEF PingsOnly
<1>6. CASE toBoard[1].text = "#" /\ buf # None /\ buf' = None /\ Handle(buf, toBoard[1])
  <2>1. /\ Len(toHost') = Len(toHost) + 1 /\ \A i \in 1 .. Len(toHost) : toHost'[i] = toHost[i]
        /\ toHost'[Len(toHost) + 1].by = buf.by
        /\ buf.text = "ping" => toHost'[Len(toHost) + 1].kind = "OK"
    BY <1>3, <1>6, BufFacts, HandleEffect DEF Types
  <2>2. \A i \in 1 .. Len(toHost') : i \in 1 .. Len(toHost) \/ i = Len(toHost) + 1
    BY <1>1, <2>1
  <2>3. QED
    BY <1>4, <1>6, <2>1, <2>2 DEF PingsOnly
<1>7. CASE UNCHANGED <<buf, identified, toHost, unlocker, breach>>
  BY <1>4, <1>7 DEF PingsOnly
<1>8. QED
  BY <1>5, <1>6, <1>7, TakeEffect DEF Types

LEMMA TakeNothing ==
  ASSUME Types, Take, NEW A, Nothing(A)
  PROVE  Nothing(A)'
<1>1. /\ Len(toBoard) \in Nat \ {0} /\ Len(toBoard') = Len(toBoard) - 1 /\ Len(toHost) \in Nat
      /\ \A i \in 1 .. Len(toBoard) - 1 : toBoard'[i] = toBoard[i + 1]
  BY TakeEffect, BufFacts DEF Types
<1>2. \A i \in 1 .. Len(toBoard') : i + 1 \in 1 .. Len(toBoard) /\ toBoard'[i] = toBoard[i + 1]
  BY <1>1
<1>3. 1 \in 1 .. Len(toBoard)
  BY <1>1
<1>4. \A i \in 1 .. Len(toBoard') : toBoard'[i].by \notin A
  BY <1>2 DEF Nothing
<1>5. CASE toBoard[1].text # "#" /\ buf' = toBoard[1] /\ UNCHANGED <<identified, toHost, unlocker, breach>>
  BY <1>3, <1>4, <1>5 DEF Nothing
<1>6. CASE toBoard[1].text = "#" /\ buf # None /\ buf' = None /\ Handle(buf, toBoard[1])
  <2>1. /\ Len(toHost') = Len(toHost) + 1 /\ \A i \in 1 .. Len(toHost) : toHost'[i] = toHost[i]
        /\ toHost'[Len(toHost) + 1].by = buf.by
    BY <1>3, <1>6, BufFacts, HandleEffect DEF Types
  <2>2. \A i \in 1 .. Len(toHost') : i \in 1 .. Len(toHost) \/ i = Len(toHost) + 1
    BY <1>1, <2>1
  <2>3. QED
    BY <1>4, <1>6, <2>1, <2>2 DEF Nothing
<1>7. CASE UNCHANGED <<buf, identified, toHost, unlocker, breach>>
  BY <1>4, <1>7 DEF Nothing
<1>8. QED
  BY <1>5, <1>6, <1>7, TakeEffect DEF Types

LEMMA TakeLeftovers ==
  ASSUME Types, Take, NEW A, Leftovers(A)
  PROVE  Leftovers(A)'
<1>1. pc' = pc
  BY DEF Take, driverVars
<1>2. QED
  BY <1>1, TakeAtMostOne, TakePingsOnly, TakeNothing DEF Leftovers

-----------------------------------------------------------------------------
(***************************************************************************)
(* The driver's own command.                                               *)
(***************************************************************************)
LEMMA OneStage ==
  ASSUME Types
  PROVE  (OnItsWay \/ Begun) => ~Answered
<1>1. OnItsWay => Len(toBoard) # 0
  BY BufFacts DEF OnItsWay, OwnPlace
<1>2. Own \in Tokens
  BY TextIsText DEF Types, Own, Tokens, Ages
<1>3. Begun => buf # None
  BY <1>2, Records DEF Begun
<1>4. QED
  BY <1>1, <1>3 DEF Answered

\* It stays on its way, or the board begins it, or the board has all of it and answers.
LEMMA TakeOwn ==
  ASSUME Types, Take, step \in {"tail", "wait"}, OnItsWay \/ Begun \/ Answered
  PROVE  \/ OnItsWay' \/ Begun'
         \/ Answered' /\ Begun /\ Handle(Own, End)
<1>1. /\ Len(toBoard) \in Nat \ {0} /\ Len(toBoard') = Len(toBoard) - 1 /\ Len(toHost) \in Nat
      /\ \A i \in 1 .. Len(toBoard) - 1 : toBoard'[i] = toBoard[i + 1]
  BY TakeEffect, BufFacts DEF Types
<1>2. \A i \in 1 .. Len(toBoard') : i + 1 \in 1 .. Len(toBoard) /\ toBoard'[i] = toBoard[i + 1]
  BY <1>1
<1>3. UNCHANGED <<step, pc, cmd>>
  BY DEF Take, driverVars
<1>4. Own' = Own /\ End' = End /\ Own \in Tokens /\ Own.text # "#" /\ Own.by = "now" /\ End.text = "#" /\ End.by = "now"
  BY <1>3, TextIsText DEF Own, End, Text, Types, Tokens, Texts, Ages
<1>5. ~Answered
  BY <1>1 DEF Answered
<1>6. CASE Begun
  <2>1. step = "wait" /\ Len(toBoard) = 1 /\ toBoard[1] = End /\ buf = Own /\ buf # None
    BY <1>1, <1>4, <1>6, Records DEF Begun
  <2>2. Handle(Own, End) /\ buf' = None
    BY <1>4, <2>1, TakeEffect DEF Types
  <2>3. End \in Tokens
    BY DEF End, Tokens, Ages
  <2>4. /\ Len(toHost') = Len(toHost) + 1 /\ \A i \in 1 .. Len(toHost) : toHost'[i] = toHost[i]
        /\ toHost'[Len(toHost) + 1].by = "now"
        /\ Own.text = "ping" => toHost'[Len(toHost) + 1].kind = "OK"
    BY <1>4, <2>2, <2>3, HandleEffect DEF Types
  <2>5. pc = "ping" => Own.text = "ping"
    BY DEF Own, Text
  <2>6. \A i \in 1 .. Len(toHost') - 1 : toHost'[i].by # "now"
    <3>1. \A i \in 1 .. Len(toHost') - 1 : i \in 1 .. Len(toHost)
      BY <1>1, <2>4
    <3>2. QED
      BY <1>6, <2>4, <3>1 DEF Begun
  <2>7. Answered'
    BY <1>1, <1>3, <2>1, <2>2, <2>4, <2>5, <2>6 DEF Answered
  <2>8. QED
    BY <1>6, <2>2, <2>7
<1>7. CASE OnItsWay /\ OwnPlace = 1
  <2>1. toBoard[1] = Own
    BY <1>7 DEF OnItsWay
  <2>2. buf' = Own /\ toHost' = toHost
    BY <1>4, <2>1, TakeEffect DEF Types
  <2>3. IF step = "tail" THEN Len(toBoard') = 0 ELSE Len(toBoard') = 1 /\ toBoard'[1] = End
    <3>1. CASE step = "tail"
      <4>1. OwnPlace = Len(toBoard)
        BY <3>1 DEF OwnPlace
      <4>2. Len(toBoard) = 1
        BY <1>7, <4>1
      <4>3. Len(toBoard') = 0
        BY <1>1, <4>2
      <4>4. QED
        BY <3>1, <4>3
    <3>2. CASE step = "wait"
      <4>1. Len(toBoard') = 1
        BY <1>1, <1>7, <3>2 DEF OwnPlace
      <4>2. toBoard'[1] = toBoard[2]
        BY <1>1, <4>1
      <4>3. toBoard[2] = End
        BY <1>7, <3>2 DEF OnItsWay
      <4>4. QED
        BY <3>2, <4>1, <4>2, <4>3
    <3>3. QED
      BY <3>1, <3>2
  <2>4. Begun'
    BY <1>3, <1>4, <1>7, <2>2, <2>3 DEF Begun, OnItsWay
  <2>5. QED
    BY <2>4
<1>8. CASE OnItsWay /\ OwnPlace # 1
  <2> DEFINE k == OwnPlace
  <2>1. k \in Int /\ k > 1 /\ k <= Len(toBoard) /\ OwnPlace' = k - 1
        /\ (step = "wait" => k = Len(toBoard) - 1)
    BY <1>1, <1>3, <1>8 DEF OwnPlace, OnItsWay
  <2>2. /\ toBoard[k] = Own /\ (step = "wait" => toBoard[k + 1] = End)
        /\ \A i \in 1 .. k - 1 : toBoard[i].by # "now"
        /\ \A i \in 1 .. Len(toHost) : toHost[i].by # "now"
        /\ buf.by # "now"
    BY <1>8 DEF OnItsWay
  <2> HIDE DEF k
  <2>3. toBoard'[k - 1] = Own
    BY <1>1, <2>1, <2>2
  <2>4. step = "wait" => toBoard'[k - 1 + 1] = End
    BY <1>1, <2>1, <2>2
  <2>5. ASSUME NEW i \in 1 .. k - 1 - 1
        PROVE  toBoard'[i].by # "now"
    <3>1. i + 1 \in 1 .. k - 1 /\ i \in 1 .. Len(toBoard) - 1
      BY <1>1, <2>1
    <3>2. QED
      BY <1>1, <2>2, <3>1
  <2>6. toBoard[1].by # "now"
    BY <2>1, <2>2
  <2>7. buf'.by # "now" /\ \A i \in 1 .. Len(toHost') : toHost'[i].by # "now"
    <3>1. CASE toBoard[1].text # "#" /\ buf' = toBoard[1] /\ UNCHANGED <<identified, toHost, unlocker, breach>>
      BY <2>2, <2>6, <3>1
    <3>2. CASE toBoard[1].text = "#" /\ buf # None /\ buf' = None /\ Handle(buf, toBoard[1])
      <4>1. /\ Len(toHost') = Len(toHost) + 1 /\ \A i \in 1 .. Len(toHost) : toHost'[i] = toHost[i]
            /\ toHost'[Len(toHost) + 1].by = buf.by
        <5>1. toBoard[1] \in Tokens /\ buf \in Tokens
          BY <3>2, BufFacts, TakeEffect DEF Types
        <5>2. QED
          BY <3>2, <5>1, HandleEffect DEF Types
      <4>2. \A i \in 1 .. Len(toHost') : i \in 1 .. Len(toHost) \/ i = Len(toHost) + 1
        BY <1>1, <4>1
      <4>3. QED
        BY <2>2, <3>2, <4>1, <4>2, Records
    <3>3. CASE UNCHANGED <<buf, identified, toHost, unlocker, breach>>
      BY <2>2, <3>3
    <3>4. QED
      BY <3>1, <3>2, <3>3, TakeEffect DEF Types
  <2>8. OnItsWay'
    BY <1>3, <1>4, <2>1, <2>3, <2>4, <2>5, <2>7 DEF OnItsWay
  <2>9. QED
    BY <2>8
<1>9. QED
  BY <1>5, <1>6, <1>7, <1>8

LEMMA SendLine ==
  ASSUME Types, Send, Leftovers(Ages)
  PROVE  Leftovers(Past)' /\ OnItsWay'
<1>1. PICK k \in 0 .. Len(toHost) :
        /\ Len(toHost') = Len(toHost) - k
        /\ \A i \in 1 .. Len(toHost) - k :
             /\ toHost'[i].kind = toHost[i + k].kind
             /\ toHost'[i].by = IF toHost[i + k].by = "now" THEN "before" ELSE toHost[i + k].by
  BY SendEffect DEF Types
<1>2. /\ Len(toBoard') = Len(toBoard) + 1
      /\ \A i \in 1 .. Len(toBoard) :
           /\ toBoard'[i].text = toBoard[i].text
           /\ toBoard'[i].by = IF toBoard[i].by = "now" THEN "before" ELSE toBoard[i].by
      /\ toBoard'[Len(toBoard) + 1] = Own
      /\ (buf' = None <=> buf = None) /\ buf'.text = buf.text
      /\ buf'.by = IF buf.by = "now" THEN "before" ELSE buf.by
  BY SendEffect DEF Types
<1>3. UNCHANGED <<pc, cmd>> /\ step' = "tail"
  BY DEF Send
<1>4. Own' = Own /\ Own.by = "now" /\ End' = End
  BY <1>3 DEF Own, End, Text
<1>5. /\ Len(toBoard) \in Nat /\ \A i \in 1 .. Len(toBoard) : toBoard[i].by \in Ages
      /\ Len(toHost) \in Nat /\ \A i \in 1 .. Len(toHost) : toHost[i].by \in Ages
      /\ buf.by \in Ages
  BY BufFacts, Records
<1>6. \A i \in 1 .. Len(toHost') : i + k \in 1 .. Len(toHost) /\ i \in 1 .. Len(toHost) - k
  BY <1>1, <1>5
<1>7. \A i \in 1 .. Len(toBoard') : i \in 1 .. Len(toBoard) \/ (i = Len(toBoard) + 1 /\ toBoard'[i].by = "now")
  BY <1>2, <1>4, <1>5
<1>8. Past = {"before", "other"} /\ Ages = {"now", "before", "other"}
  BY DEF Past, Ages
<1>9. AtMostOne(Ages) => AtMostOne(Past)'
  <2> SUFFICES ASSUME AtMostOne(Ages) PROVE AtMostOne(Past)'
    OBVIOUS
  <2>1. InHost(Past)' => InHost(Ages)
    BY <1>1, <1>5, <1>6 DEF InHost
  <2>2. InBoard(Past)' => InBoard(Ages)
    BY <1>2, <1>5, <1>7, <1>8 DEF InBoard
  <2>3. InBuf(Past)' => InBuf(Ages)
    BY <1>2, <1>5 DEF InBuf
  <2>4. ASSUME NEW i \in 1 .. Len(toHost'), NEW j \in 1 .. Len(toHost')
        PROVE  i = j
    <3>1. i + k = j + k
      BY <1>5, <1>6 DEF AtMostOne
    <3>2. QED
      BY <1>5, <3>1
  <2>5. ASSUME NEW i \in 1 .. Len(toBoard'), NEW j \in 1 .. Len(toBoard'),
               toBoard'[i].by \in Past, toBoard'[j].by \in Past,
               toBoard'[i].text # "#", toBoard'[j].text # "#"
        PROVE  i = j
    BY <1>2, <1>5, <1>7, <1>8, <2>5 DEF AtMostOne
  <2>6. QED
    BY <2>1, <2>2, <2>3, <2>4, <2>5 DEF AtMostOne
<1>10. PingsOnly(Ages) => PingsOnly(Past)'
  <2> SUFFICES ASSUME PingsOnly(Ages) PROVE PingsOnly(Past)'
    OBVIOUS
  <2>1. \A i \in 1 .. Len(toHost') : toHost'[i].kind = "OK"
    BY <1>1, <1>5, <1>6 DEF PingsOnly
  <2>2. \A i \in 1 .. Len(toBoard') : toBoard'[i].by \in Past => toBoard'[i].text \in {"ping", "#"}
    BY <1>2, <1>5, <1>7, <1>8 DEF PingsOnly
  <2>3. buf' # None => buf'.text = "ping"
    BY <1>2, <1>5 DEF PingsOnly
  <2>4. QED
    BY <2>1, <2>2, <2>3 DEF PingsOnly
<1>11. Nothing(Ages) => Nothing(Past)'
  <2> SUFFICES ASSUME Nothing(Ages) PROVE Nothing(Past)'
    OBVIOUS
  <2>1. \A i \in 1 .. Len(toHost') : FALSE
    BY <1>5, <1>6 DEF Nothing
  <2>2. \A i \in 1 .. Len(toBoard') : toBoard'[i].by \notin Past
    BY <1>5, <1>7, <1>8 DEF Nothing
  <2>3. buf' = None
    BY <1>2, <1>5 DEF Nothing
  <2>4. QED
    BY <2>1, <2>2, <2>3 DEF Nothing
<1>12. Leftovers(Past)'
  BY <1>3, <1>9, <1>10, <1>11 DEF Leftovers
<1>13. OnItsWay'
  <2>1. OwnPlace' = Len(toBoard) + 1
    BY <1>2, <1>3 DEF OwnPlace
  <2>2. \A i \in 1 .. Len(toBoard) : toBoard'[i].by # "now"
    BY <1>2
  <2>3. \A i \in 1 .. Len(toHost') : toHost'[i].by # "now"
    BY <1>1, <1>6
  <2>4. buf'.by # "now"
    BY <1>2
  <2>5. OwnPlace' > 0 /\ toBoard'[OwnPlace'] = Own' /\ OwnPlace' - 1 = Len(toBoard)
    BY <1>2, <1>4, <1>5, <2>1
  <2>6. QED
    BY <1>3, <2>2, <2>3, <2>4, <2>5 DEF OnItsWay
<1>14. QED
  BY <1>12, <1>13

LEMMA SendTailLine ==
  ASSUME Types, SendTail, Leftovers(Past), OnItsWay \/ Begun
  PROVE  Leftovers(Past)' /\ (OnItsWay' \/ Begun')
<1>1. /\ Len(toBoard) \in Nat /\ Len(toBoard') = Len(toBoard) + 1
      /\ \A i \in 1 .. Len(toBoard) : toBoard'[i] = toBoard[i]
      /\ toBoard'[Len(toBoard) + 1] = End
  BY SendTailEffect, BufFacts DEF Types
<1>2. UNCHANGED <<toHost, buf, pc, cmd>> /\ step = "tail" /\ step' = "wait"
  BY DEF SendTail, boardVars
<1>3. Own' = Own /\ End' = End /\ End.by = "now" /\ End.text = "#"
  BY <1>2 DEF Own, End, Text
<1>4. \A i \in 1 .. Len(toBoard') : i \in 1 .. Len(toBoard) \/ (i = Len(toBoard) + 1 /\ toBoard'[i] = End)
  BY <1>1
<1>5. "now" \notin Past
  BY DEF Past
<1>6. AtMostOne(Past) => AtMostOne(Past)'
  <2>1. InBoard(Past)' => InBoard(Past)
    BY <1>1, <1>3, <1>4, <1>5 DEF InBoard
  <2>2. (InHost(Past)' <=> InHost(Past)) /\ (InBuf(Past)' <=> InBuf(Past))
    BY <1>2 DEF InHost, InBuf
  <2>3. AtMostOne(Past) => \A i, j \in 1 .. Len(toBoard') :
          toBoard'[i].by \in Past /\ toBoard'[j].by \in Past /\ toBoard'[i].text # "#" /\ toBoard'[j].text # "#" => i = j
    BY <1>1, <1>3, <1>4, <1>5 DEF AtMostOne
  <2>4. QED
    BY <1>2, <2>1, <2>2, <2>3 DEF AtMostOne
<1>7. PingsOnly(Past) => PingsOnly(Past)'
  BY <1>1, <1>2, <1>3, <1>4 DEF PingsOnly
<1>8. Nothing(Past) => Nothing(Past)'
  BY <1>1, <1>2, <1>3, <1>4, <1>5 DEF Nothing
<1>9. Leftovers(Past)'
  BY <1>2, <1>6, <1>7, <1>8 DEF Leftovers
<1>10. CASE OnItsWay
  <2>1. OwnPlace = Len(toBoard) /\ OwnPlace' = Len(toBoard') - 1
    BY <1>2 DEF OwnPlace
  <2>2. OwnPlace' = OwnPlace /\ OwnPlace > 0 /\ OwnPlace \in 1 .. Len(toBoard) /\ OwnPlace + 1 = Len(toBoard) + 1
    BY <1>1, <1>10, <2>1 DEF OnItsWay
  <2>3. \A i \in 1 .. OwnPlace - 1 : i \in 1 .. Len(toBoard)
    BY <1>1, <2>1
  <2>4. /\ OwnPlace' > 0 /\ toBoard'[OwnPlace'] = Own' /\ toBoard'[OwnPlace' + 1] = End'
        /\ \A i \in 1 .. OwnPlace' - 1 : toBoard'[i].by # "now"
    BY <1>1, <1>3, <1>10, <2>2, <2>3 DEF OnItsWay
  <2>5. QED
    BY <1>2, <1>9, <1>10, <2>4 DEF OnItsWay
<1>11. CASE Begun
  <2>1. Len(toBoard) = 0
    BY <1>2, <1>11 DEF Begun
  <2>2. Len(toBoard') = 1 /\ toBoard'[1] = End
    BY <1>1, <2>1
  <2>3. Begun'
    BY <1>2, <1>3, <1>11, <2>2 DEF Begun
  <2>4. QED
    BY <1>9, <2>3
<1>12. QED
  BY <1>10, <1>11

\* The line read is the answer to the driver's own command - unless that is a ping, or follows one that was not yet answered.
LEMMA ReadWhose ==
  ASSUME Types, step = "wait", Leftovers(Past), OnItsWay \/ Begun \/ Answered, Len(toHost) > 0
  PROVE  \/ /\ Answered /\ Len(toHost) = 1
         \/ /\ toHost[1].by \in Past /\ pc \in {"ping", "identify"}
            /\ pc = "identify" => toHost[1].kind = "OK"
            /\ IF Answered THEN Len(toHost) = 2 ELSE Len(toHost) = 1
<1>1. /\ Len(toHost) \in Nat /\ 1 \in 1 .. Len(toHost)
      /\ \A i \in 1 .. Len(toHost) : toHost[i].by \in Ages
  BY BufFacts, Records
<1>2. \A i \in 1 .. Len(toHost) : toHost[i].by # "now" => toHost[i].by \in Past
  BY <1>1 DEF Ages, Past
<1>3. toHost[1].by \in Past => /\ pc \in {"ping", "identify"}
                               /\ pc = "identify" => toHost[1].kind = "OK"
                               /\ \A i, j \in 1 .. Len(toHost) : toHost[i].by \in Past /\ toHost[j].by \in Past => i = j
  BY <1>1 DEF Leftovers, AtMostOne, PingsOnly, Nothing, Types, DriverTypes
<1>4. CASE Answered
  <2>1. toHost[Len(toHost)].by = "now" /\ \A i \in 1 .. Len(toHost) - 1 : toHost[i].by # "now"
    BY <1>4 DEF Answered
  <2>2. CASE Len(toHost) = 1
    BY <1>4, <2>2
  <2>3. CASE Len(toHost) > 1
    <3>1. 1 \in 1 .. Len(toHost) - 1
      BY <1>1, <2>3
    <3>2. toHost[1].by \in Past
      BY <1>1, <1>2, <2>1, <3>1
    <3>3. Len(toHost) = 2
      <4>1. SUFFICES ASSUME Len(toHost) # 2 PROVE FALSE
        OBVIOUS
      <4>2. 2 \in 1 .. Len(toHost) - 1 /\ 2 \in 1 .. Len(toHost)
        <5>1. \A n \in Nat : n > 1 /\ n # 2 => 2 \in 1 .. n - 1 /\ 2 \in 1 .. n
          OBVIOUS
        <5>2. QED
          BY <1>1, <2>3, <4>1, <5>1
      <4>3. toHost[2].by \in Past
        BY <1>2, <2>1, <4>2
      <4>4. QED
        BY <1>1, <1>3, <3>2, <4>2, <4>3
    <3>4. QED
      BY <1>3, <1>4, <3>2, <3>3
  <2>4. Len(toHost) = 1 \/ Len(toHost) > 1
    <3>1. \A n \in Nat : n > 0 => n = 1 \/ n > 1
      OBVIOUS
    <3>2. QED
      BY <1>1, <3>1
  <2>5. QED
    BY <2>2, <2>3, <2>4
<1>5. CASE (OnItsWay \/ Begun) /\ ~Answered
  <2>1. \A i \in 1 .. Len(toHost) : toHost[i].by # "now"
    BY <1>5 DEF OnItsWay, Begun
  <2>2. \A i \in 1 .. Len(toHost) : toHost[i].by \in Past
    BY <1>2, <2>1
  <2>3. Len(toHost) = 1
    <3>1. SUFFICES ASSUME Len(toHost) # 1 PROVE FALSE
      OBVIOUS
    <3>2. 2 \in 1 .. Len(toHost)
      BY <1>1, <3>1
    <3>3. QED
      BY <1>1, <1>3, <2>2, <3>2
  <2>4. QED
    BY <1>1, <1>3, <1>5, <2>2, <2>3
<1>6. QED
  BY <1>4, <1>5

LEMMA ReadLine ==
  ASSUME Types, Read, Leftovers(Past), OnItsWay \/ Begun \/ Answered, prog' = "driver"
  PROVE  /\ Leftovers(Ages)' /\ step' = "send" /\ pc' = After(toHost[1].kind)
         /\ pc' \notin {"identify", "ping"} => Answered /\ Len(toHost) = 1
<1>1. /\ Len(toHost) > 0 /\ Len(toHost) \in Nat /\ toHost[1] \in Replies /\ step = "wait"
      /\ After(toHost[1].kind) # "close" /\ GoOn(After(toHost[1].kind))
      /\ Len(toHost') = Len(toHost) - 1
      /\ \A i \in 1 .. Len(toHost) - 1 : toHost'[i] = toHost[i + 1]
  <2>1. prog' # "none"
    OBVIOUS
  <2>2. QED
    BY <2>1, ReadEffect, BufFacts DEF Types
<1>2. pc' = After(toHost[1].kind) /\ step' = "send" /\ UNCHANGED <<toBoard, buf>>
  BY <1>1 DEF GoOn, Read, boardVars
<1>3. pc' \in {"ping", "identify", "status", "serve", "again", "repeat"}
  BY <1>1, <1>2, AfterPlaces DEF Places, Types
<1>4. CASE Answered /\ Len(toHost) = 1
  <2>1. Len(toHost') = 0 /\ Len(toBoard') = 0 /\ buf' = None
    BY <1>1, <1>2, <1>4 DEF Answered
  <2>2. AtMostOne(Ages)' /\ PingsOnly(Ages)' /\ Nothing(Ages)'
    BY <2>1 DEF AtMostOne, InHost, InBoard, InBuf, PingsOnly, Nothing
  <2>3. QED
    BY <1>2, <1>4, <2>2 DEF Leftovers
<1>5. CASE /\ toHost[1].by \in Past /\ pc \in {"ping", "identify"}
           /\ pc = "identify" => toHost[1].kind = "OK"
           /\ IF Answered THEN Len(toHost) = 2 ELSE Len(toHost) = 1
  <2>1. pc = "ping" /\ pc' \in {"ping", "identify"}
    BY <1>1, <1>2, <1>5 DEF After
  <2>2. AtMostOne(Past)
    BY <2>1 DEF Leftovers
  <2>3. SUFFICES AtMostOne(Ages)' /\ PingsOnly(Ages)'
    BY <1>2, <2>1 DEF Leftovers
  <2>4. CASE Answered
    <3>1. /\ Len(toHost') = 1 /\ toHost'[1].kind = "OK" /\ Len(toBoard') = 0 /\ buf' = None
      <4>1. Len(toHost') = 1 /\ toHost'[1] = toHost[2] /\ Len(toHost) = 2
        <5>1. Len(toHost) = 2
          BY <1>5, <2>4
        <5>2. 1 \in 1 .. Len(toHost) - 1
          BY <5>1
        <5>3. toHost'[1] = toHost[1 + 1]
          BY <1>1, <5>2
        <5>4. QED
          BY <1>1, <5>1, <5>3
      <4>2. QED
        BY <1>2, <2>1, <2>4, <4>1 DEF Answered
    <3>2. QED
      BY <3>1 DEF AtMostOne, InHost, InBoard, InBuf, PingsOnly
  <2>5. CASE ~Answered
    <3>1. Len(toHost') = 0 /\ InHost(Past)
      <4>1. Len(toHost) = 1
        BY <1>5, <2>5
      <4>2. QED
        BY <1>1, <1>5, <4>1 DEF InHost
    <3>2. ~InBoard(Past) /\ ~InBuf(Past)
      BY <2>2, <3>1 DEF AtMostOne
    <3>3. Ages = {"now"} \cup Past /\ Own.by = "now" /\ Own.text = "ping" /\ End.text = "#"
      BY <2>1 DEF Ages, Past, Own, End, Text
    <3>4. /\ Len(toBoard) \in Nat /\ \A i \in 1 .. Len(toBoard) : toBoard[i].by \in Ages
          /\ buf.by \in Ages
      BY BufFacts, Records
    <3>5. CASE OnItsWay
      <4> DEFINE k == OwnPlace
      <4>1. /\ k = Len(toBoard) - 1 /\ k > 0 /\ toBoard[k] = Own /\ toBoard[k + 1] = End
            /\ \A i \in 1 .. k - 1 : toBoard[i].by # "now"
            /\ buf.by # "now"
        BY <1>1, <3>5 DEF OnItsWay, OwnPlace
      <4> HIDE DEF k
      <4>2. buf = None
        BY <3>2, <3>3, <3>4, <4>1 DEF InBuf
      <4>3. \A i \in 1 .. Len(toBoard) : i \in 1 .. k - 1 \/ i = k \/ i = k + 1
        BY <3>4, <4>1
      <4>4. \A i \in 1 .. Len(toBoard) : toBoard[i].text # "#" => i = k
        BY <3>2, <3>3, <3>4, <4>1, <4>3 DEF InBoard
      <4>5. \A i \in 1 .. Len(toBoard) : toBoard[i].text \in {"ping", "#"}
        BY <3>3, <4>1, <4>4
      <4>6. QED
        BY <1>2, <3>1, <4>2, <4>4, <4>5 DEF AtMostOne, InHost, InBoard, InBuf, PingsOnly
    <3>6. CASE Begun
      <4>1. buf = Own /\ Len(toBoard) = 1 /\ toBoard[1] = End
        BY <1>1, <3>6 DEF Begun
      <4>2. QED
        BY <1>2, <3>1, <3>3, <4>1 DEF AtMostOne, InHost, InBoard, InBuf, PingsOnly
    <3>7. QED
      BY <2>5, <3>5, <3>6
  <2>6. QED
    BY <2>4, <2>5
<1>6. QED
  <2>1. \/ Answered /\ Len(toHost) = 1
        \/ /\ toHost[1].by \in Past /\ pc \in {"ping", "identify"}
           /\ pc = "identify" => toHost[1].kind = "OK"
           /\ IF Answered THEN Len(toHost) = 2 ELSE Len(toHost) = 1
    BY <1>1, ReadWhose
  <2>2. QED
    BY <1>4, <1>5, <2>1

LEMMA FreshNext ==
  ASSUME Types, Fresh, Next
  PROVE  Fresh'
<1>1. CASE StartPass \/ EndPass \/ Take \/ Stranger \/ Send \/ SendTail
  BY <1>1 DEF StartPass, EndPass, Take, Stranger, Send, SendTail, driverVars, Fresh
<1>2. CASE Reset \/ Close
  BY <1>2 DEF Reset, Close, CloseAs, Fresh
<1>3. ASSUME NEW p, Open(p)
      PROVE  Fresh'
  BY <1>3 DEF Open, driverVars, Fresh
<1>4. CASE Read
  <2>1. prog' # "driver" => Quiet'
    BY <1>4, ReadEffect DEF Types, GoOn
  <2>2. QED
    BY <2>1 DEF Quiet, Fresh
<1>5. CASE Timeout
  <2>1. prog' # "driver" => Quiet'
    BY <1>5, TimeoutEffect
  <2>2. QED
    BY <2>1 DEF Quiet, Fresh
<1>6. QED
  BY <1>1, <1>2, <1>3, <1>4, <1>5 DEF Next

LEMMA PassKeepsLine ==
  ASSUME UNCHANGED <<buf, toBoard, toHost, prog, dirty, driverVars>>
  PROVE  /\ InStep' = InStep /\ (Line => Line') /\ (Answered' <=> Answered)
BY DEF driverVars, InStep, Line, Leftovers, AtMostOne, PingsOnly, Nothing, InHost, InBoard, InBuf,
       OnItsWay, OwnPlace, Begun, Answered, Own, End, Text

LEMMA LineNext ==
  ASSUME Types, Fresh, Line, Next
  PROVE  Line'
<1> SUFFICES ASSUME InStep' PROVE Line'
  BY DEF Line
<1>1. prog' = "driver" /\ ~dirty'
  BY DEF InStep
<1>2. CASE StartPass \/ EndPass
  BY <1>2, PassKeepsLine DEF StartPass, EndPass, pastVars
<1>3. CASE Take
  <2>1. UNCHANGED <<prog, dirty, step>>
    BY <1>3 DEF Take, driverVars
  <2>2. CASE step = "send"
    BY <1>1, <1>3, <2>1, <2>2, TakeLeftovers DEF Line, InStep
  <2>3. CASE step # "send"
    <3>1. Leftovers(Past) /\ (OnItsWay \/ Begun \/ Answered) /\ step \in {"tail", "wait"}
      BY <1>1, <2>1, <2>3 DEF Line, InStep, Types, DriverTypes
    <3>2. Leftovers(Past)'
      BY <1>3, <3>1, TakeLeftovers
    <3>3. OnItsWay' \/ Begun' \/ Answered'
      BY <1>3, <3>1, TakeOwn
    <3>4. QED
      BY <2>1, <2>3, <3>2, <3>3 DEF Line
  <2>4. QED
    BY <2>2, <2>3
<1>4. CASE Reset \/ Close
  BY <1>1, <1>4 DEF Reset, Close, CloseAs
<1>5. ASSUME NEW p, Open(p)
      PROVE  Line'
  <2>1. ~(UnderWay > 1)
    BY <1>1, <1>5 DEF Open
  <2>2. AtMostOne(Ages)'
    BY <1>5, <2>1, OneUnderWay, OpenLeftovers
  <2>3. pc' = "ping" /\ step' = "send"
    BY <1>5 DEF Open, driverVars, Fresh
  <2>4. QED
    BY <2>2, <2>3 DEF Line, Leftovers
<1>6. CASE Stranger
  BY <1>1, <1>6 DEF Stranger
<1>7. CASE Send
  <2>1. Leftovers(Ages) /\ step' = "tail"
    BY <1>1, <1>7 DEF Send, pastVars, Line, InStep
  <2>2. QED
    BY <1>7, <2>1, SendLine DEF Line
<1>8. CASE SendTail
  <2>1. Leftovers(Past) /\ (OnItsWay \/ Begun) /\ step' = "wait"
    BY <1>1, <1>8 DEF SendTail, pastVars, Line, InStep, Answered
  <2>2. QED
    BY <1>8, <2>1, SendTailLine DEF Line
<1>9. CASE Read
  <2>1. Leftovers(Past) /\ (OnItsWay \/ Begun \/ Answered)
    BY <1>1, <1>9 DEF Read, Line, InStep
  <2>2. Leftovers(Ages)' /\ step' = "send"
    BY <1>1, <1>9, <2>1, ReadLine
  <2>3. QED
    BY <2>2 DEF Line
<1>10. CASE Timeout
  BY <1>1, <1>10, TimeoutEffect
<1>11. QED
  BY <1>2, <1>3, <1>4, <1>5, <1>6, <1>7, <1>8, <1>9, <1>10 DEF Next

-----------------------------------------------------------------------------
(***************************************************************************)
(* A driver that was refused identifies, and is not refused again.         *)
(***************************************************************************)
LEMMA UnlockedNext ==
  ASSUME Types, Fresh, Line, Unlocked, Next
  PROVE  Unlocked'
<1> SUFFICES ASSUME InStep' PROVE Unlocked'
  BY DEF Unlocked
<1>1. prog' = "driver" /\ ~dirty'
  BY DEF InStep
<1>2. CASE StartPass \/ EndPass
  <2>1. InStep /\ (Answered' <=> Answered) /\ UNCHANGED <<pc, toHost>>
    BY <1>2, PassKeepsLine DEF StartPass, EndPass, pastVars, driverVars
  <2>2. CASE StartPass
    <3>1. ~usbPortOpened' /\ (~usbPortOpened => (identified => identified'))
      BY <2>2 DEF StartPass, Locks
    <3>2. QED
      BY <2>1, <3>1 DEF Unlocked
  <2>3. CASE EndPass
    <3>1. UNCHANGED <<usbPortOpened, identified>>
      BY <2>3 DEF EndPass
    <3>2. QED
      BY <2>1, <3>1 DEF Unlocked
  <2>4. QED
    BY <1>2, <2>2, <2>3
<1>3. CASE Take
  <2>1. UNCHANGED <<usbPortOpened, prog, dirty, step, pc, cmd>> /\ InStep
    BY <1>1, <1>3 DEF Take, driverVars, InStep
  <2>2. identified => identified'
    <3>1. CASE UNCHANGED identified
      BY <3>1
    <3>2. CASE toBoard[1].text = "#" /\ buf # None /\ Handle(buf, toBoard[1])
      BY <3>2 DEF Handle
    <3>3. QED
      BY <1>3, <3>1, <3>2, TakeEffect DEF Types
  <2>3. ASSUME Answered'
        PROVE  /\ pc \in {"identify", "again"} => identified'
               /\ toHost'[Len(toHost')].kind = "ERR16" => ~identified
    <3>1. step = "wait"
      BY <2>1, <2>3 DEF Answered
    <3>2. OnItsWay \/ Begun \/ Answered
      BY <2>1, <3>1 DEF Line
    <3>3. Types'
      BY NextTypes
    <3>4. ~(OnItsWay' \/ Begun')
      BY <2>3, <3>3, OneStage, PTL
    <3>5. Handle(Own, End)
      BY <1>3, <3>1, <3>2, <3>4, TakeOwn
    <3>6. Own \in Tokens /\ End \in Tokens /\ (pc \in {"identify", "again"} => Own.text = "ident")
      BY TextIsText DEF Own, End, Text, Tokens, Ages, Types
    <3>7. /\ Len(toHost') = Len(toHost) + 1
          /\ toHost'[Len(toHost) + 1].kind = "ERR16" => ~identified
          /\ Own.text = "ident" => identified'
      BY <3>5, <3>6, HandleEffect DEF Types
    <3>8. QED
      BY <3>6, <3>7
  <2>4. Answered' => /\ pc \in {"identify", "again"} => identified'
                     /\ toHost'[Len(toHost')].kind = "ERR16" => ~identified
    BY <2>3
  <2>5. ~Answered
    <3>1. Len(toBoard) > 0
      BY <1>3, TakeEffect DEF Types
    <3>2. QED
      BY <3>1 DEF Answered
  <2>6. pc' \in {"status", "serve"} \/ (pc' = "identify" /\ Answered') => (usbPortOpened' => identified')
    BY <2>1, <2>2, <2>4 DEF Unlocked
  <2>7. pc' = "serve" /\ Answered' /\ toHost'[Len(toHost')].kind = "ERR16" => ~usbPortOpened'
    BY <2>1, <2>4 DEF Unlocked
  <2>8. pc' \in {"again", "repeat"} => ~usbPortOpened'
    BY <2>1 DEF Unlocked
  <2>9. (pc' = "again" /\ Answered') \/ pc' = "repeat" => identified'
    BY <2>1, <2>2, <2>4 DEF Unlocked
  <2>10. pc' = "repeat" /\ Answered' => toHost'[Len(toHost')].kind # "ERR16"
    BY <2>1, <2>4 DEF Unlocked
  <2>11. QED
    BY <2>6, <2>7, <2>8, <2>9, <2>10 DEF Unlocked
<1>4. CASE Reset \/ Close
  BY <1>1, <1>4 DEF Reset, Close, CloseAs
<1>5. CASE Send \/ SendTail
  <2>1. ~Answered'
    <3>1. CASE Send
      BY <3>1 DEF Send, Answered
    <3>2. CASE SendTail
      BY <3>2, SendTailEffect, BufFacts DEF Types, Answered
    <3>3. QED
      BY <1>5, <3>1, <3>2
  <2>2. UNCHANGED <<usbPortOpened, identified, pc>> /\ InStep
    BY <1>1, <1>5 DEF Send, SendTail, boardVars, pastVars, InStep
  <2>3. QED
    BY <2>1, <2>2 DEF Unlocked
<1>6. CASE Stranger
  BY <1>1, <1>6 DEF Stranger
<1>7. CASE Read
  <2>1. InStep /\ Leftovers(Past) /\ (OnItsWay \/ Begun \/ Answered) /\ UNCHANGED <<usbPortOpened, identified>>
    BY <1>1, <1>7 DEF Read, Line, InStep, boardVars
  <2>2. /\ step' = "send" /\ pc' = After(toHost[1].kind)
        /\ pc' \notin {"identify", "ping"} => Answered /\ Len(toHost) = 1
    BY <1>1, <1>7, <2>1, ReadLine
  <2>3. ~Answered'
    BY <2>2 DEF Answered
  <2>4. CASE pc' \in {"identify", "ping"}
    BY <2>3, <2>4 DEF Unlocked
  <2>5. CASE pc' \notin {"identify", "ping"}
    <3>1. Answered /\ toHost[Len(toHost)] = toHost[1]
      BY <2>2, <2>5
    <3>2. /\ pc' = "status" => pc = "identify"
          /\ pc' = "serve" => pc \in {"status", "serve", "repeat"}
          /\ pc' = "again" => pc = "serve" /\ toHost[1].kind = "ERR16"
          /\ pc' = "repeat" => pc = "again"
      BY <2>2 DEF After, Types, DriverTypes
    <3>3. QED
      BY <2>1, <2>3, <2>5, <3>1, <3>2 DEF Unlocked
  <2>6. QED
    BY <2>4, <2>5
<1>8. CASE Timeout
  BY <1>1, <1>8, TimeoutEffect
<1>9. ASSUME NEW p, Open(p)
      PROVE  Unlocked'
  BY <1>9 DEF Open, driverVars, Fresh, Unlocked
<1>10. QED
  BY <1>2, <1>3, <1>4, <1>5, <1>6, <1>7, <1>8, <1>9 DEF Next

LEMMA RefusedNext ==
  ASSUME Types, Line, Unlocked, ~refused, Next
  PROVE  ~refused'
<1>1. CASE Read
  <2>1. SUFFICES ASSUME pc = "repeat", toHost[1].kind = "ERR16", ~dirty PROVE FALSE
    BY <1>1, ReadEffect DEF Types
  <2>2. InStep /\ step = "wait" /\ Len(toHost) > 0
    BY <1>1, <2>1, ReadEffect DEF Types, InStep
  <2>3. Leftovers(Past) /\ (OnItsWay \/ Begun \/ Answered)
    BY <2>2 DEF Line
  <2>4. Answered /\ Len(toHost) = 1
    BY <2>1, <2>2, <2>3, ReadWhose
  <2>5. QED
    BY <2>1, <2>2, <2>4 DEF Unlocked
<1>2. CASE ~Read
  <2>1. refused' = refused
    <3>1. CASE Timeout
      BY <3>1, TimeoutEffect
    <3>2. ASSUME NEW p, Open(p)
          PROVE  refused' = refused
      BY <3>2 DEF Open
    <3>3. CASE StartPass \/ EndPass \/ Take \/ Stranger \/ Send \/ SendTail \/ Reset \/ Close
      BY <3>3 DEF StartPass, EndPass, Take, Stranger, Send, SendTail, Reset, Close, pastVars
    <3>4. QED
      BY <1>2, <3>1, <3>2, <3>3 DEF Next
  <2>2. QED
    BY <2>1
<1>3. QED
  BY <1>1, <1>2

LEMMA InvInit ==
  ASSUME Init
  PROVE  LinkInv
<1>1. Types /\ OthersFirst /\ Gate /\ ~breach
  BY InitTypes, InitGate
<1>2. Fresh /\ Line /\ Unlocked /\ ~refused
  BY DEF Init, Quiet, Fresh, Line, Unlocked, InStep
<1>3. QED
  BY <1>1, <1>2 DEF LinkInv

LEMMA InvNext ==
  ASSUME LinkInv, [Next]_vars
  PROVE  LinkInv'
<1>1. CASE Next
  BY <1>1, NextTypes, OthersFirstNext, GateNext, FreshNext, LineNext, UnlockedNext, RefusedNext DEF LinkInv
<1>2. CASE UNCHANGED vars
  <2>1. Types'
    BY <1>2 DEF vars, boardVars, driverVars, pastVars, LinkInv, Types, BoardTypes, LineTypes, DriverTypes, PastTypes
  <2>2. OthersFirst' /\ Gate' /\ ~breach' /\ Fresh' /\ ~refused'
    BY <1>2 DEF vars, boardVars, driverVars, pastVars, LinkInv, OthersFirst, Gate, Fresh
  <2>3. Line' /\ (Answered' <=> Answered) /\ (InStep' <=> InStep)
    BY <1>2, PassKeepsLine DEF vars, boardVars, driverVars, pastVars, LinkInv
  <2>4. Unlocked'
    BY <1>2, <2>3 DEF vars, boardVars, driverVars, LinkInv, Unlocked
  <2>5. QED
    BY <2>1, <2>2, <2>3, <2>4 DEF LinkInv
<1>3. QED
  BY <1>1, <1>2

\* A driver in service that has missed no reply has nobody else's tokens or replies before it: what the program
\* before left is thrown away by the handshake, for any bound on the line.
LEMMA LineIsClean ==
  ASSUME LinkInv
  PROVE  CleanLine
<1> SUFFICES ASSUME prog = "driver", pc = "serve", ~dirty
    PROVE  /\ \A i \in DOMAIN toHost : toHost[i].by = "now" /\ step = "wait"
           /\ \A i \in DOMAIN toBoard : toBoard[i].by = "now" /\ step # "send"
  BY DEF CleanLine
<1>1. /\ DOMAIN toBoard = 1 .. Len(toBoard) /\ DOMAIN toHost = 1 .. Len(toHost)
      /\ \A i \in 1 .. Len(toBoard) : toBoard[i].by \in {"now", "before", "other"}
      /\ \A i \in 1 .. Len(toHost) : toHost[i].by \in {"now", "before", "other"}
      /\ step \in {"send", "tail", "wait"}
  BY BufFacts, Records, LenProperties DEF LinkInv, Types, LineTypes, DriverTypes, Ages
<1>2. CASE step = "send"
  <2>1. Nothing(Ages)
    BY <1>2 DEF LinkInv, Line, InStep, Leftovers
  <2>2. QED
    BY <1>1, <2>1 DEF Nothing, Ages
<1>3. CASE step # "send"
  <2>1. Nothing(Past) /\ (OnItsWay \/ Begun \/ Answered)
    BY <1>3 DEF LinkInv, Line, InStep, Leftovers
  <2>2. /\ \A i \in 1 .. Len(toBoard) : toBoard[i].by = "now"
        /\ \A i \in 1 .. Len(toHost) : toHost[i].by = "now"
    BY <1>1, <2>1 DEF Nothing, Past
  <2>3. (OnItsWay \/ Begun) => \A i \in 1 .. Len(toHost) : FALSE
    BY <2>2 DEF OnItsWay, Begun
  <2>4. QED
    BY <1>1, <1>3, <2>1, <2>2, <2>3 DEF Answered
<1>4. QED
  BY <1>2, <1>3

\* In service, and with no reply missed, the driver reads the answers to its own commands (DeviceFinder.Identify(),
\* Execute()).
THEOREM CleanLineAlways == Spec => []CleanLine
<1>1. Init => LinkInv
  BY InvInit
<1>2. LinkInv /\ [Next]_vars => LinkInv'
  BY InvNext
<1>3. LinkInv => CleanLine
  BY LineIsClean
<1>4. QED
  BY <1>1, <1>2, <1>3, PTL DEF Spec

\* After ERR,16 the driver identifies and the command it repeats is not refused (TryConnect(), Send()).
THEOREM NotLockedOutAlways == Spec => []NotLockedOut
<1>1. Init => LinkInv
  BY InvInit
<1>2. LinkInv /\ [Next]_vars => LinkInv'
  BY InvNext
<1>3. LinkInv => NotLockedOut
  BY DEF LinkInv, NotLockedOut
<1>4. QED
  BY <1>1, <1>2, <1>3, PTL DEF Spec
===============================================================================
