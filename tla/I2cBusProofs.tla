------------------------------ MODULE I2cBusProofs ------------------------------
(***************************************************************************)
(* Proofs about what the firmware keeps on the I2C bus: the position ring  *)
(* for any axes, number of slots and width of the sequence number, the     *)
(* records for any values, the accelerometer for any settling time.        *)
(***************************************************************************)
EXTENDS MCI2cBus, Integers, TLAPS

-----------------------------------------------------------------------------
(***************************************************************************)
(* Counting around: sequence numbers and slots.                            *)
(***************************************************************************)
\* How far sequence number s is ahead of t.
Dist(s, t) == (s + SeqMod - t) % SeqMod

Seqs == 0 .. SeqMod - 1

Before(i) == IF i = 0 THEN Slots - 1 ELSE i - 1

\* Records written after the one in slot i, when the newest is in slot n.
Age(i, n) == IF i <= n THEN n - i ELSE n + Slots - i

\* No more sequence numbers than these are used up by so many records.
Reach(age) == age * MaxUnwritten

LEMMA Quotient ==
  ASSUME NEW m \in Nat \ {0}, NEW x \in Int
  PROVE  /\ x \div m \in Int /\ x % m \in Int
         /\ x = m * (x \div m) + (x % m) /\ 0 <= x % m /\ x % m < m
<1>1. x \div m \in Int
  OBVIOUS
<1>2. x % m \in Int /\ 0 <= x % m /\ x % m < m
  OBVIOUS
<1>3. x = m * (x \div m) + (x % m)
  OBVIOUS
<1>4. QED
  BY <1>1, <1>2, <1>3

LEMMA ModOnce ==
  ASSUME NEW m \in Nat \ {0}, NEW x \in 0 .. 2 * m - 1
  PROVE  x % m = IF x < m THEN x ELSE x - m
<1> DEFINE q == x \div m
           r == x % m
<1>1. x \in Int /\ 0 <= x /\ x < 2 * m
  OBVIOUS
<1>2. q \in Int /\ r \in Int /\ x = m * q + r /\ 0 <= r /\ r < m
  BY <1>1, Quotient
<1>3. SUFFICES r = IF x < m THEN x ELSE x - m
  OBVIOUS
<1> HIDE DEF q, r
<1>4. q < 2
  <2>1. SUFFICES ASSUME q >= 2 PROVE FALSE
    BY <1>2
  <2>2. m * (q - 2) >= 0 /\ m * (q - 2) = m * q - 2 * m
    BY <1>2, <2>1
  <2> DEFINE p == m * q
  <2>3. p \in Int /\ p - 2 * m >= 0 /\ x = p + r
    BY <1>2, <2>2
  <2> HIDE DEF p
  <2>4. QED
    BY <1>1, <1>2, <2>3
<1>5. q > -1
  <2>1. SUFFICES ASSUME q <= -1 PROVE FALSE
    BY <1>2
  <2>2. m * (-1 - q) >= 0 /\ m * (-1 - q) = -m - m * q
    BY <1>2, <2>1
  <2> DEFINE p == m * q
  <2>3. p \in Int /\ -m - p >= 0 /\ x = p + r
    BY <1>2, <2>2
  <2> HIDE DEF p
  <2>4. QED
    BY <1>1, <1>2, <2>3
<1>6. q = 0 \/ q = 1
  BY <1>2, <1>4, <1>5
<1>7. CASE q = 0
  BY <1>1, <1>2, <1>7
<1>8. CASE q = 1
  BY <1>1, <1>2, <1>8
<1>9. QED
  BY <1>6, <1>7, <1>8

\* The numbers do not meet while the slots are written around.
LEMMA Sizes ==
  /\ SeqMod \in Nat \ {0} /\ Slots \in Nat /\ Slots >= 2 /\ MaxUnwritten \in Nat \ {0}
  /\ \A age \in 0 .. Slots : Reach(age) \in Nat /\ Reach(age) + MaxUnwritten = Reach(age + 1)
  /\ \A age \in 0 .. Slots - 1 : Reach(age) + MaxUnwritten <= SeqMod \div 2 - 1
  /\ SeqMod \div 2 \in Nat /\ 2 * (SeqMod \div 2) <= SeqMod
<1>1. SeqMod \in Nat /\ Slots \in Nat /\ Slots >= 2 /\ MaxUnwritten \in Nat \ {0}
      /\ SeqMod > 2 * (Slots + 1) * MaxUnwritten
  BY SeqAssumption, RingAssumption
<1> DEFINE whole == (Slots + 1) * MaxUnwritten
<1>2. whole \in Nat /\ SeqMod > 2 * whole
  BY <1>1
<1>3. \A age \in 0 .. Slots : Reach(age) \in Nat /\ Reach(age) + MaxUnwritten = Reach(age + 1)
  BY <1>1 DEF Reach
<1>4. ASSUME NEW age \in 0 .. Slots - 1
      PROVE  Reach(age) + MaxUnwritten + 1 <= whole
  <2>1. (Slots - 1 - age) * MaxUnwritten >= 0
    BY <1>1
  <2>2. whole - (Reach(age) + MaxUnwritten) = (Slots - 1 - age) * MaxUnwritten + MaxUnwritten
    BY <1>1 DEF Reach
  <2>3. Reach(age) \in Nat /\ (Slots - 1 - age) * MaxUnwritten \in Int
    BY <1>1, <1>3
  <2> HIDE DEF whole
  <2>4. QED
    BY <1>1, <1>2, <2>1, <2>2, <2>3
<1> HIDE DEF whole
<1>5. SeqMod \div 2 \in Nat /\ 2 * (SeqMod \div 2) <= SeqMod /\ whole <= SeqMod \div 2
  BY <1>1, <1>2
<1>6. SeqMod # 0
  BY <1>1, <1>2
<1>7. ASSUME NEW age \in 0 .. Slots - 1
      PROVE  Reach(age) + MaxUnwritten <= SeqMod \div 2 - 1
  <2>1. Reach(age) \in Nat
    BY <1>1, <1>3
  <2>2. QED
    BY <1>1, <1>2, <1>4, <1>5, <2>1
<1>8. QED
  BY <1>1, <1>3, <1>5, <1>6, <1>7

LEMMA DistIs ==
  ASSUME NEW s \in Seqs, NEW t \in Seqs
  PROVE  Dist(s, t) \in Seqs /\ Dist(s, t) = IF s >= t THEN s - t ELSE s + SeqMod - t
<1>1. SeqMod \in Nat \ {0} /\ s \in 0 .. SeqMod - 1 /\ t \in 0 .. SeqMod - 1
  BY Sizes DEF Seqs
<1> DEFINE x == s + SeqMod - t
<1>2. x \in 0 .. 2 * SeqMod - 1
  BY <1>1
<1> HIDE DEF x
<1>3. x % SeqMod = IF x < SeqMod THEN x ELSE x - SeqMod
  BY <1>1, <1>2, ModOnce
<1>4. QED
  BY <1>1, <1>2, <1>3 DEF x, Dist, Seqs

LEMMA NextSeqIs ==
  ASSUME NEW s \in Seqs
  PROVE  NextSeq(s) \in Seqs /\ NextSeq(s) = IF s = SeqMod - 1 THEN 0 ELSE s + 1
<1>1. SeqMod \in Nat \ {0} /\ s \in 0 .. SeqMod - 1
  BY Sizes DEF Seqs
<1> DEFINE x == s + 1
<1>2. x \in 0 .. 2 * SeqMod - 1
  BY <1>1
<1> HIDE DEF x
<1>3. x % SeqMod = IF x < SeqMod THEN x ELSE x - SeqMod
  BY <1>1, <1>2, ModOnce
<1>4. QED
  BY <1>1, <1>2, <1>3 DEF x, NextSeq, Seqs

LEMMA DistNext ==
  ASSUME NEW s \in Seqs, NEW t \in Seqs, Dist(s, t) + 1 < SeqMod
  PROVE  Dist(NextSeq(s), t) = Dist(s, t) + 1
<1>1. SeqMod \in Nat \ {0} /\ s \in 0 .. SeqMod - 1 /\ t \in 0 .. SeqMod - 1
  BY Sizes DEF Seqs
<1>2. NextSeq(s) \in Seqs /\ NextSeq(s) = IF s = SeqMod - 1 THEN 0 ELSE s + 1
  BY NextSeqIs
<1>3. Dist(s, t) = IF s >= t THEN s - t ELSE s + SeqMod - t
  BY DistIs
<1>4. Dist(NextSeq(s), t) = IF NextSeq(s) >= t THEN NextSeq(s) - t ELSE NextSeq(s) + SeqMod - t
  BY <1>2, DistIs
<1>5. QED
  BY <1>1, <1>2, <1>3, <1>4

LEMMA DistAdd ==
  ASSUME NEW s \in Seqs, NEW t \in Seqs, NEW u \in Seqs, Dist(u, s) + Dist(s, t) < SeqMod
  PROVE  Dist(u, t) = Dist(u, s) + Dist(s, t)
<1>1. SeqMod \in Nat \ {0} /\ s \in 0 .. SeqMod - 1 /\ t \in 0 .. SeqMod - 1 /\ u \in 0 .. SeqMod - 1
  BY Sizes DEF Seqs
<1>2. /\ Dist(u, s) = IF u >= s THEN u - s ELSE u + SeqMod - s
      /\ Dist(s, t) = IF s >= t THEN s - t ELSE s + SeqMod - t
      /\ Dist(u, t) = IF u >= t THEN u - t ELSE u + SeqMod - t
  BY DistIs
<1>3. QED
  BY <1>1, <1>2

LEMMA DistSelf ==
  ASSUME NEW s \in Seqs
  PROVE  Dist(s, s) = 0
BY DistIs, Sizes DEF Seqs

\* A record less than half a turn ahead is newer, and the other is not.
LEMMA NearIsAhead ==
  ASSUME NEW s \in Seqs, NEW t \in Seqs, Dist(s, t) \in 1 .. SeqMod \div 2 - 1
  PROVE  Ahead(s, t) /\ ~Ahead(t, s) /\ s # t
<1>1. SeqMod \in Nat \ {0} /\ s \in 0 .. SeqMod - 1 /\ t \in 0 .. SeqMod - 1
      /\ SeqMod \div 2 \in Nat /\ 2 * (SeqMod \div 2) <= SeqMod
  BY Sizes DEF Seqs
<1>2. /\ Dist(s, t) = IF s >= t THEN s - t ELSE s + SeqMod - t
      /\ Dist(t, s) = IF t >= s THEN t - s ELSE t + SeqMod - s
  BY DistIs
<1>3. s # t /\ Dist(t, s) = SeqMod - Dist(s, t)
  BY <1>1, <1>2
<1>4. Dist(t, s) \notin 1 .. SeqMod \div 2 - 1
  BY <1>1, <1>3
<1>5. QED
  BY <1>3, <1>4 DEF Ahead, Dist

LEMMA AfterIs ==
  ASSUME NEW i \in Index
  PROVE  /\ After(i) \in Index /\ Before(i) \in Index
         /\ After(i) = IF i = Slots - 1 THEN 0 ELSE i + 1
         /\ Before(After(i)) = i /\ After(Before(i)) = i /\ After(i) # i
<1>1. Slots \in Nat /\ Slots >= 2 /\ Slots \in Nat \ {0} /\ i \in 0 .. Slots - 1
  BY Sizes DEF Index
<1>2. \A j \in 0 .. Slots - 1 : After(j) = IF j = Slots - 1 THEN 0 ELSE j + 1
  <2> TAKE j \in 0 .. Slots - 1
  <2> DEFINE x == j + 1
  <2>1. x \in 0 .. 2 * Slots - 1
    BY <1>1
  <2> HIDE DEF x
  <2>2. x % Slots = IF x < Slots THEN x ELSE x - Slots
    BY <1>1, <2>1, ModOnce
  <2>3. QED
    BY <1>1, <2>1, <2>2 DEF x, After
<1>3. Before(i) \in 0 .. Slots - 1
  BY <1>1 DEF Before
<1>4. After(Before(i)) = i
  BY <1>1, <1>2, <1>3 DEF Before
<1>5. After(i) \in 0 .. Slots - 1 /\ After(i) # i /\ Before(After(i)) = i
  BY <1>1, <1>2 DEF Before
<1>6. QED
  BY <1>1, <1>2, <1>3, <1>4, <1>5 DEF Index

LEMMA AgeIs ==
  ASSUME NEW i \in Index, NEW n \in Index
  PROVE  /\ Age(i, n) \in 0 .. Slots - 1
         /\ i # After(n) => Age(i, After(n)) = Age(i, n) + 1
         /\ Age(n, n) = 0
<1>1. Slots \in Nat /\ Slots >= 2 /\ i \in 0 .. Slots - 1 /\ n \in 0 .. Slots - 1
      /\ After(n) = IF n = Slots - 1 THEN 0 ELSE n + 1
  BY Sizes, AfterIs DEF Index
<1>2. QED
  BY <1>1 DEF Age

-----------------------------------------------------------------------------
(***************************************************************************)
(* The ring.                                                               *)
(***************************************************************************)
Rings == [Index -> PosSlot \cup {Torn}]

\* Slot n holds the newest record of ring r, if there is any, and it is ahead of every other one by what the slots
\* written since can have used up.
Ordered(r, n) ==
  /\ n \in Index
  /\ \A i \in Index : r[i] # Torn => r[n] # Torn
  /\ \A i \in Index \ {n} : r[i] # Torn => Dist(r[n].seq, r[i].seq) \in 1 .. Reach(Age(i, n))

LEMMA SlotFacts ==
  ASSUME NEW r \in Rings, NEW i \in Index, r[i] # Torn
  PROVE  r[i] \in PosSlot /\ r[i].seq \in Seqs
BY DEF Rings, PosSlot, Seqs

\* The boot scan finds it, wherever the sequence number has wrapped.
LEMMA OrderedNewest ==
  ASSUME NEW r \in Rings, NEW n, Ordered(r, n), ~AllTorn(r)
  PROVE  r[n] # Torn /\ Newest(r) = n
<1>1. n \in Index /\ r[n] # Torn
  BY DEF Ordered, AllTorn
<1>2. ASSUME NEW i \in Index \ {n}, r[i] # Torn
      PROVE  Ahead(r[n].seq, r[i].seq) /\ ~Ahead(r[i].seq, r[n].seq) /\ r[n].seq # r[i].seq
  <2>1. Dist(r[n].seq, r[i].seq) \in 1 .. Reach(Age(i, n))
    BY <1>2 DEF Ordered
  <2>2. Age(i, n) \in 0 .. Slots - 1
    BY <1>1, AgeIs
  <2>3. Reach(Age(i, n)) \in Int /\ Reach(Age(i, n)) + MaxUnwritten <= SeqMod \div 2 - 1
        /\ SeqMod \div 2 \in Nat /\ MaxUnwritten \in Nat
    <3> DEFINE age == Age(i, n)
    <3>1. age \in 0 .. Slots - 1 /\ age \in 0 .. Slots
      BY <2>2, Sizes
    <3> HIDE DEF age
    <3>2. Reach(age) \in Int /\ Reach(age) + MaxUnwritten <= SeqMod \div 2 - 1
          /\ SeqMod \div 2 \in Nat /\ MaxUnwritten \in Nat
      BY <3>1, Sizes
    <3>3. QED
      BY <3>2 DEF age
  <2>4. Dist(r[n].seq, r[i].seq) \in 1 .. SeqMod \div 2 - 1
    BY <2>1, <2>3
  <2>5. r[n].seq \in Seqs /\ r[i].seq \in Seqs
    BY <1>1, <1>2, SlotFacts
  <2>6. QED
    BY <2>4, <2>5, NearIsAhead
<1>3. IsNewest(r, n)
  BY <1>1, <1>2 DEF IsNewest
<1>4. ASSUME NEW i \in Index, IsNewest(r, i)
      PROVE  i = n
  BY <1>1, <1>2, <1>4 DEF IsNewest
<1>5. QED
  BY <1>1, <1>3, <1>4 DEF Newest

LEMMA OrderedBest ==
  ASSUME NEW r \in Rings, NEW n, Ordered(r, n)
  PROVE  /\ AllTorn(r) <=> r[n] = Torn
         /\ AllTorn(r) => Best(r) = Zero
         /\ ~AllTorn(r) => Best(r) = r[n]
BY OrderedNewest DEF Best, Ordered, AllTorn

\* A cut inside the write cycle takes the oldest record only.
LEMMA OrderedTorn ==
  ASSUME NEW r \in Rings, NEW n, Ordered(r, n)
  PROVE  /\ [r EXCEPT ![After(n)] = Torn] \in Rings
         /\ Ordered([r EXCEPT ![After(n)] = Torn], n)
         /\ [r EXCEPT ![After(n)] = Torn][n] = r[n]
<1>1. n \in Index /\ After(n) \in Index /\ After(n) # n
  BY AfterIs DEF Ordered
<1> DEFINE t == [r EXCEPT ![After(n)] = Torn]
<1>2. t \in Rings /\ t[n] = r[n] /\ \A i \in Index : t[i] # Torn => t[i] = r[i]
  BY <1>1 DEF Rings
<1> HIDE DEF t
<1>3. Ordered(t, n)
  BY <1>2 DEF Ordered
<1>4. QED
  BY <1>2, <1>3 DEF t

\* The record that lands in the slot after the newest is the newest.
LEMMA OrderedLand ==
  ASSUME NEW r \in Rings, NEW n, Ordered(r, n), NEW c \in PosSlot,
         r[n] # Torn => Dist(c.seq, r[n].seq) \in 1 .. MaxUnwritten
  PROVE  /\ [r EXCEPT ![After(n)] = c] \in Rings
         /\ Ordered([r EXCEPT ![After(n)] = c], After(n))
         /\ [r EXCEPT ![After(n)] = c][After(n)] = c
<1> DEFINE w == After(n)
           t == [r EXCEPT ![w] = c]
<1>1. n \in Index /\ w \in Index /\ w # n
  BY AfterIs DEF Ordered
<1>2. t \in Rings /\ t[w] = c /\ \A i \in Index \ {w} : t[i] = r[i]
  BY <1>1 DEF Rings
<1>3. c # Torn /\ c.seq \in Seqs
  BY TornAssumption DEF PosSlot, Seqs
<1>4. ASSUME NEW i \in Index \ {w}, t[i] # Torn
      PROVE  Dist(t[w].seq, t[i].seq) \in 1 .. Reach(Age(i, w))
  <2>1. t[i] = r[i] /\ r[i] # Torn /\ r[n] # Torn
    BY <1>2, <1>4 DEF Ordered
  <2>2. r[n].seq \in Seqs /\ r[i].seq \in Seqs
    BY <1>1, <2>1, SlotFacts
  <2>3. Age(i, w) = Age(i, n) + 1 /\ Age(i, n) \in 0 .. Slots - 1 /\ Age(n, n) = 0
    BY <1>1, AgeIs
  <2> DEFINE age == Age(i, n)
             d   == Dist(c.seq, r[n].seq)
             e   == Dist(r[n].seq, r[i].seq)
  <2>4. age \in 0 .. Slots - 1 /\ (i = n => age = 0) /\ Age(i, w) = age + 1
    BY <2>3
  <2>5. d \in 1 .. MaxUnwritten
    BY <2>1
  <2>6. i # n => e \in 1 .. Reach(age)
    BY <2>1 DEF Ordered
  <2>7. i = n => e = 0
    BY <2>2, DistSelf
  <2>8. e \in Int
    BY <2>2, DistIs DEF Seqs
  <2> HIDE DEF age, d, e
  <2>9. /\ Reach(age) \in Nat /\ Reach(age) + MaxUnwritten = Reach(age + 1)
        /\ Reach(age) + MaxUnwritten <= SeqMod \div 2 - 1
        /\ SeqMod \in Nat /\ SeqMod \div 2 \in Nat /\ 2 * (SeqMod \div 2) <= SeqMod /\ MaxUnwritten \in Nat
    <3>1. age \in 0 .. Slots
      BY <2>4, Sizes
    <3>2. QED
      BY <2>4, <3>1, Sizes
  <2>10. e \in 0 .. Reach(age)
    BY <2>6, <2>7, <2>8, <2>9
  <2>11. d + e \in 1 .. Reach(age + 1) /\ d + e < SeqMod
    BY <2>5, <2>9, <2>10
  <2>12. Dist(c.seq, r[i].seq) = d + e
    BY <1>3, <2>2, <2>11, DistAdd DEF d, e
  <2>13. QED
    BY <1>2, <2>1, <2>4, <2>11, <2>12
<1> HIDE DEF t, w
<1>5. Ordered(t, w)
  BY <1>1, <1>2, <1>3, <1>4 DEF Ordered
<1>6. QED
  BY <1>2, <1>5 DEF t, w

LEMMA OrderedEmpty ==
  ASSUME NEW r, AllTorn(r), NEW n \in Index
  PROVE  Ordered(r, n)
BY DEF Ordered, AllTorn

-----------------------------------------------------------------------------
(***************************************************************************)
(* The store.                                                              *)
(***************************************************************************)
StoreTypes ==
  /\ ram \in PosSlot /\ nextSlot \in Index
  /\ posPending \in BOOLEAN /\ usteps \in Usteps
  /\ ring \in Rings
  /\ cell # <<>> => cell[1] \in Index /\ cell[2] \in PosSlot
  /\ away \in SUBSET Axes /\ unwritten \in 0 .. MaxUnwritten

\* The slot of the newest record that has landed.
LastSlot == Before(IF cell = <<>> THEN nextSlot ELSE cell[1])

\* The ring is in order, the record on its way comes next, and the firmware has counted on from the last one taken.
RingOrder ==
  /\ found
  /\ Ordered(ring, LastSlot)
  /\ cell # <<>> =>
       /\ nextSlot = After(cell[1])
       /\ ring[LastSlot] # Torn => Dist(cell[2].seq, ring[LastSlot].seq) \in 1 .. MaxUnwritten
       /\ Dist(ram.seq, cell[2].seq) = unwritten
  /\ cell = <<>> /\ ring[LastSlot] # Torn => Dist(ram.seq, ring[LastSlot].seq) = unwritten
  /\ posPending => unwritten > 0

\* What is not pending has been taken by the chip, and it marks every axis that may be away from its position.
Taken ==
  /\ ~posPending => ram = IF cell = <<>> THEN Best(ring) ELSE cell[2]
  /\ \A a \in away : ram.ax[a].moving

StoreInv == StoreTypes /\ RingOrder /\ Taken

LEMMA EmptyCell ==
  ASSUME NEW x, NEW y
  PROVE  <<x, y>> # <<>> /\ <<x, y>>[1] = x /\ <<x, y>>[2] = y
OBVIOUS

LEMMA StoreInit ==
  ASSUME Init, ~BlindBoots
  PROVE  StoreInv
<1>1. 0 \in Index /\ 0 \in 0 .. MaxUnwritten /\ 0 \in 0 .. SeqMod - 1 /\ 0 \in Values
  BY Sizes, DataAssumption DEF Index
<1>2. Zero \in PosSlot
  BY <1>1 DEF Zero, PosSlot, AxisRec
<1>3. ring \in Rings /\ AllTorn(ring)
  BY DEF Init, Rings, AllTorn
<1>4. StoreTypes
  BY <1>1, <1>2, <1>3 DEF Init, StoreTypes
<1>5. LastSlot \in Index
  BY <1>1, AfterIs DEF Init, LastSlot
<1>6. Ordered(ring, LastSlot) /\ ring[LastSlot] = Torn
  BY <1>3, <1>5, OrderedEmpty DEF AllTorn
<1>7. RingOrder
  BY <1>6 DEF Init, RingOrder
<1>8. Best(ring) = Zero
  BY <1>3 DEF Best
<1>9. Taken
  BY <1>8 DEF Init, Taken
<1>10. QED
  BY <1>4, <1>7, <1>9 DEF StoreInv

LEMMA LastSlotIs ==
  ASSUME StoreTypes
  PROVE  LastSlot \in Index
BY AfterIs DEF StoreTypes, LastSlot

LEMMA FlushEffect ==
  ASSUME found, NEW r, NEW k, Flush(r, k)
  PROVE  /\ ram' = r /\ UNCHANGED <<found, usteps, ring>>
         /\ \/ /\ cell = <<>> /\ cell' = <<nextSlot, r>> /\ nextSlot' = After(nextSlot)
               /\ posPending' = FALSE /\ unwritten' = 0
            \/ UNCHANGED <<cell, nextSlot>> /\ posPending' = TRUE /\ unwritten' = k
BY DEF Flush, Accept, Refuse, NotReady

\* A record that counts on from the last one taken is kept or taken.
LEMMA FlushKeeps ==
  ASSUME StoreInv, NEW r \in PosSlot, NEW k \in 1 .. MaxUnwritten, Flush(r, k),
         cell # <<>> => Dist(r.seq, cell[2].seq) = k,
         cell = <<>> /\ ring[LastSlot] # Torn => Dist(r.seq, ring[LastSlot].seq) = k,
         away' \in SUBSET Axes, \A a \in away' : r.ax[a].moving
  PROVE  StoreInv'
<1>1. StoreTypes /\ RingOrder /\ Taken /\ found /\ Ordered(ring, LastSlot)
  BY DEF StoreInv, RingOrder
<1>2. /\ ram' = r /\ UNCHANGED <<found, usteps, ring>>
      /\ \/ /\ cell = <<>> /\ cell' = <<nextSlot, r>> /\ nextSlot' = After(nextSlot)
            /\ posPending' = FALSE /\ unwritten' = 0
         \/ UNCHANGED <<cell, nextSlot>> /\ posPending' = TRUE /\ unwritten' = k
  BY <1>1, FlushEffect
<1>3. MaxUnwritten \in Nat /\ k \in Nat /\ k > 0 /\ 0 \in 0 .. MaxUnwritten /\ k \in 0 .. MaxUnwritten
  BY Sizes
<1>4. CASE UNCHANGED <<cell, nextSlot>> /\ posPending' = TRUE /\ unwritten' = k
  <2>1. StoreTypes'
    BY <1>1, <1>2, <1>3, <1>4 DEF StoreTypes
  <2>2. LastSlot' = LastSlot
    BY <1>4 DEF LastSlot
  <2>3. RingOrder'
    BY <1>1, <1>2, <1>3, <1>4, <2>2 DEF RingOrder
  <2>4. Taken'
    BY <1>2, <1>4 DEF Taken
  <2>5. QED
    BY <2>1, <2>3, <2>4 DEF StoreInv
<1>5. CASE /\ cell = <<>> /\ cell' = <<nextSlot, r>> /\ nextSlot' = After(nextSlot)
           /\ posPending' = FALSE /\ unwritten' = 0
  <2>1. cell' # <<>> /\ cell'[1] = nextSlot /\ cell'[2] = r
    BY <1>5, EmptyCell
  <2>2. nextSlot \in Index /\ nextSlot' \in Index
    BY <1>1, <1>5, AfterIs DEF StoreTypes
  <2>3. StoreTypes'
    BY <1>1, <1>2, <1>3, <1>5, <2>1, <2>2 DEF StoreTypes
  <2>4. LastSlot' = LastSlot
    BY <1>5, <2>1 DEF LastSlot
  <2>5. r.seq \in Seqs
    BY DEF PosSlot, Seqs
  <2>6. Dist(r.seq, r.seq) = 0
    BY <2>5, DistSelf
  <2>7. ring[LastSlot] # Torn => Dist(r.seq, ring[LastSlot].seq) \in 1 .. MaxUnwritten
    BY <1>5
  <2>8. RingOrder'
    BY <1>1, <1>2, <1>5, <2>1, <2>4, <2>6, <2>7 DEF RingOrder
  <2>9. Taken'
    BY <1>2, <1>5, <2>1 DEF Taken
  <2>10. QED
    BY <2>3, <2>8, <2>9 DEF StoreInv
<1>6. QED
  BY <1>2, <1>4, <1>5

\* The write cycle ends: the record on its way is the newest.
LEMMA LandKeeps ==
  ASSUME StoreInv, cell # <<>>, ring' = [ring EXCEPT ![cell[1]] = cell[2]], cell' = <<>>,
         UNCHANGED <<ram, nextSlot, posPending, found, usteps, away, unwritten>>
  PROVE  StoreInv' /\ Best(ring') = cell[2]
<1>1. StoreTypes /\ RingOrder /\ Taken
  BY DEF StoreInv
<1>2. /\ cell[1] \in Index /\ cell[2] \in PosSlot /\ cell[2] # Torn /\ ring \in Rings
      /\ nextSlot = After(cell[1]) /\ LastSlot = Before(cell[1]) /\ Ordered(ring, LastSlot)
      /\ ring[LastSlot] # Torn => Dist(cell[2].seq, ring[LastSlot].seq) \in 1 .. MaxUnwritten
      /\ Dist(ram.seq, cell[2].seq) = unwritten
  BY <1>1, TornAssumption DEF StoreTypes, RingOrder, LastSlot
<1>3. After(LastSlot) = cell[1] /\ Before(nextSlot) = cell[1]
  BY <1>2, AfterIs
<1>4. ring' \in Rings /\ Ordered(ring', cell[1]) /\ ring'[cell[1]] = cell[2]
  <2>1. /\ [ring EXCEPT ![After(LastSlot)] = cell[2]] \in Rings
        /\ Ordered([ring EXCEPT ![After(LastSlot)] = cell[2]], After(LastSlot))
        /\ [ring EXCEPT ![After(LastSlot)] = cell[2]][After(LastSlot)] = cell[2]
    <3> DEFINE c == cell[2]
    <3>1. /\ ring \in Rings /\ Ordered(ring, LastSlot) /\ c \in PosSlot
          /\ ring[LastSlot] # Torn => Dist(c.seq, ring[LastSlot].seq) \in 1 .. MaxUnwritten
      BY <1>2
    <3> HIDE DEF c
    <3>2. /\ [ring EXCEPT ![After(LastSlot)] = c] \in Rings
          /\ Ordered([ring EXCEPT ![After(LastSlot)] = c], After(LastSlot))
          /\ [ring EXCEPT ![After(LastSlot)] = c][After(LastSlot)] = c
      BY <3>1, OrderedLand
    <3>3. QED
      BY <3>2 DEF c
  <2>2. QED
    BY <1>3, <2>1
<1>5. LastSlot' = cell[1]
  BY <1>3 DEF LastSlot
<1>6. StoreTypes'
  BY <1>1, <1>4 DEF StoreTypes
<1>7. RingOrder'
  BY <1>1, <1>2, <1>4, <1>5 DEF RingOrder
<1>8. Best(ring') = cell[2]
  BY <1>2, <1>4, OrderedBest
<1>9. Taken'
  BY <1>1, <1>8 DEF Taken
<1>10. QED
  BY <1>6, <1>7, <1>8, <1>9 DEF StoreInv

\* What a power cut may leave on the chip, in order again, with the record in flight or without it.
LEMMA CutEffect ==
  ASSUME StoreInv, ~BlindBoots, CutAndBoot
  PROVE  /\ StoreInv'
         /\ ram' = Best(ring') /\ cell' = <<>> /\ posPending' = FALSE
         /\ Best(ring') = Best(ring) \/ (cell # <<>> /\ Best(ring') = cell[2])
<1>1. StoreTypes /\ RingOrder /\ Taken /\ ring \in Rings /\ Ordered(ring, LastSlot)
  BY DEF StoreInv, StoreTypes, RingOrder
<1>2. /\ BootFrom(ring') /\ cell' = <<>> /\ posPending' = FALSE /\ unwritten' = 0 /\ away' = {} /\ usteps' \in Usteps
      /\ \/ ring' = ring
         \/ cell # <<>> /\ ring' = [ring EXCEPT ![cell[1]] = Torn]
         \/ cell # <<>> /\ ring' = [ring EXCEPT ![cell[1]] = cell[2]]
  BY DEF CutAndBoot, BootBlind
<1>3. cell # <<>> => /\ cell[1] = After(LastSlot) /\ cell[2] \in PosSlot
                     /\ ring[LastSlot] # Torn => Dist(cell[2].seq, ring[LastSlot].seq) \in 1 .. MaxUnwritten
  BY <1>1, AfterIs DEF StoreTypes, RingOrder, LastSlot
<1>4. PICK n \in Index : /\ ring' \in Rings /\ Ordered(ring', n)
                         /\ Best(ring') = Best(ring) \/ (cell # <<>> /\ Best(ring') = cell[2])
  <2>1. CASE ring' = ring
    BY <1>1, <2>1 DEF Ordered
  <2>2. CASE cell # <<>> /\ ring' = [ring EXCEPT ![cell[1]] = Torn]
    <3>1. ring' \in Rings /\ Ordered(ring', LastSlot) /\ ring'[LastSlot] = ring[LastSlot]
      BY <1>1, <1>3, <2>2, OrderedTorn
    <3>2. Best(ring') = Best(ring)
      BY <1>1, <3>1, OrderedBest
    <3>3. QED
      BY <3>1, <3>2 DEF Ordered
  <2>3. CASE cell # <<>> /\ ring' = [ring EXCEPT ![cell[1]] = cell[2]]
    <3>1. /\ ring' \in Rings /\ Ordered(ring', cell[1]) /\ ring'[cell[1]] = cell[2]
      <4>1. /\ [ring EXCEPT ![After(LastSlot)] = cell[2]] \in Rings
            /\ Ordered([ring EXCEPT ![After(LastSlot)] = cell[2]], After(LastSlot))
            /\ [ring EXCEPT ![After(LastSlot)] = cell[2]][After(LastSlot)] = cell[2]
        <5> DEFINE c == cell[2]
        <5>1. /\ ring \in Rings /\ Ordered(ring, LastSlot) /\ c \in PosSlot
              /\ ring[LastSlot] # Torn => Dist(c.seq, ring[LastSlot].seq) \in 1 .. MaxUnwritten
          BY <1>1, <1>3, <2>3
        <5> HIDE DEF c
        <5>2. /\ [ring EXCEPT ![After(LastSlot)] = c] \in Rings
              /\ Ordered([ring EXCEPT ![After(LastSlot)] = c], After(LastSlot))
              /\ [ring EXCEPT ![After(LastSlot)] = c][After(LastSlot)] = c
          BY <5>1, OrderedLand
        <5>3. QED
          BY <5>2 DEF c
      <4>2. QED
        BY <1>3, <2>3, <4>1
    <3>2. cell[2] # Torn
      BY <1>3, <2>3, TornAssumption
    <3>3. Best(ring') = cell[2]
      BY <3>1, <3>2, OrderedBest
    <3>4. QED
      BY <2>3, <3>1, <3>3 DEF Ordered
  <2>4. QED
    BY <1>2, <2>1, <2>2, <2>3
<1>5. /\ ram' = Best(ring') /\ found' = TRUE
      /\ nextSlot' = IF AllTorn(ring') THEN 0 ELSE After(Newest(ring'))
  BY <1>2 DEF BootFrom
<1>6. 0 \in Index /\ 0 \in 0 .. MaxUnwritten
  BY Sizes DEF Index
<1>7. nextSlot' \in Index
  <2>1. CASE AllTorn(ring')
    BY <1>5, <1>6, <2>1
  <2>2. CASE ~AllTorn(ring')
    BY <1>4, <1>5, <2>2, OrderedNewest, AfterIs
  <2>3. QED
    BY <2>1, <2>2
<1>8. LastSlot' \in Index /\ LastSlot' = Before(nextSlot')
  BY <1>2, <1>7, AfterIs DEF LastSlot
<1>9. Ordered(ring', LastSlot')
  <2>1. CASE AllTorn(ring')
    BY <1>8, <2>1, OrderedEmpty
  <2>2. CASE ~AllTorn(ring')
    <3>1. nextSlot' = After(n)
      BY <1>4, <1>5, <2>2, OrderedNewest
    <3>2. LastSlot' = n
      BY <1>8, <3>1, AfterIs
    <3>3. QED
      BY <1>4, <3>2
  <2>3. QED
    BY <2>1, <2>2
<1>10. Best(ring') \in PosSlot /\ (ring'[LastSlot'] # Torn => Best(ring') = ring'[LastSlot'])
  <2>1. Zero \in PosSlot
    <3>1. 0 \in 0 .. SeqMod - 1 /\ 0 \in Values
      BY Sizes, DataAssumption
    <3>2. QED
      BY <3>1 DEF Zero, PosSlot, AxisRec
  <2>2. QED
    BY <1>4, <1>8, <1>9, <2>1, OrderedBest, SlotFacts
<1>11. StoreTypes'
  BY <1>2, <1>4, <1>5, <1>6, <1>7, <1>10 DEF StoreTypes
<1>12. RingOrder'
  <2>1. ring'[LastSlot'] # Torn => Dist(ram'.seq, ring'[LastSlot'].seq) = 0
    BY <1>4, <1>5, <1>8, <1>10, SlotFacts, DistSelf
  <2>2. QED
    BY <1>2, <1>5, <1>9, <2>1 DEF RingOrder
<1>13. Taken'
  BY <1>2, <1>5 DEF Taken
<1>14. QED
  BY <1>2, <1>4, <1>5, <1>11, <1>12, <1>13 DEF StoreInv

LEMMA QueuedRecord ==
  ASSUME StoreTypes, NEW a \in Axes, NEW entry \in AxisRec
  PROVE  /\ [seq |-> NextSeq(ram.seq), label |-> usteps, ax |-> With(ram.ax, a, entry)] \in PosSlot
         /\ \A b \in Axes : With(ram.ax, a, entry)[b] = IF b = a THEN entry ELSE ram.ax[b]
<1>1. ram.seq \in Seqs /\ ram.ax \in [Axes -> AxisRec] /\ usteps \in Usteps \cup {0}
  BY DEF StoreTypes, PosSlot, Seqs
<1>2. NextSeq(ram.seq) \in 0 .. SeqMod - 1
  BY <1>1, NextSeqIs DEF Seqs
<1>3. With(ram.ax, a, entry) \in [Axes -> AxisRec]
  BY <1>1 DEF With
<1>4. \A b \in Axes : With(ram.ax, a, entry)[b] = IF b = a THEN entry ELSE ram.ax[b]
  BY <1>1 DEF With
<1>5. QED
  BY <1>1, <1>2, <1>3, <1>4 DEF PosSlot

\* The next record is one ahead, and not too far from the last one taken.
LEMMA QueueKeeps ==
  ASSUME StoreInv, NEW a \in Axes, NEW entry \in AxisRec, Queue(a, entry),
         away' \in SUBSET Axes, \A b \in away' : IF b = a THEN entry.moving ELSE b \in away
  PROVE  StoreInv'
<1> DEFINE r == [seq |-> NextSeq(ram.seq), label |-> usteps, ax |-> With(ram.ax, a, entry)]
           k == unwritten + 1
<1>1. StoreTypes /\ RingOrder /\ Taken
  BY DEF StoreInv
<1>2. Flush(r, k) /\ unwritten < MaxUnwritten
  BY DEF Queue
<1>3. r \in PosSlot /\ r.seq = NextSeq(ram.seq) /\ \A b \in Axes : r.ax[b] = IF b = a THEN entry ELSE ram.ax[b]
  BY <1>1, QueuedRecord
<1>4. unwritten \in Nat /\ MaxUnwritten \in Nat /\ k = unwritten + 1 /\ k \in 1 .. MaxUnwritten
      /\ unwritten + 1 < SeqMod
  <2>1. MaxUnwritten \in Nat /\ SeqMod \in Nat /\ unwritten \in 0 .. MaxUnwritten
    BY <1>1, Sizes DEF StoreTypes
  <2>2. MaxUnwritten < SeqMod
    <3>1. 0 \in 0 .. Slots - 1 /\ 0 \in 0 .. Slots
      BY Sizes
    <3>2. Reach(0) \in Nat /\ Reach(0) + MaxUnwritten <= SeqMod \div 2 - 1
      BY <3>1, Sizes
    <3>3. QED
      BY <2>1, <3>2, Sizes
  <2>3. QED
    BY <1>2, <2>1, <2>2
<1>5. ram.seq \in Seqs
  BY <1>1 DEF StoreTypes, PosSlot, Seqs
<1>6. \A s \in Seqs : Dist(ram.seq, s) = unwritten => Dist(NextSeq(ram.seq), s) = unwritten + 1
  BY <1>4, <1>5, DistNext
<1>7. cell # <<>> => Dist(r.seq, cell[2].seq) = k
  <2>1. SUFFICES ASSUME cell # <<>> PROVE Dist(r.seq, cell[2].seq) = k
    OBVIOUS
  <2>2. cell[2].seq \in Seqs /\ Dist(ram.seq, cell[2].seq) = unwritten
    BY <1>1, <2>1 DEF StoreTypes, RingOrder, PosSlot, Seqs
  <2>3. QED
    BY <1>3, <1>4, <1>6, <2>2
<1>8. cell = <<>> /\ ring[LastSlot] # Torn => Dist(r.seq, ring[LastSlot].seq) = k
  <2>1. SUFFICES ASSUME cell = <<>>, ring[LastSlot] # Torn PROVE Dist(r.seq, ring[LastSlot].seq) = k
    OBVIOUS
  <2>2. ring[LastSlot].seq \in Seqs
    BY <1>1, <2>1, LastSlotIs, SlotFacts DEF StoreTypes
  <2>3. Dist(ram.seq, ring[LastSlot].seq) = unwritten
    BY <1>1, <2>1 DEF RingOrder
  <2>4. QED
    BY <1>3, <1>4, <1>6, <2>2, <2>3
<1>9. \A b \in away' : r.ax[b].moving
  BY <1>1, <1>3 DEF Taken
<1> HIDE DEF r, k
<1>10. QED
  BY <1>2, <1>3, <1>4, <1>7, <1>8, <1>9, FlushKeeps

LEMMA MarkMovingKeeps ==
  ASSUME StoreInv, NEW a \in Axes, MarkMoving(a)
  PROVE  StoreInv'
<1> DEFINE entry == [ram.ax[a] EXCEPT !.moving = TRUE]
<1>1. Queue(a, entry) /\ away' = away \cup {a}
  BY DEF MarkMoving
<1>2. ram.ax[a] \in AxisRec /\ away \in SUBSET Axes
  BY DEF StoreInv, StoreTypes, PosSlot
<1>3. entry \in AxisRec /\ entry.moving
  BY <1>2 DEF AxisRec
<1> HIDE DEF entry
<1>4. away' \in SUBSET Axes /\ \A b \in away' : IF b = a THEN entry.moving ELSE b \in away
  BY <1>1, <1>2, <1>3
<1>5. QED
  BY <1>1, <1>3, <1>4, QueueKeeps

LEMMA SavePositionKeeps ==
  ASSUME StoreInv, NEW a \in Axes, NEW v \in Values, NEW u \in Verdicts, SavePosition(a, v, u)
  PROVE  StoreInv'
<1> DEFINE entry == [val |-> v, moving |-> FALSE, saved |-> TRUE, unverified |-> u]
<1>1. Queue(a, entry) /\ away' = away \ {a}
  BY DEF SavePosition
<1>2. u \in BOOLEAN
  BY DataAssumption
<1>3. entry \in AxisRec
  BY <1>2 DEF AxisRec
<1> HIDE DEF entry
<1>4. away' \in SUBSET Axes /\ \A b \in away' : IF b = a THEN entry.moving ELSE b \in away
  BY <1>1 DEF StoreInv, StoreTypes
<1>5. QED
  BY <1>1, <1>3, <1>4, QueueKeeps

LEMMA UpdateKeeps ==
  ASSUME StoreInv, Update
  PROVE  StoreInv'
<1>1. StoreTypes /\ RingOrder /\ Taken /\ posPending /\ Flush(ram, unwritten) /\ away' = away
  BY DEF StoreInv, Update
<1>2. unwritten \in 1 .. MaxUnwritten /\ ram \in PosSlot
  BY <1>1, Sizes DEF StoreTypes, RingOrder
<1>3. /\ cell # <<>> => Dist(ram.seq, cell[2].seq) = unwritten
      /\ cell = <<>> /\ ring[LastSlot] # Torn => Dist(ram.seq, ring[LastSlot].seq) = unwritten
      /\ away' \in SUBSET Axes /\ \A a \in away' : ram.ax[a].moving
  BY <1>1 DEF StoreTypes, RingOrder, Taken
<1>4. QED
  BY <1>1, <1>2, <1>3, FlushKeeps

\* What waiting for the chip leaves alone.
LEMMA StutterKeeps ==
  ASSUME StoreInv, UNCHANGED <<ram, nextSlot, posPending, found, ring, cell, away, unwritten>>, usteps' \in Usteps
  PROVE  StoreInv'
<1>1. StoreTypes' /\ LastSlot' = LastSlot
  BY DEF StoreInv, StoreTypes, LastSlot
<1>2. RingOrder' /\ Taken'
  BY <1>1 DEF StoreInv, RingOrder, Taken
<1>3. QED
  BY <1>1, <1>2 DEF StoreInv

LEMMA SaveRecordEffect ==
  ASSUME StoreInv, SaveRecord
  PROVE  /\ UNCHANGED <<ram, nextSlot, posPending, found, usteps, away, unwritten>>
         /\ \/ UNCHANGED <<ring, cell>>
            \/ cell # <<>> /\ ring' = [ring EXCEPT ![cell[1]] = cell[2]] /\ cell' = <<>>
BY DEF SaveRecord

LEMMA StoreNext ==
  ASSUME StoreInv, ~BlindBoots, Next
  PROVE  StoreInv'
<1>1. ASSUME NEW a \in Axes, MarkMoving(a)
      PROVE  StoreInv'
  BY <1>1, MarkMovingKeeps
<1>2. ASSUME NEW a \in Axes, NEW v \in Values, NEW u \in Verdicts, SavePosition(a, v, u)
      PROVE  StoreInv'
  BY <1>2, SavePositionKeeps
<1>3. CASE Update
  BY <1>3, UpdateKeeps
<1>4. CASE SaveRecord
  <2>1. usteps' \in Usteps
    BY <1>4, SaveRecordEffect DEF StoreInv, StoreTypes
  <2>2. QED
    BY <1>4, <2>1, SaveRecordEffect, StutterKeeps, LandKeeps
<1>5. ASSUME NEW u \in Usteps, SetUsteps(u)
      PROVE  StoreInv'
  BY <1>5, StutterKeeps DEF SetUsteps
<1>6. CASE WriteDone
  BY <1>6, LandKeeps DEF WriteDone
<1>7. CASE CutAndBoot
  BY <1>7, CutEffect
<1>8. QED
  BY <1>1, <1>2, <1>3, <1>4, <1>5, <1>6, <1>7 DEF Next, Firmware

LEMMA StoreSteps ==
  ASSUME StoreInv, ~BlindBoots, [Next]_vars
  PROVE  StoreInv'
<1>1. CASE Next
  BY <1>1, StoreNext
<1>2. CASE UNCHANGED vars
  <2>1. usteps' \in Usteps
    BY <1>2 DEF vars, StoreInv, StoreTypes
  <2>2. QED
    BY <1>2, <2>1, StutterKeeps DEF vars
<1>3. QED
  BY <1>1, <1>2

-----------------------------------------------------------------------------
(***************************************************************************)
(* What the store promises.                                                *)
(***************************************************************************)
LEMMA BodyIsContents ==
  ASSUME NEW r \in PosSlot
  PROVE  Body(r) \in [ax : [Axes -> AxisRec], label : Usteps \cup {0}]
BY DEF Body, PosSlot

LEMMA CellStep ==
  ASSUME StoreInv, ~BlindBoots, Next
  PROVE  [Cell!CellNext]_(Cell!cellVars)
<1>1. ASSUME NEW a \in Axes, NEW entry \in AxisRec, Queue(a, entry)
      PROVE  [Cell!CellNext]_(Cell!cellVars)
  <2> DEFINE r == [seq |-> NextSeq(ram.seq), label |-> usteps, ax |-> With(ram.ax, a, entry)]
  <2>1. r \in PosSlot /\ Flush(r, unwritten + 1)
    BY <1>1, QueuedRecord DEF StoreInv, Queue
  <2> HIDE DEF r
  <2>2. Body(r) \in [ax : [Axes -> AxisRec], label : Usteps \cup {0}]
    BY <2>1, BodyIsContents
  <2>3. Cell!Put(Body(r))
    <3>1. /\ ram' = r /\ ring' = ring
          /\ \/ cell = <<>> /\ cell' = <<nextSlot, r>> /\ posPending' = FALSE
             \/ cell' = cell /\ posPending' = TRUE
      BY <2>1, FlushEffect DEF StoreInv, RingOrder
    <3>2. <<nextSlot, r>> # <<>> /\ <<nextSlot, r>>[2] = r
      OBVIOUS
    <3>3. QED
      BY <3>1, <3>2 DEF Cell!Put
  <2>4. QED
    BY <2>2, <2>3 DEF Cell!CellNext
<1>2. ASSUME NEW a \in Axes, MarkMoving(a)
      PROVE  [Cell!CellNext]_(Cell!cellVars)
  <2>1. Queue(a, [ram.ax[a] EXCEPT !.moving = TRUE])
    BY <1>2 DEF MarkMoving
  <2>2. ram.ax[a] \in AxisRec
    BY DEF StoreInv, StoreTypes, PosSlot
  <2>3. [ram.ax[a] EXCEPT !.moving = TRUE] \in AxisRec
    BY <2>2 DEF AxisRec
  <2>4. QED
    BY <1>1, <2>1, <2>3
<1>3. ASSUME NEW a \in Axes, NEW v \in Values, NEW u \in Verdicts, SavePosition(a, v, u)
      PROVE  [Cell!CellNext]_(Cell!cellVars)
  <2>1. Queue(a, [val |-> v, moving |-> FALSE, saved |-> TRUE, unverified |-> u])
    BY <1>3 DEF SavePosition
  <2>2. [val |-> v, moving |-> FALSE, saved |-> TRUE, unverified |-> u] \in AxisRec
    BY DataAssumption DEF AxisRec
  <2>3. QED
    BY <1>1, <2>1, <2>2
<1>4. CASE Update
  <2>1. Flush(ram, unwritten) /\ posPending /\ posPending \in BOOLEAN
    BY <1>4 DEF Update, StoreInv, StoreTypes
  <2>2. /\ ram' = ram /\ ring' = ring
        /\ \/ cell = <<>> /\ cell' = <<nextSlot, ram>> /\ posPending' = FALSE
           \/ cell' = cell /\ posPending' = TRUE
    BY <2>1, FlushEffect DEF StoreInv, RingOrder
  <2>3. <<nextSlot, ram>> # <<>> /\ <<nextSlot, ram>>[2] = ram
    OBVIOUS
  <2>4. CASE cell' = cell /\ posPending' = TRUE
    <3>1. posPending' = posPending
      BY <2>1, <2>4
    <3>2. QED
      BY <2>2, <2>4, <3>1 DEF Cell!cellVars
  <2>5. CASE cell = <<>> /\ cell' = <<nextSlot, ram>> /\ posPending' = FALSE
    <3>1. Cell!HandOver
      BY <2>1, <2>2, <2>3, <2>5 DEF Cell!HandOver
    <3>2. QED
      BY <3>1 DEF Cell!CellNext
  <2>6. QED
    BY <2>2, <2>4, <2>5
<1>5. ASSUME cell # <<>>, ring' = [ring EXCEPT ![cell[1]] = cell[2]], cell' = <<>>,
             UNCHANGED <<ram, nextSlot, posPending, found, usteps, away, unwritten>>
      PROVE  [Cell!CellNext]_(Cell!cellVars)
  <2>1. Best(ring') = cell[2]
    BY <1>5, LandKeeps
  <2>2. Cell!Land
    BY <1>5, <2>1 DEF Cell!Land
  <2>3. QED
    BY <2>2 DEF Cell!CellNext
<1>6. ASSUME UNCHANGED <<ram, ring, cell, posPending>>
      PROVE  [Cell!CellNext]_(Cell!cellVars)
  BY <1>6 DEF Cell!cellVars
<1>7. CASE SaveRecord
  BY <1>5, <1>6, <1>7, SaveRecordEffect
<1>8. ASSUME NEW u \in Usteps, SetUsteps(u)
      PROVE  [Cell!CellNext]_(Cell!cellVars)
  BY <1>6, <1>8 DEF SetUsteps
<1>9. CASE WriteDone
  BY <1>5, <1>9 DEF WriteDone
<1>10. CASE CutAndBoot
  <2>1. /\ ram' = Best(ring') /\ cell' = <<>> /\ posPending' = FALSE
        /\ Best(ring') = Best(ring) \/ (cell # <<>> /\ Best(ring') = cell[2])
    BY <1>10, CutEffect
  <2>2. Cell!CutAndBoot
    BY <2>1 DEF Cell!CutAndBoot
  <2>3. QED
    BY <2>2 DEF Cell!CellNext
<1>11. QED
  BY <1>2, <1>3, <1>4, <1>7, <1>8, <1>9, <1>10 DEF Next, Firmware

LEMMA StoreInvAlways ==
  ASSUME ~BlindBoots
  PROVE  Spec => []StoreInv
<1>1. Init => StoreInv
  BY StoreInit
<1>2. StoreInv /\ [Next]_vars => StoreInv'
  BY StoreSteps
<1>3. QED
  BY <1>1, <1>2, PTL DEF Spec

LEMMA CellBegins ==
  ASSUME Init
  PROVE  Cell!CellInit
<1>1. AllTorn(ring)
  BY DEF Init, AllTorn
<1>2. Best(ring) = Zero
  BY <1>1 DEF Best
<1>3. QED
  BY <1>2 DEF Init, Cell!CellInit

LEMMA CellStepOrStutter ==
  ASSUME StoreInv, ~BlindBoots, [Next]_vars
  PROVE  [Cell!CellNext]_(Cell!cellVars)
<1>1. CASE Next
  BY <1>1, CellStep
<1>2. CASE UNCHANGED vars
  BY <1>2 DEF vars, Cell!cellVars
<1>3. QED
  BY <1>1, <1>2

\* The position ring (nv_store.cpp) implements the durable cell that nv_store.h promises, for any axes, slots
\* and width of the sequence number, power cuts inside a write cycle included, as long as every boot can read
\* the chip: a boot finds the last record that reached it.
THEOREM RingIsDurable ==
  ASSUME ~BlindBoots
  PROVE  Spec => IsDurableCell
<1>1. Init => Cell!CellInit
  BY CellBegins
<1>2. StoreInv /\ [Next]_vars => [Cell!CellNext]_(Cell!cellVars)
  BY CellStepOrStutter
<1>3. QED
  BY <1>1, <1>2, StoreInvAlways, PTL DEF Spec, IsDurableCell, Cell!CellSpec

\* The record that has just reached the chip is the one a boot takes (nv_store.cpp:16-18), also after the
\* sequence number has wrapped: what the ring needs of its 32 bits is the assumption SeqAssumption only.
THEOREM NewestWinsAlways ==
  ASSUME ~BlindBoots
  PROVE  Spec => NewestWins
<1>1. StoreInv /\ [Next]_vars => [WriteDone => Best(ring') = cell[2]]_vars
  BY LandKeeps DEF WriteDone
<1>2. QED
  BY <1>1, StoreInvAlways, PTL DEF Spec, NewestWins

\* A mark that has reached the chip survives every power cut until the end of the move is saved (nv_store.h:36).
THEOREM MarkSurvivesAlways ==
  ASSUME ~BlindBoots
  PROVE  Spec => MarkSurvives
<1>1. ASSUME StoreInv, CutAndBoot, NEW a \in away, ~posPending, cell = <<>>
      PROVE  ram'.ax[a].moving
  <2>1. ram' = Best(ring') /\ Best(ring') = Best(ring)
    BY <1>1, CutEffect
  <2>2. ram = Best(ring) /\ ram.ax[a].moving
    BY <1>1 DEF StoreInv, Taken
  <2>3. QED
    BY <2>1, <2>2
<1>2. StoreInv /\ [Next]_vars => [CutAndBoot => \A a \in away : ~posPending /\ cell = <<>> => ram'.ax[a].moving]_vars
  BY <1>1
<1>3. QED
  BY <1>2, StoreInvAlways, PTL DEF Spec, MarkSurvives

-----------------------------------------------------------------------------
(***************************************************************************)
(* The accelerometer behind its filter.                                    *)
(***************************************************************************)
\* A filter that goes on from a sample of a sleeping chip has a reset to find, or a set-up that failed half-way.
FilterInv ==
  /\ freshSamples \in Nat
  /\ answering /\ haveSample /\ freshSamples # 0 /\ tainted => chip = "sleeps" \/ half

LEMMA FilterStep ==
  ASSUME FilterInv, [Sense!Next]_(Sense!vars)
  PROVE  FilterInv'
<1>1. CASE Sense!ImuUpdate
  <2>1. CASE Sense!Probe
    BY <1>1, <2>1 DEF FilterInv, Sense!Probe, Sense!Configured, Sense!NotConfigured, Sense!imuVars
  <2>2. CASE Sense!CheckChip
    BY <1>1, <2>2 DEF FilterInv, Sense!CheckChip, Sense!Reconfigured, Sense!Configured, Sense!NotConfigured
  <2>3. CASE Sense!Sample
    <3>1. freshSamples' \in Nat
      BY <2>3 DEF FilterInv, Sense!Sample
    <3>2. tainted' => chip = "sleeps" \/ (answering /\ tainted /\ haveSample /\ freshSamples # 0)
      BY <2>3, Zenon DEF Sense!Sample
    <3>3. UNCHANGED <<chip, half>>
      BY <2>3, Zenon DEF Sense!Sample
    <3>4. QED
      BY <3>1, <3>2, <3>3, Zenon DEF FilterInv
  <2>4. CASE Sense!Lose
    BY <1>1, <2>4 DEF FilterInv, Sense!Lose
  <2>5. CASE Sense!RestartFilter
    BY <1>1, <2>5 DEF FilterInv, Sense!RestartFilter
  <2>6. QED
    BY <1>1, <2>1, <2>2, <2>3, <2>4, <2>5 DEF Sense!ImuUpdate
<1>2. CASE Sense!ChipReset
  BY <1>2 DEF FilterInv, Sense!ChipReset, Sense!imuVars
<1>3. CASE UNCHANGED <<answering, haveSample, freshSamples, chip, tainted, half>>
  BY <1>3 DEF FilterInv
<1>4. QED
  BY <1>1, <1>2, <1>3 DEF Sense!Next, Sense!EnvUpdate, Sense!Hang, Sense!Unplug, Sense!Plug, Sense!imuVars, Sense!vars

\* The angle of a settled filter comes from a running accelerometer (imu_mpu6000.cpp), but for a reset the next
\* check has yet to find and a set-up that failed after it had woken the chip; for any settling time.
THEOREM SettledAlways == Sense!Spec => []SettledIsTrue
<1>1. Sense!Init => FilterInv
  BY DEF Sense!Init, FilterInv
<1>2. FilterInv /\ [Sense!Next]_(Sense!vars) => FilterInv'
  BY FilterStep
<1>3. FilterInv => SettledIsTrue
  BY SettleAssumption DEF FilterInv, SettledIsTrue, Sense!SettledIsTrue, Sense!Settled
<1>4. QED
  BY <1>1, <1>2, <1>3, PTL DEF Sense!Spec

-----------------------------------------------------------------------------
(***************************************************************************)
(* The settings and calibration records.                                   *)
(***************************************************************************)
\* The value a header vouches for is one of those a boot may load.
Vouched(h, values) ==
  /\ h.version = Saves!CURRENT => h.crc \in values
  /\ h.version = 1 => <<h.part, 0>> \in values

RecordTypes ==
  /\ rec = [r \in Records |-> <<rec[r][1], rec[r][2]>>]
  /\ good = [r \in Records |-> good[r]]
  /\ running = [r \in Records |-> <<running[r][1], running[r][2]>>]

\* No chunk carries a header of a value a boot must not load, and only a save that goes on, or one that
\* has failed and shows it, leaves a chunk on its way.
RecordInv ==
  /\ RecordTypes
  /\ \A r \in Records : Vouched(rec[r][1], good[r])
  /\ job # <<>> => /\ job = <<job[1], <<job[2][1], job[2][2]>>, job[3]>> /\ job[3] \in Nat \ {0}
                   /\ job[1] \in Records /\ job[2] \in good[job[1]]
  /\ chunk # <<>> => /\ chunk[1] \in Records /\ chunk[2] \in {1, 2}
                     /\ chunk[2] = 1 => Vouched(chunk[3], good[chunk[1]])
  /\ job = <<>> /\ "write" \notin recFaults => chunk = <<>>

\* What an intact record holds is what its header vouches for.
LEMMA IntactIsVouched ==
  ASSUME NEW c, NEW values, Vouched(c[1], values), Saves!Intact(c)
  PROVE  Saves!Loaded(c) \in values
<1>1. CASE c[1].version = 1
  BY <1>1 DEF Vouched, Saves!Loaded, Saves!Default
<1>2. CASE c[1].version = 2
  BY <1>2 DEF Vouched, Saves!Loaded, Saves!Intact, Saves!Payload, Saves!CURRENT
<1>3. QED
  BY <1>1, <1>2 DEF Saves!Intact, Saves!CURRENT

\* A boot takes a value its header vouches for, or the defaults.
LEMMA BootsVouched ==
  ASSUME NEW c, NEW values, Vouched(c[1], values)
  PROVE  Saves!Boots(c) \in values \cup {Saves!Default}
BY IntactIsVouched DEF Saves!Boots

\* A header vouches for what a boot has loaded.
LEMMA LoadedVouches ==
  ASSUME NEW c, Saves!Intact(c)
  PROVE  Vouched(c[1], {Saves!Loaded(c)})
<1>1. CASE c[1].version = 1
  BY <1>1 DEF Vouched, Saves!Loaded, Saves!Default, Saves!CURRENT
<1>2. CASE c[1].version = 2
  BY <1>2 DEF Vouched, Saves!Loaded, Saves!Intact, Saves!Payload, Saves!CURRENT
<1>3. QED
  BY <1>1, <1>2 DEF Saves!Intact, Saves!CURRENT

\* A chunk that is written vouches for the value it belongs to.
LEMMA HeaderVouches ==
  ASSUME NEW v, NEW values, v \in values
  PROVE  Vouched(Saves!Header(Saves!CURRENT, v), values)
BY DEF Vouched, Saves!Header, Saves!CURRENT, Saves!Payload

\* The chip after one chunk of a record has changed.
PutChunk(r, i, x) == [rec EXCEPT ![r][i] = x]

LEMMA ChunkPut ==
  ASSUME RecordTypes, NEW r \in Records, NEW i \in {1, 2}, NEW x
  PROVE  /\ PutChunk(r, i, x) = [s \in Records |-> <<PutChunk(r, i, x)[s][1], PutChunk(r, i, x)[s][2]>>]
         /\ \A s \in Records : PutChunk(r, i, x)[s][1] = IF s = r /\ i = 1 THEN x ELSE rec[s][1]
<1> DEFINE new == PutChunk(r, i, x)
<1>0. new = [rec EXCEPT ![r][i] = x]
  BY DEF PutChunk
<1> HIDE DEF new
<1>1. \A s \in Records : new[s] = IF s = r THEN [rec[r] EXCEPT ![i] = x] ELSE rec[s]
  BY <1>0 DEF RecordTypes
<1>2. DOMAIN new = Records /\ new = [s \in Records |-> new[s]]
  BY <1>0 DEF RecordTypes
<1>3. \A s \in Records : rec[s] = <<rec[s][1], rec[s][2]>>
  BY DEF RecordTypes
<1>4. new[r] = IF i = 1 THEN <<x, rec[r][2]>> ELSE <<rec[r][1], x>>
  BY <1>1, <1>3
<1>5. \A s \in Records : new[s] = <<new[s][1], new[s][2]>>
  BY <1>1, <1>3, <1>4
<1>6. new = [s \in Records |-> <<new[s][1], new[s][2]>>]
  BY <1>2, <1>5
<1>7. \A s \in Records : new[s][1] = IF s = r /\ i = 1 THEN x ELSE rec[s][1]
  BY <1>1, <1>4
<1>8. QED
  BY <1>6, <1>7 DEF new

\* What lands is vouched for.
LEMMA LandedVouched ==
  ASSUME RecordInv
  PROVE  /\ Saves!Landed = [r \in Records |-> <<Saves!Landed[r][1], Saves!Landed[r][2]>>]
         /\ \A r \in Records : Vouched(Saves!Landed[r][1], good[r])
<1>1. CASE chunk = <<>>
  BY <1>1 DEF RecordInv, RecordTypes, Saves!Landed
<1>2. CASE chunk # <<>>
  <2>1. /\ chunk[1] \in Records /\ chunk[2] \in {1, 2}
        /\ chunk[2] = 1 => Vouched(chunk[3], good[chunk[1]])
        /\ RecordTypes /\ \A r \in Records : Vouched(rec[r][1], good[r])
    BY <1>2 DEF RecordInv
  <2> DEFINE new == Saves!Landed
             k == chunk[1]
             i == chunk[2]
             x == chunk[3]
  <2>2. RecordTypes /\ k \in Records /\ i \in {1, 2} /\ new = PutChunk(k, i, x)
    BY <1>2, <2>1 DEF Saves!Landed, PutChunk
  <2> HIDE DEF new, k, i, x
  <2>3. /\ new = [s \in Records |-> <<new[s][1], new[s][2]>>]
        /\ \A s \in Records : new[s][1] = IF s = k /\ i = 1 THEN x ELSE rec[s][1]
    BY <2>2, ChunkPut
  <2>4. \A s \in Records : Vouched(new[s][1], good[s])
    BY <2>1, <2>3 DEF k, i, x
  <2>5. QED
    BY <2>3, <2>4 DEF new
<1>3. QED
  BY <1>1, <1>2

\* So is what a power cut leaves, torn or not.
LEMMA CutVouched ==
  ASSUME RecordInv, NEW new \in Saves!AfterCut
  PROVE  /\ new = [r \in Records |-> <<new[r][1], new[r][2]>>]
         /\ \A r \in Records : Vouched(new[r][1], good[r])
<1>1. RecordTypes /\ \A r \in Records : Vouched(rec[r][1], good[r])
  BY DEF RecordInv
<1>2. CASE new = rec
  BY <1>1, <1>2 DEF RecordTypes
<1>3. CASE new = Saves!Landed
  BY <1>3, LandedVouched
<1>4. ASSUME chunk # <<>>, NEW t \in Saves!TornChunks(chunk[2]), new = [rec EXCEPT ![chunk[1]][chunk[2]] = t]
      PROVE  /\ new = [r \in Records |-> <<new[r][1], new[r][2]>>]
             /\ \A r \in Records : Vouched(new[r][1], good[r])
  <2>1. chunk[1] \in Records /\ chunk[2] \in {1, 2}
    BY <1>4 DEF RecordInv
  <2>2. chunk[2] = 1 => \A r \in Records : Vouched(t, good[r])
    BY <1>4 DEF Saves!TornChunks, Saves!Blank, Saves!Mixed, Vouched, Saves!CURRENT
  <2> DEFINE k == chunk[1]
             i == chunk[2]
  <2>3. RecordTypes /\ k \in Records /\ i \in {1, 2} /\ new = PutChunk(k, i, t)
    BY <1>1, <1>4, <2>1 DEF PutChunk
  <2> HIDE DEF k, i
  <2>4. /\ new = [s \in Records |-> <<new[s][1], new[s][2]>>]
        /\ \A s \in Records : new[s][1] = IF s = k /\ i = 1 THEN t ELSE rec[s][1]
    BY <2>3, ChunkPut
  <2>5. QED
    BY <1>1, <2>2, <2>4 DEF i
<1>5. QED
  BY <1>2, <1>3, <1>4 DEF Saves!AfterCut

LEMMA RecordsInit ==
  ASSUME Saves!Init
  PROVE  RecordInv
<1>1. ASSUME NEW r \in Records
      PROVE  /\ rec[r] = <<rec[r][1], rec[r][2]>> /\ running[r] = <<running[r][1], running[r][2]>>
             /\ Vouched(rec[r][1], good[r])
  <2>1. /\ rec[r] \in {<<Saves!Blank, Torn>>, Saves!Chunks(1, <<1, 0>>), Saves!Chunks(Saves!CURRENT + 1, <<1, 1>>)}
        /\ running[r] = Saves!Boots(rec[r]) /\ good[r] = {Saves!Boots(rec[r])}
    BY DEF Saves!Init
  <2>2. rec[r] = <<rec[r][1], rec[r][2]>>
    BY <2>1 DEF Saves!Chunks
  <2>3. running[r] = <<running[r][1], running[r][2]>>
    BY <2>1 DEF Saves!Boots, Saves!Loaded, Saves!Default
  <2>4. CASE rec[r] = <<Saves!Blank, Torn>>
    BY <2>2, <2>3, <2>4 DEF Saves!Blank, Vouched, Saves!CURRENT
  <2>5. CASE rec[r] = Saves!Chunks(1, <<1, 0>>)
    <3>1. rec[r][1] = [magic |-> "own", version |-> 1, crc |-> <<1>>, part |-> 1]
      BY <2>5 DEF Saves!Chunks, Saves!Header, Saves!Payload
    <3>2. ~Saves!NeverWritten(rec[r]) /\ Saves!Loaded(rec[r]) = <<1, 0>>
      BY <3>1 DEF Saves!NeverWritten, Saves!Loaded, Saves!Default
    <3>3. Saves!Intact(rec[r])
      BY <3>1 DEF Saves!Intact, Saves!Payload, Saves!CURRENT
    <3>4. QED
      BY <2>1, <2>2, <2>3, <3>1, <3>2, <3>3 DEF Vouched, Saves!Boots, Saves!CURRENT
  <2>6. CASE rec[r] = Saves!Chunks(Saves!CURRENT + 1, <<1, 1>>)
    BY <2>2, <2>3, <2>6 DEF Saves!Chunks, Saves!Header, Vouched, Saves!CURRENT
  <2>7. QED
    BY <2>1, <2>2, <2>3, <2>4, <2>5, <2>6
<1>2. RecordTypes
  BY <1>1 DEF Saves!Init, RecordTypes
<1>3. QED
  BY <1>1, <1>2 DEF Saves!Init, RecordInv

\* A step that writes no header leaves the values vouched for, unless it forgets some of them.
LEMMA ChangeKeeps ==
  ASSUME RecordInv, NEW r \in Records, Saves!Change(r)
  PROVE  RecordInv'
<1>1. PICK x \in RecValues[r] : running' = [running EXCEPT ![r] = <<x, x>>]
  BY DEF Saves!Change
<1>2. UNCHANGED <<recFaults, recFound, rec, job, chunk, good>>
  BY DEF Saves!Change
<1>3. \A s \in Records : running'[s] = IF s = r THEN <<x, x>> ELSE running[s]
  BY <1>1 DEF RecordInv, RecordTypes
<1>4. running' = [s \in Records |-> running'[s]]
  BY <1>1 DEF RecordInv, RecordTypes
<1>5. \A s \in Records : running[s] = <<running[s][1], running[s][2]>>
  BY DEF RecordInv, RecordTypes
<1>6. \A s \in Records : running'[s] = <<running'[s][1], running'[s][2]>>
  BY <1>3, <1>5
<1>7. running' = [s \in Records |-> <<running'[s][1], running'[s][2]>>]
  BY <1>4, <1>6
<1>8. RecordTypes'
  BY <1>2, <1>7 DEF RecordInv, RecordTypes
<1>9. QED
  BY <1>2, <1>8 DEF RecordInv

LEMMA SaveKeeps ==
  ASSUME RecordInv, NEW r \in Records, Saves!Save(r)
  PROVE  RecordInv'
<1>1. /\ job = <<>> /\ job' = <<r, running[r], 1>> /\ good' = [good EXCEPT ![r] = @ \cup {running[r]}]
      /\ UNCHANGED <<running, recFaults, recFound, rec, chunk>>
  BY DEF Saves!Save
<1>2. RecordTypes /\ running[r] = <<running[r][1], running[r][2]>>
  BY DEF RecordInv, RecordTypes
<1>3. good' = [s \in Records |-> good'[s]] /\ running[r] \in good'[r] /\ \A s \in Records : good[s] \subseteq good'[s]
  BY <1>1, <1>2 DEF RecordTypes
<1>4. job' # <<>> /\ job'[1] = r /\ job'[2] = running[r] /\ job'[3] = 1
  BY <1>1
<1>5. RecordTypes'
  BY <1>1, <1>2, <1>3 DEF RecordTypes
<1>6. \A s \in Records : Vouched(rec'[s][1], good'[s])
  BY <1>1, <1>3 DEF RecordInv, Vouched
<1>7. chunk' # <<>> => /\ chunk'[1] \in Records /\ chunk'[2] \in {1, 2}
                       /\ chunk'[2] = 1 => Vouched(chunk'[3], good'[chunk'[1]])
  BY <1>1, <1>3 DEF RecordInv, Vouched
<1>8. /\ job' = <<job'[1], <<job'[2][1], job'[2][2]>>, job'[3]>> /\ job'[3] \in Nat \ {0}
      /\ job'[1] \in Records /\ job'[2] \in good'[job'[1]]
  BY <1>1, <1>2, <1>3, <1>4
<1>9. QED
  BY <1>4, <1>5, <1>6, <1>7, <1>8 DEF RecordInv

LEMMA WriteChunkKeeps ==
  ASSUME RecordInv, Saves!WriteChunk
  PROVE  RecordInv'
<1>1. /\ job # <<>> /\ job[3] \in {1, 2} /\ rec' = Saves!Landed /\ UNCHANGED <<running, recFaults, recFound, good>>
      /\ job' = [job EXCEPT ![3] = @ + 1]
      /\ \/ chunk' = <<job[1], job[3], Saves!Chunks(Saves!CURRENT, job[2])[job[3]]>>
         \/ chunk' = <<>>
  BY DEF RecordInv, Saves!WriteChunk
<1>2. /\ job = <<job[1], job[2], job[3]>> /\ job[2] = <<job[2][1], job[2][2]>>
      /\ job[1] \in Records /\ job[2] \in good[job[1]]
  BY <1>1 DEF RecordInv
<1>3. job' = <<job[1], job[2], job[3] + 1>> /\ job[3] + 1 \in Nat \ {0}
  BY <1>1, <1>2
<1>4. job' # <<>> /\ job'[1] = job[1] /\ job'[2] = job[2] /\ job'[3] = job[3] + 1
  BY <1>3
<1>5. /\ rec' = [r \in Records |-> <<rec'[r][1], rec'[r][2]>>]
      /\ \A r \in Records : Vouched(rec'[r][1], good'[r])
  BY <1>1, LandedVouched
<1>6. RecordTypes'
  BY <1>1, <1>5 DEF RecordInv, RecordTypes
<1>7. chunk' # <<>> => /\ chunk'[1] \in Records /\ chunk'[2] \in {1, 2}
                       /\ chunk'[2] = 1 => Vouched(chunk'[3], good'[chunk'[1]])
  <2>1. SUFFICES ASSUME chunk' = <<job[1], job[3], Saves!Chunks(Saves!CURRENT, job[2])[job[3]]>>
                 PROVE  /\ chunk'[1] \in Records /\ chunk'[2] \in {1, 2}
                        /\ chunk'[2] = 1 => Vouched(chunk'[3], good'[chunk'[1]])
    BY <1>1
  <2>2. chunk'[1] = job[1] /\ chunk'[2] = job[3] /\ chunk'[3] = Saves!Chunks(Saves!CURRENT, job[2])[job[3]]
    BY <2>1
  <2>3. chunk'[2] = 1 => chunk'[3] = Saves!Header(Saves!CURRENT, job[2])
    BY <2>2 DEF Saves!Chunks
  <2>4. QED
    BY <1>1, <1>2, <2>2, <2>3, HeaderVouches
<1>8. /\ job' = <<job'[1], <<job'[2][1], job'[2][2]>>, job'[3]>> /\ job'[3] \in Nat \ {0}
      /\ job'[1] \in Records /\ job'[2] \in good'[job'[1]]
  BY <1>1, <1>2, <1>3, <1>4
<1>9. QED
  BY <1>4, <1>5, <1>6, <1>7, <1>8 DEF RecordInv

\* What has been read back is what a boot will load.
LEMMA SameBoots ==
  ASSUME NEW c, NEW v, v = <<v[1], v[2]>>, Saves!Same(c, v)
  PROVE  Saves!Boots(c) = v /\ Vouched(c[1], {v})
<1>1. c[1] = Saves!Header(2, v) /\ c[2] = v[2]
  BY DEF Saves!Same, Saves!Chunks, Saves!CURRENT
<1>2. c[1].magic = "own" /\ c[1].version = 2 /\ c[1].crc = v /\ c[1].part = v[1]
  BY <1>1 DEF Saves!Header, Saves!Payload
<1>3. ~Saves!NeverWritten(c) /\ Saves!Loaded(c) = v
  BY <1>1, <1>2 DEF Saves!NeverWritten, Saves!Loaded
<1>4. Saves!Intact(c)
  BY <1>1, <1>2 DEF Saves!Intact, Saves!Payload, Saves!CURRENT
<1>5. Vouched(c[1], {v})
  BY <1>2 DEF Vouched, Saves!CURRENT
<1>6. QED
  BY <1>3, <1>4, <1>5 DEF Saves!Boots

LEMMA ReadBackEffect ==
  ASSUME RecordInv, Saves!ReadBack
  PROVE  /\ job[1] \in Records /\ job[2] = <<job[2][1], job[2][2]>>
         /\ rec' = Saves!Landed /\ chunk' = <<>> /\ job' = <<>> /\ UNCHANGED <<running, recFound>>
         /\ \/ /\ Saves!Same(rec'[job[1]], job[2])
               /\ recFaults' = recFaults \ {job[1], "write"} /\ good' = [good EXCEPT ![job[1]] = {job[2]}]
            \/ recFaults' = recFaults \cup {"write"} /\ good' = good
<1>1. job # <<>> /\ job[1] \in Records /\ job[2] = <<job[2][1], job[2][2]>>
  BY DEF RecordInv, Saves!ReadBack
<1>2. QED
  BY <1>1 DEF Saves!ReadBack

LEMMA ReadBackKeeps ==
  ASSUME RecordInv, Saves!ReadBack
  PROVE  RecordInv'
<1> DEFINE r == job[1]
           v == job[2]
<1>1. /\ r \in Records /\ v = <<v[1], v[2]>>
      /\ rec' = Saves!Landed /\ chunk' = <<>> /\ job' = <<>> /\ UNCHANGED <<running, recFound>>
      /\ \/ Saves!Same(rec'[r], v) /\ good' = [good EXCEPT ![r] = {v}]
         \/ good' = good
  BY ReadBackEffect
<1> HIDE DEF r, v
<1>2. /\ rec' = [s \in Records |-> <<rec'[s][1], rec'[s][2]>>]
      /\ \A s \in Records : Vouched(rec'[s][1], good[s])
  BY <1>1, LandedVouched
<1>3. RecordTypes'
  BY <1>1, <1>2 DEF RecordInv, RecordTypes
<1>4. \A s \in Records : Vouched(rec'[s][1], good'[s])
  <2>1. CASE good' = good
    BY <1>2, <2>1
  <2>2. CASE Saves!Same(rec'[r], v) /\ good' = [good EXCEPT ![r] = {v}]
    <3>1. Vouched(rec'[r][1], {v})
      BY <1>1, <2>2, SameBoots
    <3>2. \A s \in Records : good'[s] = IF s = r THEN {v} ELSE good[s]
      BY <1>1, <2>2 DEF RecordInv, RecordTypes
    <3>3. QED
      BY <1>2, <3>1, <3>2
  <2>3. QED
    BY <1>1, <2>1, <2>2
<1>5. QED
  BY <1>1, <1>3, <1>4 DEF RecordInv

\* A boot takes from each record what its header vouches for, and remembers it.
LEMMA RecordsBoot ==
  ASSUME RecordInv, Saves!CutAndBoot
  PROVE  /\ job' = <<>> /\ chunk' = <<>>
         /\ RecordTypes'
         /\ \A r \in Records : Vouched(rec'[r][1], good[r]) /\ Vouched(rec'[r][1], good'[r])
         /\ \/ recFaults' # {} /\ running' = [r \in Records |-> Saves!Default]
            \/ \E unread \in SUBSET Records : Saves!Boot(unread)
<1>1. rec' \in Saves!AfterCut /\ job' = <<>> /\ chunk' = <<>>
  BY DEF Saves!CutAndBoot
<1>2. /\ rec' = [r \in Records |-> <<rec'[r][1], rec'[r][2]>>]
      /\ \A r \in Records : Vouched(rec'[r][1], good[r])
  BY <1>1, CutVouched
<1>3. CASE Saves!BootBlind
  <2>1. /\ running' = [r \in Records |-> Saves!Default] /\ good' = good /\ recFaults' = {"missing"}
    BY <1>3 DEF Saves!BootBlind
  <2>2. Saves!Default = <<Saves!Default[1], Saves!Default[2]>>
    BY DEF Saves!Default
  <2>3. running' = [r \in Records |-> <<running'[r][1], running'[r][2]>>]
    BY <2>1, <2>2
  <2>4. RecordTypes'
    BY <1>2, <2>1, <2>3 DEF RecordInv, RecordTypes
  <2>5. QED
    BY <1>1, <1>2, <2>1, <2>4
<1>4. ASSUME NEW unread \in SUBSET Records, Saves!Boot(unread)
      PROVE  /\ RecordTypes'
             /\ \A r \in Records : Vouched(rec'[r][1], good'[r])
  <2>1. /\ running' = [r \in Records |-> IF r \in unread THEN Saves!Default ELSE Saves!Boots(rec'[r])]
        /\ good' = [r \in Records |-> IF r \in unread \/ Saves!NeverWritten(rec'[r]) \/ ~Saves!Intact(rec'[r])
                                      THEN good[r] ELSE {running'[r]}]
    BY <1>4 DEF Saves!Boot
  <2>2. ASSUME NEW c
        PROVE  Saves!Boots(c) = <<Saves!Boots(c)[1], Saves!Boots(c)[2]>>
    BY DEF Saves!Boots, Saves!Loaded, Saves!Default
  <2>3. Saves!Default = <<Saves!Default[1], Saves!Default[2]>>
    BY DEF Saves!Default
  <2>4. \A r \in Records : running'[r] = <<running'[r][1], running'[r][2]>>
    BY <2>1, <2>2, <2>3
  <2>5. running' = [r \in Records |-> running'[r]]
    BY <2>1
  <2>6. running' = [r \in Records |-> <<running'[r][1], running'[r][2]>>]
    BY <2>4, <2>5
  <2>7. good' = [r \in Records |-> good'[r]]
    BY <2>1
  <2>8. RecordTypes'
    BY <1>2, <2>6, <2>7 DEF RecordTypes
  <2>9. ASSUME NEW r \in Records
        PROVE  Vouched(rec'[r][1], good'[r])
    <3>1. CASE r \in unread \/ Saves!NeverWritten(rec'[r]) \/ ~Saves!Intact(rec'[r])
      BY <1>2, <2>1, <3>1
    <3>2. CASE r \notin unread /\ ~Saves!NeverWritten(rec'[r]) /\ Saves!Intact(rec'[r])
      <4>1. good'[r] = {Saves!Loaded(rec'[r])}
        BY <2>1, <3>2 DEF Saves!Boots
      <4>2. QED
        BY <3>2, <4>1, LoadedVouches
    <3>3. QED
      BY <3>1, <3>2
  <2>10. QED
    BY <2>8, <2>9
<1>5. CASE \E unread \in SUBSET Records : Saves!Boot(unread)
  BY <1>1, <1>2, <1>4, <1>5
<1>6. QED
  BY <1>3, <1>5 DEF Saves!CutAndBoot

LEMMA RecordStep ==
  ASSUME RecordInv, [Saves!Next]_(Saves!vars)
  PROVE  RecordInv'
<1>1. ASSUME NEW r \in Records, Saves!Change(r) \/ Saves!Save(r)
      PROVE  RecordInv'
  BY <1>1, ChangeKeeps, SaveKeeps
<1>2. CASE Saves!WriteChunk
  BY <1>2, WriteChunkKeeps
<1>3. CASE Saves!Fail
  BY <1>3 DEF RecordInv, RecordTypes, Saves!Fail
<1>4. CASE Saves!ReadBack
  BY <1>4, ReadBackKeeps
<1>5. CASE Saves!WriteDone
  <2>1. /\ rec' = [r \in Records |-> <<rec'[r][1], rec'[r][2]>>]
        /\ \A r \in Records : Vouched(rec'[r][1], good[r])
    BY <1>5, LandedVouched DEF Saves!WriteDone
  <2>2. RecordTypes'
    BY <1>5, <2>1 DEF RecordInv, RecordTypes, Saves!WriteDone
  <2>3. QED
    BY <1>5, <2>1, <2>2 DEF RecordInv, Saves!WriteDone
<1>6. CASE Saves!CutAndBoot
  BY <1>6, RecordsBoot DEF RecordInv
<1>7. CASE UNCHANGED Saves!vars
  BY <1>7 DEF RecordInv, RecordTypes, Saves!vars
<1>8. QED
  BY <1>1, <1>2, <1>3, <1>4, <1>5, <1>6, <1>7 DEF Saves!Next

LEMMA RecordInvAlways == Saves!Spec => []RecordInv
<1>1. Saves!Init => RecordInv
  BY RecordsInit
<1>2. RecordInv /\ [Saves!Next]_(Saves!vars) => RecordInv'
  BY RecordStep
<1>3. QED
  BY <1>1, <1>2, PTL DEF Saves!Spec

\* A boot never takes a mixture of two values of a record (nv_store.cpp): it takes the value saved last, one
\* whose save came after it and did not report success, or the defaults; for any records and values, with a
\* power cut, a torn chunk, a refused one or one acknowledged and not stored at any point.
THEOREM BootLoadsSavedAlways == Saves!Spec => BootLoadsSaved
<1>1. ASSUME RecordInv, Saves!CutAndBoot, NEW r \in Records
      PROVE  running'[r] \in good[r] \cup {Saves!Default}
  <2>1. /\ Vouched(rec'[r][1], good[r])
        /\ \/ running' = [s \in Records |-> Saves!Default]
           \/ \E unread \in SUBSET Records : Saves!Boot(unread)
    BY <1>1, RecordsBoot
  <2>2. running'[r] \in {Saves!Default, Saves!Boots(rec'[r])}
    BY <2>1 DEF Saves!Boot
  <2>3. QED
    BY <2>1, <2>2, BootsVouched
<1>2. RecordInv /\ [Saves!Next]_(Saves!vars)
        => [Saves!CutAndBoot => \A r \in Records : running'[r] \in good[r] \cup {Saves!Default}]_(Saves!vars)
  BY <1>1
<1>3. QED
  BY <1>2, RecordInvAlways, PTL DEF Saves!Spec, BootLoadsSaved, Saves!BootLoadsSaved

LEMMA LossStep ==
  ASSUME RecordInv, Saves!Next, NEW r \in Records, Saves!Lost(r)', job' = <<>>, recFaults' = {}
  PROVE  \/ Saves!Lost(r) /\ job = <<>> /\ recFaults = {}
         \/ Saves!CutAndBoot /\ Saves!NeverWritten(rec'[r])
         \/ Saves!ReadBack /\ job[1] # r
<1>1. ASSUME UNCHANGED <<rec, good, job, recFaults>>
      PROVE  Saves!Lost(r) /\ job = <<>> /\ recFaults = {}
  BY <1>1 DEF Saves!Lost
<1>2. ASSUME NEW s \in Records, Saves!Change(s)
      PROVE  Saves!Lost(r) /\ job = <<>> /\ recFaults = {}
  BY <1>1, <1>2 DEF Saves!Change
<1>3. ASSUME NEW s \in Records, Saves!Save(s)
      PROVE  FALSE
  BY <1>3 DEF Saves!Save
<1>4. ASSUME Saves!WriteChunk
      PROVE  FALSE
  <2>1. job' = <<job[1], job[2], job[3] + 1>>
    BY <1>4, WriteChunkKeeps DEF RecordInv, Saves!WriteChunk
  <2>2. QED
    BY <2>1
<1>5. ASSUME Saves!Fail
      PROVE  FALSE
  BY <1>5 DEF Saves!Fail
<1>6. ASSUME Saves!ReadBack
      PROVE  job[1] # r
  <2>1. SUFFICES ASSUME job[1] = r PROVE FALSE
    OBVIOUS
  <2>2. job[2] = <<job[2][1], job[2][2]>> /\ Saves!Same(rec'[r], job[2]) /\ good' = [good EXCEPT ![r] = {job[2]}]
    BY <1>6, <2>1, ReadBackEffect
  <2>3. good'[r] = {job[2]}
    BY <2>2 DEF RecordInv, RecordTypes
  <2>4. Saves!Boots(rec'[r]) = job[2]
    BY <2>2, SameBoots
  <2>5. QED
    BY <2>3, <2>4 DEF Saves!Lost
<1>7. ASSUME Saves!WriteDone
      PROVE  FALSE
  BY <1>7 DEF RecordInv, Saves!WriteDone
<1>8. ASSUME Saves!CutAndBoot
      PROVE  Saves!NeverWritten(rec'[r])
  <2>1. SUFFICES ASSUME ~Saves!NeverWritten(rec'[r]) PROVE FALSE
    OBVIOUS
  <2>2. PICK unread \in SUBSET Records : Saves!Boot(unread)
    BY <1>8, RecordsBoot
  <2>3. r \notin unread /\ Saves!Intact(rec'[r])
    BY <2>1, <2>2 DEF Saves!Boot
  <2>4. good'[r] = {Saves!Boots(rec'[r])}
    BY <2>1, <2>2, <2>3 DEF Saves!Boot
  <2>5. QED
    BY <2>4 DEF Saves!Lost
<1>9. QED
  BY <1>2, <1>3, <1>4, <1>5, <1>6, <1>7, <1>8 DEF Saves!Next

\* A record that the next boot would not load has a fault shown (PROTOCOL.md:169), whatever step brought the loss
\* about, but for a header torn to look never written (nv_store.cpp:204) and a fault taken away by the save of
\* the other record (366); for any records and values.
THEOREM LossShowsAlways == Saves!Spec => LossShows
<1>1. RecordInv /\ [Saves!Next]_(Saves!vars)
        => [\A r \in Records :
              Saves!Lost(r)' /\ job' = <<>> /\ recFaults' = {} =>
                \/ Saves!Lost(r) /\ job = <<>> /\ recFaults = {}
                \/ Saves!CutAndBoot /\ Saves!NeverWritten(rec'[r])
                \/ Saves!ReadBack /\ job[1] # r]_(Saves!vars)
  BY LossStep
<1>2. QED
  BY <1>1, RecordInvAlways, PTL DEF Saves!Spec, LossShows, Saves!LossShows
===============================================================================
