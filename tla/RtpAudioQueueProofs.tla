-------------------------- MODULE RtpAudioQueueProofs --------------------------
(***************************************************************************)
(* Proofs about RtpAudioQueue, for any number of data and parity packets   *)
(* in a block, any modulus of the numbers, any reordering, repetition and  *)
(* loss, and streams of any length, however often their numbers wrap.      *)
(* The blocks in use at one time, from the latest a packet may be of to    *)
(* the newest, are within half of the modulus (ShardsAssumption), and the  *)
(* theorems assume ~WrapsEarly.                                            *)
(*                                                                         *)
(* The numbers are cyclic and their order is not: so each is given its     *)
(* position (Pos), the distance from the oldest number that can be in use  *)
(* while z is the oldest block.  Of two numbers in use one is before the   *)
(* other iff its position is lower (Before), a step of the numbers is one  *)
(* of the positions (Further), and blocks do not overlap (Apart).  The     *)
(* inductive invariant (QueueInv) is in terms of positions: the list is    *)
(* sorted and within reach of the newest block (Listed), the next packet   *)
(* is in the oldest block (Numbered), and what was played last is directly *)
(* before it, or at the end of an earlier block (Preceded).  When the      *)
(* oldest block moves on, so does the origin of the positions, and the     *)
(* order of what is in use stays (OrderMoves).                             *)
(***************************************************************************)
EXTENDS RtpAudioQueue, SequenceTheorems, WellFoundedInduction, TLAPS

(* Where the oldest block is, and how far the numbers in use go: the positions. *)
Offset == (MaxReorder + 1) * DataShards
Half   == (MaxReorder + MaxAhead + 3) * DataShards

(* The position of a number, as seen from block z: how far it is from the      *)
(* oldest one in use while z is the oldest block.                              *)
Pos(z, x) == U16(x - z + Offset)

(* A number of packets that makes entire blocks. *)
Whole(x) == \E i \in Int : x = i * DataShards

-------------------------------------------------------------------------------
(* A number is a multiple of another one and the remainder, ... *)
LEMMA Division ==
  ASSUME NEW m \in Int, m > 0, NEW x \in Int
  PROVE  x % m \in 0 .. m - 1 /\ \E k \in Int : x = m * k + (x % m)
<1>1. \E k \in Int : m * k + (x % m) = x
  BY Z3T(60)
<1>2. x % m \in 0 .. m - 1
  OBVIOUS
<1> QED
  BY <1>1, <1>2

(* ... of which there is one. *)
LEMMA RemainderOf ==
  ASSUME NEW m \in Nat \ {0}, NEW x \in Int, NEW k \in Int, NEW r \in 0 .. m - 1, x = k * m + r
  PROVE  x % m = r
OBVIOUS

(* The number of sequence numbers is twice what is in use at most. *)
LEMMA Numbers ==
  /\ DataShards \in Nat /\ DataShards > 1 /\ SeqModulus \in Nat /\ SeqModulus > 0
  /\ Offset \in Nat /\ Half \in Nat /\ DataShards <= Offset
  /\ 2 * Half <= SeqModulus
  /\ Half = Offset + MaxAhead * DataShards + 2 * DataShards
  /\ MaxAhead * DataShards \in Nat
  /\ MaxReorder * DataShards \in Nat /\ MaxReorder * DataShards = Offset - DataShards
  /\ MaxReorder * DataShards <= MaxAhead * DataShards
  /\ Whole(SeqModulus) /\ Whole(Offset)
<1>1. /\ DataShards \in Nat /\ DataShards > 1 /\ Blocks \in Nat /\ Blocks > 0
      /\ MaxReorder \in Nat /\ MaxAhead \in Nat /\ MaxReorder <= MaxAhead
      /\ 2 * (MaxReorder + MaxAhead + 3) <= Blocks
  BY ShardsAssumption
<1>2. /\ SeqModulus \in Nat /\ Offset \in Nat /\ Half \in Nat
      /\ MaxAhead * DataShards \in Nat /\ MaxReorder * DataShards \in Nat
  BY <1>1 DEF SeqModulus, Offset, Half
<1>3. Half = Offset + MaxAhead * DataShards + 2 * DataShards
  BY <1>1, Z3T(30) DEF Half, Offset
<1>4. 2 * Half <= SeqModulus
  <2> DEFINE h == MaxReorder + MaxAhead + 3
             rest == Blocks - 2 * h
  <2>1. h \in Nat /\ rest \in Nat /\ Blocks = 2 * h + rest
    BY <1>1
  <2> HIDE DEF h, rest
  <2>2. DataShards * Blocks = 2 * (h * DataShards) + rest * DataShards
    BY <1>1, <2>1, Z3T(30)
  <2>3. rest * DataShards \in Nat /\ h * DataShards \in Nat
    BY <1>1, <2>1
  <2> DEFINE u == DataShards * Blocks  v == h * DataShards  w == rest * DataShards
  <2>4. u = 2 * v + w /\ v \in Nat /\ w \in Nat
    BY <2>2, <2>3
  <2> HIDE DEF u, v, w
  <2>5. 2 * v <= u
    BY <2>4
  <2> QED
    BY <2>5 DEF u, v, h, SeqModulus, Half
<1>5. Whole(SeqModulus) /\ Whole(Offset)
  BY <1>1, Z3T(30) DEF Whole, SeqModulus, Offset
<1>6. MaxReorder * DataShards = Offset - DataShards
  BY <1>1, Z3T(30) DEF Offset
<1>7. MaxReorder * DataShards <= MaxAhead * DataShards
  <2> DEFINE more == MaxAhead - MaxReorder
  <2>1. more \in Nat
    BY <1>1
  <2>2. MaxAhead * DataShards = MaxReorder * DataShards + more * DataShards
    BY <1>1, Z3T(30)
  <2>3. more * DataShards \in Nat
    BY <1>1, <2>1
  <2> DEFINE x == MaxAhead * DataShards  y == MaxReorder * DataShards  w == more * DataShards
  <2>4. x = y + w /\ x \in Nat /\ y \in Nat /\ w \in Nat
    BY <1>2, <2>2, <2>3
  <2> HIDE DEF x, y, w
  <2>5. y <= x
    BY <2>4
  <2> QED
    BY <2>5 DEF x, y
<1>8. SeqModulus > 0
  <2> DEFINE o == Offset  x == MaxAhead * DataShards
  <2>1. /\ o \in Nat /\ x \in Nat /\ Half = o + x + 2 * DataShards
        /\ 2 * Half <= SeqModulus /\ SeqModulus \in Nat
    BY <1>2, <1>3, <1>4
  <2> HIDE DEF o, x
  <2> QED
    BY <1>1, <2>1
<1>9. DataShards <= Offset
  BY <1>1, <1>2, <1>6
<1> QED
  BY <1>1, <1>2, <1>3, <1>4, <1>5, <1>6, <1>7, <1>8, <1>9

-------------------------------------------------------------------------------
(* A number is its sequence number, but for the times it wrapped, ... *)
LEMMA Wraps ==
  ASSUME NEW x \in Int
  PROVE  U16(x) \in SeqNumbers /\ \E k \in Int : x = SeqModulus * k + U16(x)
<1> DEFINE m == SeqModulus
<1>1. m \in Int /\ m > 0
  BY Numbers
<1> HIDE DEF m
<1>2. x % m \in 0 .. m - 1 /\ \E k \in Int : x = m * k + (x % m)
  BY <1>1, Division
<1> QED
  BY <1>2 DEF m, U16, SeqNumbers

(* ... and that is the only one. *)
LEMMA WrapsTo ==
  ASSUME NEW x \in Int, NEW k \in Int, NEW r \in SeqNumbers, x = SeqModulus * k + r
  PROVE  U16(x) = r
<1> DEFINE m == SeqModulus
<1>1. m \in Nat \ {0} /\ r \in 0 .. m - 1 /\ x = k * m + r
  BY Numbers DEF SeqNumbers
<1> HIDE DEF m
<1>2. x % m = r
  BY <1>1, RemainderOf
<1> QED
  BY <1>2 DEF m, U16

(* A base is a number. *)
LEMMA BaseNumber ==
  ASSUME NEW z \in Bases
  PROVE  z \in SeqNumbers /\ z \in Int /\ z >= 0 /\ z < SeqModulus
BY Numbers DEF Bases, SeqNumbers

(* A position is a number, and so many from the first. *)
LEMMA Position ==
  ASSUME NEW z \in Bases, NEW x \in Int
  PROVE  /\ Pos(z, x) \in SeqNumbers /\ Pos(z, x) \in Nat /\ Pos(z, x) < SeqModulus
         /\ \E k \in Int : x - z + Offset = SeqModulus * k + Pos(z, x)
<1>1. x - z + Offset \in Int
  BY BaseNumber, Numbers
<1>2. U16(x - z + Offset) \in SeqNumbers
  BY <1>1, Wraps
<1>3. \E k \in Int : x - z + Offset = SeqModulus * k + U16(x - z + Offset)
  BY <1>1, Wraps
<1>4. Pos(z, x) = U16(x - z + Offset)
  BY DEF Pos
<1> QED
  BY <1>2, <1>3, <1>4, Numbers DEF SeqNumbers

(* Multiples of the modulus add up. *)
LEMMA Multiples ==
  ASSUME NEW j \in Int, NEW k \in Int
  PROVE  /\ SeqModulus * j \in Int /\ SeqModulus * k \in Int
         /\ SeqModulus * (j - k) = SeqModulus * j - SeqModulus * k
         /\ SeqModulus * (j + k) = SeqModulus * j + SeqModulus * k
<1> DEFINE m == SeqModulus
<1>1. m \in Int
  BY Numbers
<1> HIDE DEF m
<1> QED
  BY <1>1, Z3T(30) DEF m

(* A number that is d further is at a position d further, *)
LEMMA Further ==
  ASSUME NEW z \in Bases, NEW x \in Int, NEW d \in Int, Pos(z, x) + d \in SeqNumbers
  PROVE  Pos(z, U16(x + d)) = Pos(z, x) + d /\ Pos(z, x + d) = Pos(z, x) + d
<1>1. PICK k \in Int : x - z + Offset = SeqModulus * k + Pos(z, x)
  BY Position
<1>2. PICK j \in Int : x + d = SeqModulus * j + U16(x + d)
  BY Wraps
<1> DEFINE y == U16(x + d)
<1>3. SeqModulus * j \in Int /\ SeqModulus * k \in Int /\ SeqModulus * (k - j) = SeqModulus * k - SeqModulus * j
  BY Multiples
<1>0. y \in Int /\ Pos(z, x) \in Int /\ z \in Int /\ Offset \in Int
  <2>1. y \in SeqNumbers /\ Pos(z, x) \in SeqNumbers
    BY Wraps, Position
  <2> QED
    BY <2>1, BaseNumber, Numbers DEF SeqNumbers
<1> DEFINE u == SeqModulus * j  v == SeqModulus * k  w == SeqModulus * (k - j)
<1>4. /\ x - z + Offset = v + Pos(z, x) /\ x + d = u + y /\ w = v - u /\ u \in Int /\ v \in Int
  BY <1>1, <1>2, <1>3
<1> HIDE DEF u, v, w, y
<1>5. /\ y - z + Offset = w + (Pos(z, x) + d)
      /\ (x + d) - z + Offset = v + (Pos(z, x) + d)
      /\ y - z + Offset \in Int /\ (x + d) - z + Offset \in Int
  BY <1>0, <1>4
<1>6. U16(y - z + Offset) = Pos(z, x) + d
  BY <1>5, WrapsTo DEF w
<1>7. U16((x + d) - z + Offset) = Pos(z, x) + d
  BY <1>5, WrapsTo DEF v
<1> QED
  BY <1>6, <1>7 DEF Pos, y

(* and one number is as far from another as their positions are. *)
LEMMA Distance ==
  ASSUME NEW z \in Bases, NEW x \in Int, NEW y \in Int
  PROVE  U16(x - y) = IF Pos(z, y) <= Pos(z, x) THEN Pos(z, x) - Pos(z, y) ELSE SeqModulus + Pos(z, x) - Pos(z, y)
<1>1. PICK k \in Int : x - z + Offset = SeqModulus * k + Pos(z, x)
  BY Position
<1>2. PICK j \in Int : y - z + Offset = SeqModulus * j + Pos(z, y)
  BY Position
<1>0. z \in Int /\ Offset \in Int
  BY BaseNumber, Numbers
<1>3. /\ SeqModulus * j \in Int /\ SeqModulus * k \in Int /\ SeqModulus * (k - j) = SeqModulus * k - SeqModulus * j
      /\ SeqModulus * (k - j - 1) = SeqModulus * (k - j) - SeqModulus
  <2>1. SeqModulus * j \in Int /\ SeqModulus * k \in Int /\ SeqModulus * (k - j) = SeqModulus * k - SeqModulus * j
    BY Multiples
  <2> DEFINE i == k - j
  <2>2. i \in Int
    OBVIOUS
  <2> HIDE DEF i
  <2>3. SeqModulus * (i - 1) = SeqModulus * i - SeqModulus * 1
    BY <2>2, Multiples
  <2>4. SeqModulus * 1 = SeqModulus
    BY Numbers
  <2> QED
    BY <2>1, <2>3, <2>4 DEF i
<1>4. /\ Pos(z, x) \in 0 .. SeqModulus - 1 /\ Pos(z, y) \in 0 .. SeqModulus - 1 /\ SeqModulus \in Nat
  BY Position, Numbers DEF SeqNumbers
<1> DEFINE u == SeqModulus * j  v == SeqModulus * k  w == SeqModulus * (k - j)  s == SeqModulus * (k - j - 1)
<1>5. /\ x - z + Offset = v + Pos(z, x) /\ y - z + Offset = u + Pos(z, y)
      /\ w = v - u /\ s = w - SeqModulus /\ u \in Int /\ v \in Int
  BY <1>1, <1>2, <1>3, <1>4
<1> HIDE DEF u, v, w, s
<1>6. x - y = w + (Pos(z, x) - Pos(z, y)) /\ x - y = s + (SeqModulus + Pos(z, x) - Pos(z, y))
  <2> DEFINE p == Pos(z, x)  q == Pos(z, y)  m == SeqModulus
  <2>1. /\ x - z + Offset = v + p /\ y - z + Offset = u + q /\ w = v - u /\ s = w - m
        /\ u \in Int /\ v \in Int /\ p \in Int /\ q \in Int /\ m \in Int
    BY <1>4, <1>5
  <2> HIDE DEF p, q, m
  <2>2. x - y = w + (p - q) /\ x - y = s + (m + p - q)
    BY <1>0, <2>1
  <2> QED
    BY <2>2 DEF p, q, m
<1>7. CASE Pos(z, y) <= Pos(z, x)
  <2>1. Pos(z, x) - Pos(z, y) \in SeqNumbers
    BY <1>4, <1>7 DEF SeqNumbers
  <2> QED
    BY <1>6, <1>7, <2>1, WrapsTo DEF w
<1>8. CASE ~(Pos(z, y) <= Pos(z, x))
  <2>1. SeqModulus + Pos(z, x) - Pos(z, y) \in SeqNumbers
    BY <1>4, <1>8 DEF SeqNumbers
  <2> QED
    BY <1>6, <1>8, <2>1, WrapsTo DEF s
<1> QED
  BY <1>7, <1>8

(* There is one sequence number at a position. *)
LEMMA OneAtPosition ==
  ASSUME NEW z \in Bases, NEW x \in SeqNumbers, NEW y \in SeqNumbers, Pos(z, x) = Pos(z, y)
  PROVE  x = y
<1>1. x \in 0 .. SeqModulus - 1 /\ y \in 0 .. SeqModulus - 1 /\ SeqModulus \in Nat /\ SeqModulus > 0
  BY Numbers DEF SeqNumbers
<1>2. U16(x - y) = 0
  <2>1. U16(x - y) = Pos(z, x) - Pos(z, y) /\ Pos(z, x) \in Nat /\ Pos(z, y) \in Nat
    BY <1>1, Distance, Position
  <2> QED
    BY <2>1
<1>3. CASE x >= y
  <2>1. x - y \in SeqNumbers /\ x - y = SeqModulus * 0 + (x - y)
    BY <1>1, <1>3 DEF SeqNumbers
  <2>2. U16(x - y) = x - y
    <3>1. x - y \in Int
      BY <1>1
    <3> QED
      BY <2>1, <3>1, WrapsTo
  <2> QED
    BY <1>1, <1>2, <2>2
<1>4. CASE x < y
  <2>1. x - y + SeqModulus \in SeqNumbers /\ x - y = SeqModulus * (-1) + (x - y + SeqModulus)
    BY <1>1, <1>4 DEF SeqNumbers
  <2>2. U16(x - y) = x - y + SeqModulus
    BY <1>1, <2>1, WrapsTo
  <2> QED
    BY <1>1, <1>2, <2>2, <1>4
<1> QED
  BY <1>1, <1>3, <1>4

(* Of the numbers in use, the one that is before is the one at the lower position. *)
LEMMA Before ==
  ASSUME NEW z \in Bases, NEW x \in Int, NEW y \in Int, Pos(z, x) < Half, Pos(z, y) < Half
  PROVE  isBefore16(x, y) <=> Pos(z, x) < Pos(z, y)
<1>1. /\ Pos(z, x) \in Nat /\ Pos(z, y) \in Nat /\ SeqModulus \in Nat /\ Half \in Nat /\ 2 * Half <= SeqModulus
  BY Position, Numbers
<1>2. U16(x - y) = IF Pos(z, y) <= Pos(z, x) THEN Pos(z, x) - Pos(z, y) ELSE SeqModulus + Pos(z, x) - Pos(z, y)
  BY Distance
<1> QED
  BY <1>1, <1>2 DEF isBefore16

-------------------------------------------------------------------------------
(* A number that is in range is its own sequence number. *)
LEMMA NoWrap ==
  ASSUME NEW x \in SeqNumbers
  PROVE  U16(x) = x
<1>1. x \in Int /\ x = SeqModulus * 0 + x
  BY Numbers DEF SeqNumbers
<1> QED
  BY <1>1, WrapsTo

(* Entire blocks add up to entire blocks. *)
LEMMA WholeSum ==
  ASSUME NEW x, NEW y, Whole(x), Whole(y)
  PROVE  x \in Int /\ y \in Int /\ Whole(x + y) /\ Whole(x - y)
<1>1. PICK i \in Int : x = i * DataShards
  BY DEF Whole
<1>2. PICK j \in Int : y = j * DataShards
  BY DEF Whole
<1>3. DataShards \in Int
  BY Numbers
<1>4. x + y = (i + j) * DataShards /\ x - y = (i - j) * DataShards
  BY <1>1, <1>2, <1>3, Z3T(30)
<1>5. x \in Int /\ y \in Int /\ i + j \in Int /\ i - j \in Int
  BY <1>1, <1>2, <1>3
<1> QED
  BY <1>4, <1>5 DEF Whole

(* Of two numbers of entire blocks, the larger one is larger by a block. *)
LEMMA WholeGap ==
  ASSUME NEW x, NEW y, Whole(x), Whole(y), x < y
  PROVE  x + DataShards <= y
<1>1. PICK i \in Int : x = i * DataShards
  BY DEF Whole
<1>2. PICK j \in Int : y = j * DataShards
  BY DEF Whole
<1>3. DataShards \in Nat /\ DataShards > 1 /\ x \in Int /\ y \in Int
  BY <1>1, <1>2, Numbers
<1>4. CASE j <= i
  <2>1. i - j \in Nat
    BY <1>4
  <2>2. (i - j) * DataShards \in Nat
    BY <1>3, <2>1
  <2>3. (i - j) * DataShards = x - y
    BY <1>1, <1>2, <1>3, Z3T(30)
  <2> QED
    BY <1>3, <2>2, <2>3
<1>5. CASE i < j
  <2>1. j - i - 1 \in Nat
    BY <1>5
  <2>2. (j - i - 1) * DataShards \in Nat
    BY <1>3, <2>1
  <2>3. (j - i - 1) * DataShards = y - x - DataShards
    BY <1>1, <1>2, <1>3, Z3T(30)
  <2> QED
    BY <1>3, <2>2, <2>3
<1> QED
  BY <1>4, <1>5

(* What the bases of the blocks are: the numbers of entire blocks. *)
LEMMA WholeBase ==
  ASSUME NEW b \in SeqNumbers
  PROVE  b \in Bases <=> Whole(b)
<1>1. b \in Int /\ DataShards \in Int /\ DataShards > 0
  BY Numbers DEF SeqNumbers
<1>2. ASSUME b \in Bases PROVE Whole(b)
  <2>1. PICK k \in Int : b = DataShards * k + (b % DataShards)
    BY <1>1, Division
  <2>2. b % DataShards = 0
    BY <1>2 DEF Bases
  <2>3. b = k * DataShards
    BY <1>1, <2>1, <2>2, Z3T(30)
  <2> QED
    BY <2>3 DEF Whole
<1>3. ASSUME Whole(b) PROVE b \in Bases
  <2>1. PICK i \in Int : b = i * DataShards
    BY <1>3 DEF Whole
  <2> DEFINE d == DataShards
  <2>2. d \in Nat \ {0} /\ b = i * d + 0 /\ 0 \in 0 .. d - 1
    BY <1>1, <2>1, Numbers
  <2> HIDE DEF d
  <2>3. b % d = 0
    BY <1>1, <2>2, RemainderOf
  <2> QED
    BY <2>3 DEF Bases, d
<1> QED
  BY <1>2, <1>3

(* Wrapping keeps blocks entire, ... *)
LEMMA WholeWraps ==
  ASSUME NEW x, Whole(x)
  PROVE  Whole(U16(x))
<1>1. x \in Int
  BY WholeSum
<1>2. PICK k \in Int : x = SeqModulus * k + U16(x)
  BY <1>1, Wraps
<1>3. Whole(SeqModulus * k)
  <2>1. PICK i \in Int : SeqModulus = i * DataShards
    BY Numbers DEF Whole
  <2>2. SeqModulus * k = (i * k) * DataShards
    BY <2>1, Numbers, Z3T(30)
  <2>3. i * k \in Int
    OBVIOUS
  <2> QED
    BY <2>2, <2>3 DEF Whole
<1> DEFINE m == SeqModulus * k  r == U16(x)
<1>4. Whole(x - m)
  BY <1>3, WholeSum
<1>5. m \in Int /\ r \in Int /\ x = m + r
  BY <1>1, <1>2, <1>3, WholeSum, Wraps, Numbers DEF SeqNumbers
<1> HIDE DEF m, r
<1>6. x - m = r
  BY <1>1, <1>5
<1> QED
  BY <1>4, <1>6 DEF r

(* ... so that a base has a position of entire blocks ... *)
LEMMA BasePosition ==
  ASSUME NEW z \in Bases, NEW b \in Bases
  PROVE  b \in SeqNumbers /\ b \in Int /\ Whole(b) /\ Whole(Pos(z, b))
<1>1. b \in SeqNumbers /\ b \in Int
  BY Numbers DEF Bases, SeqNumbers
<1>2. Whole(b)
  BY <1>1, WholeBase
<1>3. Whole(b - z + Offset)
  <2>1. Whole(z)
    BY BaseNumber, WholeBase
  <2>2. Whole(b - z)
    BY <1>2, <2>1, WholeSum
  <2> QED
    BY <2>2, WholeSum, Numbers
<1> QED
  BY <1>1, <1>2, <1>3, WholeWraps DEF Pos

(* ... and a block is followed by a block. *)
LEMMA BaseAfter ==
  ASSUME NEW z \in Bases, NEW b \in Bases
  PROVE  /\ U16(b + DataShards) \in Bases
         /\ Pos(z, b) + DataShards < SeqModulus => Pos(z, U16(b + DataShards)) = Pos(z, b) + DataShards
<1>1. Whole(DataShards)
  <2>1. 1 \in Int /\ DataShards = 1 * DataShards
    BY Numbers
  <2> QED
    BY <2>1 DEF Whole
<1>2. Whole(b + DataShards) /\ b + DataShards \in Int
  BY <1>1, BasePosition, WholeSum
<1>3. U16(b + DataShards) \in Bases
  BY <1>2, Wraps, WholeWraps, WholeBase
<1>4. ASSUME Pos(z, b) + DataShards < SeqModulus
      PROVE  Pos(z, U16(b + DataShards)) = Pos(z, b) + DataShards
  <2>1. b \in Int /\ Pos(z, b) \in Nat /\ DataShards \in Nat
    BY BasePosition, Position, Numbers
  <2> DEFINE d == DataShards
  <2>2. Pos(z, b) + d \in SeqNumbers /\ d \in Int
    BY <1>4, <2>1, Numbers DEF SeqNumbers
  <2> HIDE DEF d
  <2>3. Pos(z, U16(b + d)) = Pos(z, b) + d
    BY <2>1, <2>2, Further
  <2> QED
    BY <2>3 DEF d
<1> QED
  BY <1>3, <1>4

(* The packets of a block follow its base. *)
LEMMA InBlock ==
  ASSUME NEW z \in Bases, NEW b \in Bases, NEW i \in Data
  PROVE  /\ b + i \in SeqNumbers /\ Pos(z, b + i) = Pos(z, b) + i
         /\ (b + i) % DataShards = i /\ i \in Nat /\ i < DataShards
<1>1. b \in Int /\ b >= 0 /\ b < SeqModulus /\ Pos(z, b) \in Nat /\ Pos(z, b) < SeqModulus
  BY BasePosition, Position, Numbers DEF SeqNumbers
<1>2. DataShards \in Nat /\ SeqModulus \in Nat /\ i \in Nat /\ i < DataShards
  BY Numbers DEF Data
<1>3. b + DataShards <= SeqModulus /\ Pos(z, b) + DataShards <= SeqModulus
  BY <1>1, BasePosition, WholeGap, Numbers
<1>4. b + i \in SeqNumbers /\ Pos(z, b) + i \in SeqNumbers
  BY <1>1, <1>2, <1>3 DEF SeqNumbers
<1>5. Pos(z, b + i) = Pos(z, b) + i
  BY <1>1, <1>2, <1>4, Further
<1>6. (b + i) % DataShards = i
  <2>1. PICK k \in Int : b = k * DataShards
    BY BasePosition DEF Whole
  <2> DEFINE d == DataShards
  <2>2. d \in Nat \ {0} /\ i \in 0 .. d - 1 /\ b + i = k * d + i /\ b + i \in Int
    BY <1>1, <1>2, <2>1
  <2> HIDE DEF d
  <2>3. (b + i) % d = i
    BY <2>2, RemainderOf
  <2> QED
    BY <2>3 DEF d
<1> QED
  BY <1>2, <1>4, <1>5, <1>6

(* Blocks that have different bases do not overlap. *)
LEMMA Apart ==
  ASSUME NEW z \in Bases, NEW b \in Bases, NEW c \in Bases
  PROVE  /\ Pos(z, b) < Pos(z, c) => Pos(z, b) + DataShards <= Pos(z, c)
         /\ Pos(z, b) = Pos(z, c) => b = c
BY BasePosition, WholeGap, OneAtPosition

(* By how many blocks one base is ahead of another. *)
LEMMA BlocksAhead ==
  ASSUME NEW b \in Bases, NEW c \in Bases
  PROVE  Ahead(b, c) \in Nat /\ Ahead(b, c) * DataShards = U16(b - c)
<1> DEFINE x == U16(b - c)
<1>1. Whole(b - c) /\ b - c \in Int
  BY BasePosition, WholeSum
<1>2. Whole(x) /\ x \in SeqNumbers
  BY <1>1, WholeWraps, Wraps
<1>3. PICK i \in Int : x = i * DataShards
  BY <1>2 DEF Whole
<1>4. x \in Nat /\ DataShards \in Nat /\ DataShards > 0
  BY <1>2, Numbers DEF SeqNumbers
<1> DEFINE d == DataShards
<1>5. d \in Nat /\ d > 0 /\ x = i * d /\ x \in Nat
  BY <1>3, <1>4
<1> HIDE DEF x, d
<1>6. x \div d = i /\ i \in Nat
  <2>1. i \in Nat
    BY <1>5, Z3T(30)
  <2>2. x \div d = i
    BY <1>5, Z3T(30)
  <2> QED
    BY <2>1, <2>2
<1> QED
  BY <1>5, <1>6 DEF Ahead, x, d

(* A number of blocks that is smaller is a smaller number of packets. *)
LEMMA FewerBlocks ==
  ASSUME NEW i \in Int, NEW j \in Int, i <= j
  PROVE  i * DataShards \in Int /\ j * DataShards \in Int /\ i * DataShards <= j * DataShards
<1> DEFINE d == DataShards
<1>1. d \in Nat /\ j - i \in Nat
  BY Numbers
<1> HIDE DEF d
<1>2. (j - i) * d \in Nat /\ i * d \in Int /\ j * d \in Int
  BY <1>1
<1>3. (j - i) * d = j * d - i * d
  BY <1>1, Z3T(30)
<1>4. i * d <= j * d
  BY <1>2, <1>3
<1> QED
  BY <1>2, <1>4 DEF d

(* The oldest block is at Offset as seen from itself. *)
LEMMA Origin ==
  ASSUME NEW z \in Bases
  PROVE  Pos(z, z) = Offset
<1>1. Offset \in SeqNumbers /\ z - z + Offset = Offset
  BY BaseNumber, Numbers DEF SeqNumbers
<1> QED
  BY <1>1, NoWrap DEF Pos

(* As seen from a later block, a position is lower by as much as that is later. *)
LEMMA Reorigin ==
  ASSUME NEW z \in Bases, NEW o \in Bases, NEW x \in Int,
         Offset <= Pos(z, o), Pos(z, o) - Offset <= Pos(z, x)
  PROVE  Pos(o, x) = Pos(z, x) - (Pos(z, o) - Offset)
<1>0. o \in Int /\ z \in Int /\ Offset \in Int
  BY BaseNumber, Numbers
<1>1. PICK k \in Int : x - z + Offset = SeqModulus * k + Pos(z, x)
  BY Position
<1>2. PICK j \in Int : o - z + Offset = SeqModulus * j + Pos(z, o)
  BY <1>0, Position
<1>3. SeqModulus * j \in Int /\ SeqModulus * k \in Int /\ SeqModulus * (k - j) = SeqModulus * k - SeqModulus * j
  BY Multiples
<1> DEFINE u == SeqModulus * j  v == SeqModulus * k  w == SeqModulus * (k - j)
           p == Pos(z, x)  q == Pos(z, o)  r == p - q + Offset  m == SeqModulus
<1>4. /\ p \in Nat /\ p < m /\ q \in Nat /\ m \in Nat /\ Offset <= q /\ q - Offset <= p
      /\ x - z + Offset = v + p /\ o - z + Offset = u + q /\ w = v - u /\ u \in Int /\ v \in Int
  BY <1>0, <1>1, <1>2, <1>3, Position, Numbers
<1> HIDE DEF u, v, w, p, q, m
<1>5. r \in 0 .. m - 1 /\ x - o + Offset = w + r /\ x - o + Offset \in Int /\ r = p - (q - Offset)
  BY <1>0, <1>4
<1> HIDE DEF r
<1>6. U16(x - o + Offset) = r
  BY <1>5, WrapsTo DEF w, m, SeqNumbers
<1> QED
  BY <1>5, <1>6 DEF Pos, p, q

(* The number before one that is not at the lowest position. *)
LEMMA StepBack ==
  ASSUME NEW z \in Bases, NEW x \in SeqNumbers, NEW n \in SeqNumbers, U16(x + 1) = n, 1 <= Pos(z, n)
  PROVE  Pos(z, x) = Pos(z, n) - 1
<1>1. x \in Int /\ n \in Int /\ x + 1 \in Int /\ SeqModulus \in Nat /\ SeqModulus > 1
  BY Numbers DEF SeqNumbers
<1>2. PICK k \in Int : x + 1 = SeqModulus * k + n
  BY <1>1, Wraps
<1>3. U16(n - x) = 1
  <2>1. SeqModulus * k \in Int /\ SeqModulus * (0 - k) = 0 - SeqModulus * k
    <3> DEFINE m == SeqModulus
    <3>1. m \in Int
      BY <1>1
    <3> HIDE DEF m
    <3>2. m * k \in Int /\ m * (0 - k) = 0 - m * k
      BY <3>1, Z3T(30)
    <3> QED
      BY <3>2 DEF m
  <2> DEFINE u == SeqModulus * k  v == SeqModulus * (0 - k)
  <2>2. u \in Int /\ v = 0 - u /\ x + 1 = u + n
    BY <1>1, <1>2, <2>1
  <2> HIDE DEF u, v
  <2>3. n - x = v + 1 /\ n - x \in Int /\ 1 \in SeqNumbers
    BY <1>1, <2>2 DEF SeqNumbers
  <2> QED
    BY <2>3, WrapsTo DEF v
<1>4. /\ U16(n - x) = IF Pos(z, x) <= Pos(z, n) THEN Pos(z, n) - Pos(z, x)
                      ELSE SeqModulus + Pos(z, n) - Pos(z, x)
      /\ Pos(z, x) \in Nat /\ Pos(z, x) < SeqModulus /\ Pos(z, n) \in Nat
  BY <1>1, Distance, Position
<1> DEFINE p == Pos(z, x)  q == Pos(z, n)  m == SeqModulus
<1>5. /\ 1 = (IF p <= q THEN q - p ELSE m + q - p) /\ p \in Nat /\ q \in Nat /\ m \in Nat
      /\ p < m /\ 1 <= q
  BY <1>1, <1>3, <1>4
<1> HIDE DEF p, q, m
<1>6. p = q - 1
  BY <1>5
<1> QED
  BY <1>6 DEF p, q

(* A number does not follow itself, and is not before itself. *)
LEMMA NotItsOwn ==
  ASSUME NEW n \in SeqNumbers
  PROVE  U16(n + 1) # n /\ ~isBefore16(n, n)
<1>1. n \in Int /\ SeqModulus \in Nat /\ SeqModulus > 1
  BY Numbers DEF SeqNumbers
<1>2. U16(n + 1) # n
  <2>1. SUFFICES ASSUME U16(n + 1) = n PROVE FALSE
    OBVIOUS
  <2>2. n + 1 \in Int
    BY <1>1
  <2>3. PICK k \in Int : n + 1 = SeqModulus * k + U16(n + 1)
    BY <2>2, Wraps
  <2>4. SeqModulus * k = 1 /\ SeqModulus * 0 = 0 /\ 0 \in Int /\ 1 \in SeqNumbers /\ 0 \in SeqNumbers
    <3>1. SeqModulus * k \in Int
      BY <1>1
    <3> DEFINE x == SeqModulus * k
    <3>2. x \in Int /\ n + 1 = x + n
      BY <2>1, <2>3, <3>1
    <3> HIDE DEF x
    <3>3. x = 1
      BY <1>1, <3>2
    <3> QED
      BY <1>1, <3>3 DEF x, SeqNumbers
  <2>5. U16(1) = 0
    BY <2>4, WrapsTo
  <2>6. U16(1) = 1
    BY <2>4, NoWrap
  <2> QED
    BY <2>5, <2>6
<1>3. ~isBefore16(n, n)
  <2>1. n - n = 0 /\ 0 \in SeqNumbers
    BY <1>1 DEF SeqNumbers
  <2>2. U16(n - n) = 0
    BY <2>1, NoWrap
  <2> QED
    BY <1>1, <2>2 DEF isBefore16
<1> QED
  BY <1>2, <1>3

-------------------------------------------------------------------------------
(* The blocks in the list. *)
FecBlocks ==
  [base : Bases, got : SUBSET Shards, fullyReassembled : BOOLEAN,
   nextDataPacketIndex : 0 .. DataShards, allowDiscontinuity : BOOLEAN]

(* A block was played as far as the next packet when that is in it, else not at *)
(* all; and gaps are allowed in that block only.                                *)
PlayedUpTo(z, blk, oldest, next) ==
  /\ blk.nextDataPacketIndex = IF blk.base = oldest THEN Pos(z, next) - Pos(z, oldest) ELSE 0
  /\ blk.allowDiscontinuity => blk.base = oldest

(* A list of blocks in order, from the oldest to the latest. *)
Listed(z, bs, oldest, next, latest) ==
  /\ bs \in Seq(FecBlocks)
  /\ \A k \in 1 .. Len(bs) : /\ Pos(z, oldest) <= Pos(z, bs[k].base) /\ Pos(z, bs[k].base) <= Pos(z, latest)
                             /\ PlayedUpTo(z, bs[k], oldest, next)
  /\ \A j, k \in 1 .. Len(bs) : j < k => Pos(z, bs[j].base) < Pos(z, bs[k].base)

(* The list begins with the oldest block. *)
Begun(bs, oldest) == bs # <<>> /\ bs[1].base = oldest

(* The next packet is in the oldest block, which is at most the one after the   *)
(* latest and which is in the list when it was played in part.                  *)
Numbered(z, bs, oldest, next, latest) ==
  /\ oldest \in Bases /\ next \in SeqNumbers
  /\ Pos(z, oldest) <= Pos(z, latest) + DataShards
  /\ Pos(z, oldest) <= Pos(z, next) /\ Pos(z, next) < Pos(z, oldest) + DataShards
  /\ next # oldest => Begun(bs, oldest)

(* What was played last is directly before the next packet, or it ended a block *)
(* before the one that is next.                                                 *)
Preceded(last, oldest, next) ==
  last # Nothing =>
    /\ last \in SeqNumbers
    /\ \/ U16(last + 1) = next
       \/ next = oldest /\ U16(last + 1) % DataShards = 0 /\ isBefore16(last, next)

(* A block in the list has a base and shards. *)
LEMMA ListedBlock ==
  ASSUME NEW z \in Bases, NEW bs, NEW o, NEW n, NEW l, Listed(z, bs, o, n, l), NEW k \in 1 .. Len(bs)
  PROVE  /\ bs[k] \in FecBlocks /\ bs[k].base \in Bases /\ Pos(z, bs[k].base) \in Nat
         /\ Pos(z, o) <= Pos(z, bs[k].base) /\ Pos(z, bs[k].base) <= Pos(z, l)
         /\ PlayedUpTo(z, bs[k], o, n)
         /\ Len(bs) \in Nat
<1>1. bs[k] \in FecBlocks /\ Len(bs) \in Nat
  BY DEF Listed
<1>2. bs[k].base \in Bases
  BY <1>1 DEF FecBlocks
<1> QED
  BY <1>1, <1>2, BasePosition, Position DEF Listed

(* A list stays in order when a newer block arrives, ... *)
LEMMA StaysListed ==
  ASSUME NEW z \in Bases, NEW bs, NEW o, NEW n, NEW l \in Bases, NEW later \in Bases,
         Listed(z, bs, o, n, l), Pos(z, l) <= Pos(z, later)
  PROVE  Listed(z, bs, o, n, later)
<1>1. Pos(z, l) \in Int /\ Pos(z, later) \in Int
  BY BasePosition, Position
<1>2. ASSUME NEW k \in 1 .. Len(bs) PROVE Pos(z, bs[k].base) <= Pos(z, later)
  <2>1. Pos(z, bs[k].base) \in Int /\ Pos(z, bs[k].base) <= Pos(z, l)
    BY ListedBlock
  <2> QED
    BY <1>1, <2>1
<1> QED
  BY <1>2 DEF Listed

(* ... and when a block is replaced by one of the same base. *)
LEMMA Replaced ==
  ASSUME NEW z \in Bases, NEW bs, NEW o, NEW n, NEW l, Listed(z, bs, o, n, l), NEW k \in 1 .. Len(bs),
         NEW blk \in FecBlocks, blk.base = bs[k].base, PlayedUpTo(z, blk, o, n)
  PROVE  LET r == [bs EXCEPT ![k] = blk] IN
         /\ Listed(z, r, o, n, l) /\ Len(r) = Len(bs)
         /\ \A j \in 1 .. Len(bs) : r[j] = IF j = k THEN blk ELSE bs[j]
<1> DEFINE r == [bs EXCEPT ![k] = blk]
<1>1. bs \in Seq(FecBlocks) /\ Len(bs) \in Nat
  BY DEF Listed
<1>2. r \in Seq(FecBlocks) /\ Len(r) = Len(bs)
  BY <1>1
<1>3. \A j \in 1 .. Len(bs) : r[j] = IF j = k THEN blk ELSE bs[j]
  BY <1>1
<1> HIDE DEF r
<1>4. \A j \in 1 .. Len(bs) : r[j].base = bs[j].base
  BY <1>3
<1>5. Listed(z, r, o, n, l)
  BY <1>2, <1>3, <1>4 DEF Listed
<1> QED
  BY <1>2, <1>3, <1>5 DEF r

(* The list without its head. *)
LEMMA WithoutHead ==
  ASSUME NEW bs \in Seq(FecBlocks), bs # <<>>
  PROVE  /\ Len(bs) \in Nat /\ Len(bs) > 0 /\ 1 \in 1 .. Len(bs) /\ Head(bs) = bs[1]
         /\ Tail(bs) \in Seq(FecBlocks) /\ Len(Tail(bs)) = Len(bs) - 1
         /\ \A k \in 1 .. Len(bs) - 1 : Tail(bs)[k] = bs[k + 1] /\ k + 1 \in 1 .. Len(bs)
BY EmptySeq, LenProperties, HeadTailProperties

(* A set of numbers has a smallest element. *)
LEMMA SmallestElement ==
  ASSUME NEW S \in SUBSET Nat, NEW s \in S
  PROVE  \E m \in S : \A t \in S : m <= t
<1> DEFINE R == { p \in Nat \X Nat : p[1] < p[2] }
<1>1. IsWellFoundedOn(R, Nat)
  BY NatLessThanWellFounded DEF OpToRel
<1>2. PICK m \in S : \A t \in S : ~ (<<t, m>> \in R)
  <2> HIDE DEF R
  <2> QED
    BY <1>1, WFMin
<1>3. ASSUME NEW t \in S PROVE m <= t
  <2>1. m \in Nat /\ t \in Nat /\ ~ (t < m)
    BY <1>2
  <2> QED
    BY <2>1
<1> QED
  BY <1>3

(* The walk along the list stops somewhere, and not before. *)
LEMMA WalkStops ==
  ASSUME blocks \in Seq(FecBlocks), NEW b
  PROVE  /\ Place(b) \in 1 .. Len(blocks) + 1 /\ Stops(b, Place(b))
         /\ \A j \in 1 .. Place(b) - 1 : ~Stops(b, j)
<1> DEFINE S == { k \in 1 .. Len(blocks) + 1 : Stops(b, k) }
<1>1. Len(blocks) \in Nat
  OBVIOUS
<1>2. Len(blocks) + 1 \in S
  BY <1>1 DEF Stops
<1>3. S \subseteq Nat
  BY <1>1
<1>4. PICK m \in S : \A t \in S : m <= t
  <2> HIDE DEF S
  <2> QED
    BY <1>2, <1>3, SmallestElement
<1>5. m \in 1 .. Len(blocks) + 1 /\ Stops(b, m) /\ \A j \in 1 .. m - 1 : ~Stops(b, j)
  <2>1. ASSUME NEW j \in 1 .. m - 1, Stops(b, j) PROVE FALSE
    <3>1. j \in S /\ m \in Nat
      BY <1>1, <1>3, <2>1
    <3> QED
      BY <1>4, <3>1
  <2> QED
    BY <1>4, <2>1
<1>6. \E k \in 1 .. Len(blocks) + 1 : Stops(b, k) /\ \A j \in 1 .. k - 1 : ~Stops(b, j)
  BY <1>5
<1> HIDE DEF S
<1> QED
  BY <1>6 DEF Place

(* The list with an element inserted. *)
LEMMA Inserted ==
  ASSUME NEW s \in Seq(FecBlocks), NEW x \in FecBlocks, NEW at \in 1 .. Len(s) + 1
  PROVE  /\ InsertAt(s, at, x) \in Seq(FecBlocks) /\ Len(InsertAt(s, at, x)) = Len(s) + 1
         /\ \A j \in 1 .. Len(s) + 1 :
              InsertAt(s, at, x)[j] = IF j < at THEN s[j] ELSE IF j = at THEN x ELSE s[j - 1]
<1> DEFINE a == SubSeq(s, 1, at - 1)  c == SubSeq(s, at, Len(s))
<1>1. Len(s) \in Nat /\ at \in Nat
  OBVIOUS
<1>2. /\ a \in Seq(FecBlocks) /\ Len(a) = at - 1 /\ \A j \in 1 .. at - 1 : a[j] = s[j]
  <2>1. \A j \in 1 .. at - 1 : s[j] \in FecBlocks
    BY <1>1
  <2>2. 1 \in Int /\ at - 1 \in Int
    BY <1>1
  <2> QED
    BY <1>1, <2>1, <2>2, SubSeqProperties
<1>3. /\ c \in Seq(FecBlocks) /\ Len(c) = Len(s) + 1 - at /\ \A j \in 1 .. Len(s) + 1 - at : c[j] = s[at + j - 1]
  <2>1. \A j \in at .. Len(s) : s[j] \in FecBlocks
    BY <1>1
  <2> QED
    BY <1>1, <2>1, SubSeqProperties
<1> HIDE DEF a, c
<1>4. /\ (a \o <<x>>) \in Seq(FecBlocks) /\ Len(a \o <<x>>) = at
      /\ \A j \in 1 .. at : (a \o <<x>>)[j] = IF j < at THEN s[j] ELSE x
  <2> DEFINE u == <<x>>
  <2>1. u \in Seq(FecBlocks) /\ Len(u) = 1 /\ u[1] = x
    OBVIOUS
  <2> HIDE DEF u
  <2>2. /\ a \o u \in Seq(FecBlocks) /\ Len(a \o u) = Len(a) + Len(u)
        /\ \A j \in 1 .. Len(a) + Len(u) :
             (a \o u)[j] = IF j <= Len(a) THEN a[j] ELSE u[j - Len(a)]
    BY <1>2, <2>1, ConcatProperties
  <2>3. ASSUME NEW j \in 1 .. at PROVE (a \o u)[j] = IF j < at THEN s[j] ELSE x
    <3>1. Len(a) = at - 1 /\ Len(u) = 1 /\ j \in 1 .. Len(a) + Len(u)
      BY <1>1, <1>2, <2>1
    <3>2. (a \o u)[j] = IF j <= Len(a) THEN a[j] ELSE u[j - Len(a)]
      BY <2>2, <3>1
    <3>3. CASE j < at
      <4>1. j <= Len(a) /\ j \in 1 .. at - 1
        BY <1>1, <3>1, <3>3
      <4>2. a[j] = s[j]
        BY <1>2, <4>1
      <4> QED
        BY <3>2, <3>3, <4>1, <4>2
    <3>4. CASE j = at
      <4>1. ~(j <= Len(a)) /\ j - Len(a) = 1 /\ ~(j < at)
        BY <1>1, <3>1, <3>4
      <4>2. (a \o u)[j] = u[j - Len(a)]
        BY <3>2, <4>1
      <4>3. u[j - Len(a)] = x
        BY <2>1, <4>1
      <4> QED
        BY <4>1, <4>2, <4>3
    <3>5. j < at \/ j = at
      BY <1>1
    <3> QED
      BY <3>3, <3>4, <3>5
  <2>4. /\ a \o u \in Seq(FecBlocks) /\ Len(a \o u) = at
        /\ \A j \in 1 .. at : (a \o u)[j] = IF j < at THEN s[j] ELSE x
    BY <1>1, <1>2, <2>1, <2>2, <2>3
  <2> QED
    BY <2>4 DEF u
<1> DEFINE f == a \o <<x>>
<1> HIDE DEF f
<1>5. f \in Seq(FecBlocks) /\ Len(f) = at /\ \A j \in 1 .. at : f[j] = IF j < at THEN s[j] ELSE x
  BY <1>4 DEF f
<1>6. /\ f \o c \in Seq(FecBlocks) /\ Len(f \o c) = Len(s) + 1
      /\ \A j \in 1 .. Len(s) + 1 : (f \o c)[j] = IF j <= at THEN f[j] ELSE c[j - at]
  <2>1. Len(f) + Len(c) = Len(s) + 1 /\ Len(f) = at
    BY <1>1, <1>3, <1>5
  <2>2. f \in Seq(FecBlocks) /\ c \in Seq(FecBlocks)
    BY <1>3, <1>5
  <2>3. /\ f \o c \in Seq(FecBlocks) /\ Len(f \o c) = Len(f) + Len(c)
        /\ \A j \in 1 .. Len(f) + Len(c) :
             (f \o c)[j] = IF j <= Len(f) THEN f[j] ELSE c[j - Len(f)]
    BY <2>2, ConcatProperties
  <2> QED
    BY <2>1, <2>3
<1>7. ASSUME NEW j \in 1 .. Len(s) + 1
      PROVE  (f \o c)[j] = IF j < at THEN s[j] ELSE IF j = at THEN x ELSE s[j - 1]
  <2>1. CASE j <= at
    <3>1. j \in 1 .. at /\ (f \o c)[j] = f[j] /\ f[j] = IF j < at THEN s[j] ELSE x
      BY <1>1, <1>5, <1>6, <2>1
    <3> QED
      BY <1>1, <2>1, <3>1
  <2>2. CASE j > at
    <3>1. j - at \in 1 .. Len(s) + 1 - at /\ at + (j - at) - 1 = j - 1 /\ ~(j <= at) /\ ~(j < at) /\ j # at
      BY <1>1, <2>2
    <3>2. (f \o c)[j] = c[j - at]
      BY <1>6, <3>1
    <3>3. c[j - at] = s[j - 1]
      BY <1>3, <3>1
    <3> QED
      BY <3>1, <3>2, <3>3
  <2>3. j <= at \/ j > at
    BY <1>1
  <2> QED
    BY <2>1, <2>2, <2>3
<1> QED
  BY <1>6, <1>7 DEF InsertAt, a, c, f

(* A packet that is not too old finds its block, or its place, in the list. *)
LEMMA PacketListed ==
  ASSUME NEW z \in Bases, NEW o, NEW n, NEW l \in Bases, Pos(z, l) < Half,
         Listed(z, blocks, o, n, l), Numbered(z, blocks, o, n, l),
         NEW p \in Packets, Pos(z, o) <= Pos(z, p.base), Pos(z, p.base) <= Pos(z, l)
  PROVE  LET r == WithPacket(p) IN
         /\ Listed(z, r, o, n, l) /\ Numbered(z, r, o, n, l) /\ r # <<>>
         /\ Place(p.base) \in 1 .. Len(r) /\ r[Place(p.base)].base = p.base
         /\ p.base = o => Place(p.base) = 1
         /\ Begun(blocks, o) => Begun(r, o)
<1> DEFINE b == p.base  k == Place(b)
<1>1. blocks \in Seq(FecBlocks) /\ Len(blocks) \in Nat
  BY DEF Listed
<1>2. k \in 1 .. Len(blocks) + 1 /\ Stops(b, k) /\ \A j \in 1 .. k - 1 : ~Stops(b, j)
  BY <1>1, WalkStops
<1>3. b \in Bases /\ p.shard \in Shards /\ Pos(z, b) \in Nat /\ Pos(z, b) < Half /\ o \in Bases /\ Pos(z, l) \in Nat
      /\ Half \in Nat /\ Pos(z, o) \in Nat
  <2>1. b \in Bases /\ p.shard \in Shards /\ o \in Bases
    BY DEF Packets, Numbered
  <2>2. Pos(z, b) \in Nat /\ Pos(z, l) \in Nat /\ Half \in Nat /\ Pos(z, o) \in Nat
    BY <2>1, BasePosition, Position, Numbers
  <2> QED
    BY <2>1, <2>2
<1> HIDE DEF k, b
<1>4. ASSUME NEW j \in 1 .. Len(blocks)
      PROVE  /\ blocks[j].base \in Bases /\ Pos(z, blocks[j].base) \in Nat /\ Pos(z, blocks[j].base) < Half
             /\ isBefore16(b, blocks[j].base) <=> Pos(z, b) < Pos(z, blocks[j].base)
  <2>1. blocks[j].base \in Bases /\ Pos(z, blocks[j].base) \in Nat /\ Pos(z, blocks[j].base) <= Pos(z, l)
    BY ListedBlock
  <2>2. Pos(z, blocks[j].base) < Half
    BY <1>3, <2>1
  <2>3. b \in Int /\ blocks[j].base \in Int
    BY <1>3, <2>1, BasePosition
  <2> QED
    BY <1>3, <2>1, <2>2, <2>3, Before
<1>5. ASSUME NEW j \in 1 .. k - 1
      PROVE  j \in 1 .. Len(blocks) /\ Pos(z, blocks[j].base) < Pos(z, b)
  <2>1. j \in 1 .. Len(blocks) /\ j \in Nat
    BY <1>1, <1>2
  <2>2. blocks[j].base # b /\ ~isBefore16(b, blocks[j].base)
    BY <1>2, <2>1 DEF Stops
  <2>3. ~(Pos(z, b) < Pos(z, blocks[j].base)) /\ Pos(z, b) # Pos(z, blocks[j].base)
    BY <1>3, <1>4, <2>1, <2>2, Apart
  <2> QED
    BY <1>3, <1>4, <2>1, <2>3
<1> DEFINE list == IF Exists(b) THEN blocks ELSE InsertAt(blocks, k, NewBlock(b))
<1>6. /\ Listed(z, list, o, n, l) /\ Numbered(z, list, o, n, l) /\ list # <<>>
      /\ k \in 1 .. Len(list) /\ list[k].base = b
      /\ Begun(blocks, o) => Begun(list, o)
  <2>1. CASE Exists(b)
    <3>1. k <= Len(blocks) /\ blocks[k].base = b
      BY <2>1 DEF Exists, k, b
    <3>2. k \in 1 .. Len(blocks) /\ blocks # <<>>
      BY <1>1, <1>2, <3>1
    <3> QED
      BY <2>1, <3>1, <3>2
  <2>2. CASE ~Exists(b)
    <3> DEFINE e == NewBlock(b)
    <3>1. e \in FecBlocks /\ e.base = b /\ e.nextDataPacketIndex = 0 /\ e.allowDiscontinuity = FALSE
      BY <1>3, Numbers DEF NewBlock, FecBlocks
    <3> HIDE DEF e
    <3>2. /\ list \in Seq(FecBlocks) /\ Len(list) = Len(blocks) + 1
          /\ \A j \in 1 .. Len(blocks) + 1 :
               list[j] = IF j < k THEN blocks[j] ELSE IF j = k THEN e ELSE blocks[j - 1]
      <4>1. list = InsertAt(blocks, k, e)
        BY <2>2 DEF e
      <4>2. /\ InsertAt(blocks, k, e) \in Seq(FecBlocks) /\ Len(InsertAt(blocks, k, e)) = Len(blocks) + 1
            /\ \A j \in 1 .. Len(blocks) + 1 :
                 InsertAt(blocks, k, e)[j] = IF j < k THEN blocks[j] ELSE IF j = k THEN e ELSE blocks[j - 1]
        <5> HIDE DEF list
        <5>1. blocks \in Seq(FecBlocks) /\ e \in FecBlocks /\ k \in 1 .. Len(blocks) + 1
          BY <1>1, <1>2, <3>1
        <5> QED
          <6>1. InsertAt(blocks, k, e) \in Seq(FecBlocks)
            BY <5>1, Inserted
          <6>2. Len(InsertAt(blocks, k, e)) = Len(blocks) + 1
            BY <5>1, Inserted
          <6>3. ASSUME NEW j \in 1 .. Len(blocks) + 1
                PROVE  InsertAt(blocks, k, e)[j] = IF j < k THEN blocks[j] ELSE IF j = k THEN e ELSE blocks[j - 1]
            BY <5>1, Inserted
          <6> QED
            BY <6>1, <6>2, <6>3
      <4> HIDE DEF list
      <4> QED
        BY <4>1, <4>2
    <3> HIDE DEF list
    <3>3. ASSUME NEW j \in k .. Len(blocks)
          PROVE  j \in 1 .. Len(blocks) /\ Pos(z, b) < Pos(z, blocks[j].base)
      <4>1. j \in 1 .. Len(blocks) /\ k \in 1 .. Len(blocks)
        BY <1>1, <1>2
      <4>2. Pos(z, b) < Pos(z, blocks[k].base)
        <5>1. blocks[k].base # b
          BY <1>1, <2>2, <4>1 DEF Exists, k, b
        <5>2. ~(k > Len(blocks))
          BY <1>1, <4>1
        <5>3. isBefore16(b, blocks[k].base)
          BY <1>2, <5>1, <5>2 DEF Stops
        <5> QED
          BY <1>4, <4>1, <5>3
      <4>3. k = j \/ Pos(z, blocks[k].base) < Pos(z, blocks[j].base)
        <5>1. k = j \/ k < j
          BY <1>1, <4>1
        <5> QED
          BY <4>1, <5>1 DEF Listed
      <4> QED
        BY <1>3, <1>4, <4>1, <4>2, <4>3
    <3>4. PlayedUpTo(z, e, o, n)
      <4>1. ASSUME b = o PROVE n = o
        <5>1. SUFFICES ASSUME n # o PROVE FALSE
          OBVIOUS
        <5>2. blocks # <<>> /\ blocks[1].base = o /\ 1 \in 1 .. Len(blocks)
          BY <1>1, <5>1, EmptySeq, LenProperties DEF Numbered, Begun
        <5>3. k = 1
          <6>1. k > 1 => 1 \in 1 .. k - 1
            BY <1>1, <1>2
          <6>2. ~(1 \in 1 .. k - 1)
            BY <1>3, <1>5, <4>1, <5>2
          <6> QED
            BY <1>1, <1>2, <6>1, <6>2
        <5>4. Exists(b)
          BY <1>1, <4>1, <5>2, <5>3 DEF Exists, k, b
        <5> QED
          BY <2>2, <5>4
      <4> QED
        BY <1>3, <3>1, <4>1 DEF PlayedUpTo
    <3>5. ASSUME NEW j \in 1 .. Len(list)
          PROVE  /\ Pos(z, o) <= Pos(z, list[j].base) /\ Pos(z, list[j].base) <= Pos(z, l)
                 /\ PlayedUpTo(z, list[j], o, n)
      <4>1. CASE j < k
        <5>1. j \in 1 .. Len(blocks) /\ list[j] = blocks[j]
          BY <1>1, <1>2, <3>2, <4>1
        <5> QED
          BY <5>1, ListedBlock
      <4>2. CASE j = k
        <5>1. list[j] = e
          BY <1>1, <1>2, <3>2, <4>2
        <5> QED
          BY <3>1, <3>4, <5>1 DEF b
      <4>3. CASE j > k
        <5>1. j - 1 \in 1 .. Len(blocks) /\ list[j] = blocks[j - 1]
          BY <1>1, <1>2, <3>2, <4>3
        <5> QED
          BY <5>1, ListedBlock
      <4> QED
        BY <1>1, <1>2, <3>2, <4>1, <4>2, <4>3
    <3>6. ASSUME NEW i \in 1 .. Len(list), NEW j \in 1 .. Len(list), i < j
          PROVE  Pos(z, list[i].base) < Pos(z, list[j].base)
      <4>1. CASE j < k
        <5>1. i \in 1 .. Len(blocks) /\ j \in 1 .. Len(blocks) /\ list[i] = blocks[i] /\ list[j] = blocks[j]
          BY <1>1, <1>2, <3>2, <3>6, <4>1
        <5> QED
          BY <3>6, <5>1 DEF Listed
      <4>2. CASE j = k
        <5>1. i \in 1 .. k - 1 /\ list[i] = blocks[i] /\ list[j] = e
          BY <1>1, <1>2, <3>2, <3>6, <4>2
        <5> QED
          BY <1>5, <3>1, <5>1
      <4>3. CASE j > k /\ i < k
        <5>1. /\ i \in 1 .. k - 1 /\ list[i] = blocks[i]
              /\ j - 1 \in k .. Len(blocks) /\ list[j] = blocks[j - 1]
          BY <1>1, <1>2, <3>2, <3>6, <4>3
        <5>2. Pos(z, blocks[i].base) < Pos(z, b) /\ i \in 1 .. Len(blocks)
          BY <1>5, <5>1
        <5>3. Pos(z, b) < Pos(z, blocks[j - 1].base) /\ j - 1 \in 1 .. Len(blocks)
          BY <3>3, <5>1
        <5>4. Pos(z, blocks[i].base) \in Nat /\ Pos(z, blocks[j - 1].base) \in Nat
          BY <1>4, <5>2, <5>3
        <5> QED
          BY <1>3, <5>1, <5>2, <5>3, <5>4
      <4>4. CASE j > k /\ i = k
        <5>1. list[i] = e /\ j - 1 \in k .. Len(blocks) /\ list[j] = blocks[j - 1]
          BY <1>1, <1>2, <3>2, <3>6, <4>4
        <5> QED
          BY <3>1, <3>3, <5>1
      <4>5. CASE j > k /\ i > k
        <5>1. /\ i - 1 \in 1 .. Len(blocks) /\ list[i] = blocks[i - 1]
              /\ j - 1 \in 1 .. Len(blocks) /\ list[j] = blocks[j - 1] /\ i - 1 < j - 1
          BY <1>1, <1>2, <3>2, <3>6, <4>5
        <5> QED
          BY <5>1 DEF Listed
      <4> QED
        BY <1>1, <1>2, <3>2, <4>1, <4>2, <4>3, <4>4, <4>5
    <3>7. Listed(z, list, o, n, l)
      BY <3>2, <3>5, <3>6 DEF Listed
    <3>8. k \in 1 .. Len(list) /\ list[k] = e /\ list # <<>>
      BY <1>1, <1>2, <3>2
    <3>9. ASSUME Begun(blocks, o) PROVE list[1].base = o
      <4>1. blocks # <<>> /\ blocks[1].base = o /\ 1 \in 1 .. Len(blocks)
        BY <1>1, <3>9, EmptySeq, LenProperties DEF Begun
      <4>2. CASE k = 1
        <5>1. 1 \in k .. Len(blocks)
          BY <1>1, <4>1, <4>2
        <5>2. Pos(z, b) < Pos(z, o)
          BY <3>3, <4>1, <5>1
        <5> QED
          BY <1>3, <5>2 DEF b
      <4>3. CASE k > 1
        <5>1. list[1] = blocks[1]
          BY <1>1, <1>2, <3>2, <4>1, <4>3
        <5> QED
          BY <4>1, <5>1
      <4> QED
        BY <1>1, <1>2, <4>2, <4>3
    <3>10. Numbered(z, list, o, n, l) /\ (Begun(blocks, o) => Begun(list, o))
      BY <3>8, <3>9 DEF Numbered, Begun
    <3> QED
      BY <3>1, <3>7, <3>8, <3>10
  <2> QED
    BY <2>1, <2>2
<1>7. p.base = o => k = 1
  <2>1. ASSUME b = o PROVE ~(k > 1)
    <3>1. SUFFICES ASSUME k > 1 PROVE FALSE
      OBVIOUS
    <3>2. 1 \in 1 .. k - 1
      BY <1>1, <1>2, <3>1
    <3>3. Pos(z, blocks[1].base) < Pos(z, o) /\ 1 \in 1 .. Len(blocks)
      BY <1>5, <2>1, <3>2
    <3>4. Pos(z, o) <= Pos(z, blocks[1].base) /\ Pos(z, blocks[1].base) \in Nat
      BY <3>3, ListedBlock
    <3> QED
      BY <1>3, <3>3, <3>4
  <2> QED
    BY <1>1, <1>2, <2>1 DEF b
<1> HIDE DEF list
<1>8. list[k] \in FecBlocks /\ PlayedUpTo(z, list[k], o, n)
  BY <1>6, ListedBlock
<1> DEFINE blk == [list[k] EXCEPT !.got = @ \cup {p.shard}]
<1>9. blk \in FecBlocks /\ blk.base = list[k].base /\ PlayedUpTo(z, blk, o, n)
  BY <1>3, <1>8 DEF FecBlocks, PlayedUpTo
<1>10. WithPacket(p) = [list EXCEPT ![k] = blk]
  BY DEF WithPacket, list, k, b
<1> HIDE DEF blk
<1> DEFINE r == [list EXCEPT ![k] = blk]
<1>11. /\ Listed(z, r, o, n, l) /\ Len(r) = Len(list)
       /\ \A j \in 1 .. Len(list) : r[j] = IF j = k THEN blk ELSE list[j]
  BY <1>6, <1>9, Replaced
<1> HIDE DEF r
<1>12. \A j \in 1 .. Len(list) : r[j].base = list[j].base
  BY <1>9, <1>11
<1>13. Numbered(z, r, o, n, l) /\ r # <<>> /\ (Begun(blocks, o) => Begun(r, o))
  <2>1. list \in Seq(FecBlocks) /\ r \in Seq(FecBlocks)
    BY <1>6, <1>11 DEF Listed
  <2>2. 1 \in 1 .. Len(list) /\ r # <<>>
    BY <1>6, <1>11, <2>1, EmptySeq, LenProperties
  <2> QED
    BY <1>6, <1>12, <2>2 DEF Numbered, Begun
<1>14. k \in 1 .. Len(r) /\ r[k].base = b
  BY <1>6, <1>11, <1>12
<1> QED
  BY <1>7, <1>10, <1>11, <1>13, <1>14 DEF r, k, b

-------------------------------------------------------------------------------
(* A list of which one packet more of the head was played, ... *)
OneMore(bs) == [bs EXCEPT ![1].nextDataPacketIndex = @ + 1]

(* ... and what playing it does to the numbers and to the list. *)
HeadGoesOn(z, bs, oldest, next, latest) ==
  LET i     == bs[1].nextDataPacketIndex
      after == U16(next + 1)
      over  == U16(oldest + DataShards) IN
  /\ i \in Data /\ U16(oldest + i) = next
  /\ i + 1 = DataShards <=> after = over
  /\ after \in SeqNumbers /\ Pos(z, after) = Pos(z, next) + 1
  /\ i + 1 = DataShards => /\ Listed(z, Tail(OneMore(bs)), over, after, latest)
                           /\ Numbered(z, Tail(OneMore(bs)), over, after, latest)
  /\ i + 1 # DataShards => /\ Listed(z, OneMore(bs), oldest, after, latest)
                           /\ Numbered(z, OneMore(bs), oldest, after, latest)
  /\ Head(OneMore(bs)).base = oldest

(* The next packet is played from the head of a list that begins with its block. *)
LEMMA HeadPlayed ==
  ASSUME NEW z \in Bases, NEW bs, NEW o, NEW n, NEW l \in Bases,
         Pos(z, l) + DataShards < Half,
         Listed(z, bs, o, n, l), Numbered(z, bs, o, n, l), bs # <<>>, bs[1].base = o
  PROVE  HeadGoesOn(z, bs, o, n, l)
<1> DEFINE i == bs[1].nextDataPacketIndex
           r == [bs EXCEPT ![1].nextDataPacketIndex = @ + 1]
           next == U16(n + 1)
           over == U16(o + DataShards)
           d == DataShards
<1>1. bs \in Seq(FecBlocks) /\ 1 \in 1 .. Len(bs) /\ Len(bs) \in Nat /\ Len(bs) > 0
  <2>1. bs \in Seq(FecBlocks)
    BY DEF Listed
  <2> QED
    BY <2>1, WithoutHead
<1>2. /\ bs[1] \in FecBlocks /\ PlayedUpTo(z, bs[1], o, n) /\ Pos(z, o) <= Pos(z, l)
  BY <1>1, ListedBlock
<1>3. o \in Bases /\ n \in SeqNumbers /\ o \in Int /\ n \in Int /\ Pos(z, o) <= Pos(z, n) /\ Pos(z, n) < Pos(z, o) + d
  <2>1. o \in Bases /\ n \in SeqNumbers /\ Pos(z, o) <= Pos(z, n) /\ Pos(z, n) < Pos(z, o) + d
    BY DEF Numbered
  <2> QED
    BY <2>1, BasePosition, Numbers DEF SeqNumbers
<1>4. /\ Pos(z, o) \in Nat /\ Pos(z, n) \in Nat /\ Pos(z, l) \in Nat /\ d \in Nat /\ d > 1 /\ SeqModulus \in Nat
      /\ Half \in Nat /\ 2 * Half <= SeqModulus
  BY <1>3, BasePosition, Position, Numbers
<1>5. i = Pos(z, n) - Pos(z, o) /\ i \in Data
  <2>1. i = Pos(z, n) - Pos(z, o)
    BY <1>2 DEF PlayedUpTo
  <2> HIDE DEF i
  <2> QED
    BY <1>3, <1>4, <2>1 DEF Data
<1>6. o + i = n
  <2> HIDE DEF i
  <2>1. o + i \in SeqNumbers /\ Pos(z, o + i) = Pos(z, o) + i
    BY <1>3, <1>5, InBlock
  <2>2. Pos(z, o + i) = Pos(z, n)
    BY <1>4, <1>5, <2>1
  <2> QED
    BY <1>3, <2>1, <2>2, OneAtPosition
<1>7. U16(o + i) = n
  BY <1>3, <1>6, NoWrap
<1>8. next \in SeqNumbers /\ Pos(z, next) = Pos(z, n) + 1
  <2>1. Pos(z, n) + 1 \in SeqNumbers
    BY <1>2, <1>3, <1>4 DEF SeqNumbers
  <2>2. n + 1 \in Int /\ 1 \in Int
    BY <1>3
  <2>3. next \in SeqNumbers
    BY <2>2, Wraps
  <2>4. Pos(z, next) = Pos(z, n) + 1
    BY <1>3, <2>1, <2>2, Further
  <2> QED
    BY <2>3, <2>4
<1>9. over \in Bases /\ Pos(z, over) = Pos(z, o) + d /\ over \in SeqNumbers
  <2>1. Pos(z, o) + d < SeqModulus
    BY <1>2, <1>4
  <2> QED
    BY <1>3, <2>1, BaseAfter, BasePosition
<1>10. i + 1 = d <=> next = over
  <2> HIDE DEF i, next, over
  <2>1. i + 1 = d <=> Pos(z, next) = Pos(z, over)
    BY <1>4, <1>5, <1>8, <1>9
  <2> QED
    BY <1>8, <1>9, <2>1, OneAtPosition
<1> DEFINE blk == [bs[1] EXCEPT !.nextDataPacketIndex = @ + 1]
<1>11. /\ blk \in FecBlocks /\ blk.base = o /\ blk.nextDataPacketIndex = i + 1
       /\ blk.allowDiscontinuity = bs[1].allowDiscontinuity
  <2>1. i + 1 \in 0 .. d
    BY <1>4, <1>5 DEF Data
  <2> QED
    BY <1>2, <2>1 DEF FecBlocks
<1>12. /\ r \in Seq(FecBlocks) /\ Len(r) = Len(bs) /\ r[1] = blk
       /\ \A k \in 2 .. Len(bs) : r[k] = bs[k]
  <2>1. r = [bs EXCEPT ![1] = blk]
    OBVIOUS
  <2> HIDE DEF r, blk
  <2> QED
    BY <1>1, <1>11, <2>1
<1> HIDE DEF r, blk
<1>13. ASSUME NEW k \in 2 .. Len(bs)
       PROVE  /\ k \in 1 .. Len(bs) /\ bs[k].base \in Bases /\ Pos(z, bs[k].base) \in Nat
              /\ Pos(z, o) + d <= Pos(z, bs[k].base) /\ Pos(z, bs[k].base) <= Pos(z, l)
              /\ bs[k].base # o /\ PlayedUpTo(z, bs[k], o, n)
  <2>1. k \in 1 .. Len(bs) /\ 1 < k
    BY <1>1
  <2>2. /\ bs[k].base \in Bases /\ Pos(z, bs[k].base) \in Nat /\ Pos(z, bs[k].base) <= Pos(z, l)
        /\ PlayedUpTo(z, bs[k], o, n)
    BY <2>1, ListedBlock
  <2>3. Pos(z, o) < Pos(z, bs[k].base)
    BY <1>1, <2>1 DEF Listed
  <2>4. Pos(z, o) + d <= Pos(z, bs[k].base)
    BY <1>3, <2>2, <2>3, Apart
  <2>5. bs[k].base # o
    BY <1>4, <2>3
  <2> QED
    BY <2>1, <2>2, <2>4, <2>5
<1>14. \A j, k \in 1 .. Len(r) : j < k => Pos(z, r[j].base) < Pos(z, r[k].base)
  <2>1. \A k \in 1 .. Len(r) : r[k].base = bs[k].base /\ k \in 1 .. Len(bs)
    <3>1. ASSUME NEW k \in 1 .. Len(r) PROVE r[k].base = bs[k].base /\ k \in 1 .. Len(bs)
      <4>1. k = 1 \/ k \in 2 .. Len(bs)
        BY <1>1, <1>12
      <4> QED
        BY <1>1, <1>11, <1>12, <4>1
    <3> QED
      BY <3>1
  <2> QED
    BY <2>1 DEF Listed
<1>15. r # <<>> /\ Head(r) = r[1] /\ Head(r).base = o
  <2>1. r # <<>>
    BY <1>1, <1>12, EmptySeq
  <2> QED
    BY <1>11, <1>12, <2>1, WithoutHead
<1>16. ASSUME i + 1 # d PROVE Listed(z, r, o, next, l) /\ Numbered(z, r, o, next, l)
  <2> HIDE DEF i, next, over
  <2>1. Pos(z, o) <= Pos(z, next) /\ Pos(z, next) < Pos(z, o) + d /\ Pos(z, next) - Pos(z, o) = i + 1
    <3>1. i \in Nat /\ i < d
      BY <1>4, <1>5 DEF Data
    <3>2. i + 1 < d
      BY <1>4, <1>16, <3>1
    <3> QED
      BY <1>4, <1>5, <1>8, <3>1, <3>2
  <2>2. PlayedUpTo(z, r[1], o, next)
    BY <1>11, <1>12, <2>1 DEF PlayedUpTo
  <2>3. ASSUME NEW k \in 1 .. Len(r)
        PROVE  /\ Pos(z, o) <= Pos(z, r[k].base) /\ Pos(z, r[k].base) <= Pos(z, l) /\ PlayedUpTo(z, r[k], o, next)
    <3>1. k = 1 \/ k \in 2 .. Len(bs)
      BY <1>1, <1>12
    <3>2. CASE k = 1
      BY <1>2, <1>4, <1>11, <1>12, <2>2, <3>2
    <3>3. CASE k \in 2 .. Len(bs)
      <4>1. r[k] = bs[k]
        BY <1>12, <3>3
      <4>2. /\ Pos(z, bs[k].base) \in Nat /\ Pos(z, o) + d <= Pos(z, bs[k].base) /\ Pos(z, bs[k].base) <= Pos(z, l)
            /\ bs[k].base # o /\ PlayedUpTo(z, bs[k], o, n)
        BY <1>13, <3>3
      <4>3. PlayedUpTo(z, bs[k], o, next)
        BY <4>2 DEF PlayedUpTo
      <4> QED
        BY <1>4, <4>1, <4>2, <4>3
    <3> QED
      BY <3>1, <3>2, <3>3
  <2>4. Listed(z, r, o, next, l)
    BY <1>12, <1>14, <2>3 DEF Listed
  <2>5. Numbered(z, r, o, next, l)
    BY <1>3, <1>8, <1>11, <1>12, <1>15, <2>1 DEF Numbered, Begun
  <2> QED
    BY <2>4, <2>5
<1>17. ASSUME i + 1 = d
       PROVE  Listed(z, Tail(r), over, next, l) /\ Numbered(z, Tail(r), over, next, l)
  <2>1. next = over
    BY <1>10, <1>17
  <2> HIDE DEF i, next, over
  <2>2. /\ Tail(r) \in Seq(FecBlocks) /\ Len(Tail(r)) = Len(r) - 1
        /\ \A k \in 1 .. Len(r) - 1 : Tail(r)[k] = r[k + 1]
    BY <1>12, <1>15, WithoutHead
  <2>3. ASSUME NEW k \in 1 .. Len(Tail(r))
        PROVE  /\ k + 1 \in 1 .. Len(r) /\ Tail(r)[k] = r[k + 1]
               /\ Pos(z, over) <= Pos(z, Tail(r)[k].base) /\ Pos(z, Tail(r)[k].base) <= Pos(z, l)
               /\ PlayedUpTo(z, Tail(r)[k], over, next)
    <3>1. k + 1 \in 2 .. Len(bs) /\ k \in 1 .. Len(r) - 1
      BY <1>1, <1>12, <2>2
    <3>2. Tail(r)[k] = bs[k + 1] /\ Tail(r)[k] = r[k + 1]
      BY <1>12, <2>2, <3>1
    <3>3. /\ Pos(z, bs[k + 1].base) \in Nat /\ Pos(z, o) + d <= Pos(z, bs[k + 1].base)
          /\ Pos(z, bs[k + 1].base) <= Pos(z, l) /\ bs[k + 1].base # o /\ PlayedUpTo(z, bs[k + 1], o, n)
      BY <1>13, <3>1
    <3>4. PlayedUpTo(z, bs[k + 1], over, next)
      <4>1. Pos(z, next) - Pos(z, over) = 0
        BY <1>4, <1>9, <2>1
      <4> QED
        BY <3>3, <4>1 DEF PlayedUpTo
    <3>5. k + 1 \in 1 .. Len(r)
      BY <1>1, <1>12, <3>1
    <3> QED
      BY <1>9, <3>2, <3>3, <3>4, <3>5
  <2>4. ASSUME NEW j \in 1 .. Len(Tail(r)), NEW k \in 1 .. Len(Tail(r)), j < k
        PROVE  Pos(z, Tail(r)[j].base) < Pos(z, Tail(r)[k].base)
    <3>1. /\ j + 1 \in 1 .. Len(r) /\ k + 1 \in 1 .. Len(r) /\ j + 1 < k + 1
          /\ Tail(r)[j] = r[j + 1] /\ Tail(r)[k] = r[k + 1]
      BY <2>3, <2>4
    <3> QED
      BY <1>14, <3>1
  <2>5. Listed(z, Tail(r), over, next, l)
    BY <2>2, <2>3, <2>4 DEF Listed
  <2>6. Numbered(z, Tail(r), over, next, l)
    <3>1. Pos(z, over) <= Pos(z, l) + d /\ Pos(z, over) < Pos(z, over) + d /\ Pos(z, over) <= Pos(z, over)
      BY <1>2, <1>4, <1>9
    <3> QED
      BY <1>9, <2>1, <3>1 DEF Numbered
  <2> QED
    BY <2>5, <2>6
<1> QED
  <2>1. OneMore(bs) = r
    BY DEF OneMore, r
  <2> HIDE DEF i, next, over
  <2>2. i \in Data /\ U16(o + i) = n /\ (i + 1 = DataShards <=> next = over) /\ next \in SeqNumbers /\ Pos(z, next) = Pos(z, n) + 1
    BY <1>5, <1>7, <1>8, <1>10
  <2>3. i + 1 = DataShards => Listed(z, Tail(r), over, next, l) /\ Numbered(z, Tail(r), over, next, l)
    BY <1>17
  <2>4. i + 1 # DataShards => Listed(z, r, o, next, l) /\ Numbered(z, r, o, next, l)
    BY <1>16
  <2> QED
    BY <1>15, <2>1, <2>2, <2>3, <2>4 DEF HeadGoesOn, i, next, over

-------------------------------------------------------------------------------
(* As seen from a later block that is the oldest one, a list is still in order. *)
LEMMA OrderMoves ==
  ASSUME NEW z \in Bases, NEW bs, NEW o, NEW n, NEW l \in Bases,
         Listed(z, bs, o, n, l), Numbered(z, bs, o, n, l), Offset <= Pos(z, o)
  PROVE  /\ Listed(o, bs, o, n, l) /\ Numbered(o, bs, o, n, l)
         /\ Pos(o, l) <= Pos(z, l)
<1> DEFINE d == DataShards  e == Pos(z, o) - Offset
<1>1. /\ o \in Bases /\ n \in SeqNumbers /\ Pos(z, o) <= Pos(z, l) + d
      /\ Pos(z, o) <= Pos(z, n) /\ Pos(z, n) < Pos(z, o) + d
  BY DEF Numbered
<1>2. /\ o \in Int /\ n \in Int /\ l \in Int
      /\ Pos(z, o) \in Nat /\ Pos(z, l) \in Nat /\ Pos(z, n) \in Nat /\ e \in Nat
      /\ Offset \in Nat /\ d \in Nat /\ d <= Offset
  <2>1. o \in Int /\ n \in Int /\ l \in Int
    BY <1>1, BaseNumber, Numbers DEF SeqNumbers
  <2>2. Pos(z, o) \in Nat /\ Pos(z, l) \in Nat /\ Pos(z, n) \in Nat
    BY <2>1, Position
  <2> QED
    BY <2>1, <2>2, Numbers
<1>3. ASSUME NEW x \in Int, e <= Pos(z, x) PROVE Pos(o, x) = Pos(z, x) - e
  BY <1>1, <1>3, Reorigin
<1> HIDE DEF e
<1>4. e = Pos(z, o) - Offset /\ e <= Pos(z, o) /\ e <= Pos(z, n) /\ e <= Pos(z, l)
  BY <1>1, <1>2 DEF e
<1>5. Pos(o, o) = Pos(z, o) - e /\ Pos(o, n) = Pos(z, n) - e /\ Pos(o, l) = Pos(z, l) - e
  BY <1>2, <1>3, <1>4
<1>6. ASSUME NEW k \in 1 .. Len(bs)
      PROVE  /\ bs[k].base \in Bases /\ Pos(z, bs[k].base) \in Nat
             /\ Pos(o, bs[k].base) = Pos(z, bs[k].base) - e
             /\ Pos(z, o) <= Pos(z, bs[k].base) /\ Pos(z, bs[k].base) <= Pos(z, l)
             /\ PlayedUpTo(z, bs[k], o, n)
  <2>1. /\ bs[k].base \in Bases /\ Pos(z, bs[k].base) \in Nat
        /\ Pos(z, o) <= Pos(z, bs[k].base) /\ Pos(z, bs[k].base) <= Pos(z, l)
        /\ PlayedUpTo(z, bs[k], o, n)
    BY ListedBlock
  <2>2. bs[k].base \in Int
    BY <2>1, BaseNumber
  <2>3. e <= Pos(z, bs[k].base)
    BY <1>2, <1>4, <2>1
  <2> QED
    BY <1>3, <2>1, <2>2, <2>3
<1>7. ASSUME NEW k \in 1 .. Len(bs)
      PROVE  /\ Pos(o, o) <= Pos(o, bs[k].base) /\ Pos(o, bs[k].base) <= Pos(o, l)
             /\ PlayedUpTo(o, bs[k], o, n)
  <2>1. Pos(o, o) <= Pos(o, bs[k].base) /\ Pos(o, bs[k].base) <= Pos(o, l)
    BY <1>2, <1>5, <1>6
  <2>2. Pos(o, n) - Pos(o, o) = Pos(z, n) - Pos(z, o)
    BY <1>2, <1>5
  <2> QED
    BY <1>6, <2>1, <2>2 DEF PlayedUpTo
<1>8. ASSUME NEW j \in 1 .. Len(bs), NEW k \in 1 .. Len(bs), j < k
      PROVE  Pos(o, bs[j].base) < Pos(o, bs[k].base)
  <2>1. Pos(z, bs[j].base) < Pos(z, bs[k].base)
    BY <1>8 DEF Listed
  <2> QED
    BY <1>2, <1>6, <2>1
<1>9. Listed(o, bs, o, n, l)
  BY <1>7, <1>8 DEF Listed
<1>10. Pos(o, o) <= Pos(o, l) + d /\ Pos(o, o) <= Pos(o, n) /\ Pos(o, n) < Pos(o, o) + d
  BY <1>1, <1>2, <1>5
<1>11. Numbered(o, bs, o, n, l)
  BY <1>10 DEF Numbered
<1>12. Pos(o, l) <= Pos(z, l)
  BY <1>2, <1>5
<1> QED
  BY <1>9, <1>11, <1>12

-------------------------------------------------------------------------------
(* What was played last is not directly before the next packet. *)
Jumped == played # Nothing /\ U16(played + 1) # nextRtpSequenceNumber

(* No block of a list is block 0, which the queue takes for its initial state *)
(* until it is synchronized.                                                  *)
NoneAtZero(bs) == \A k \in 1 .. Len(bs) : bs[k].base # 0

(* Once it knows where the stream is the queue is in order, as seen from its   *)
(* oldest block.                                                               *)
Ordered ==
  LET z == oldestRtpBaseSequenceNumber IN
  /\ Listed(z, blocks, z, nextRtpSequenceNumber, newest)
  /\ Numbered(z, blocks, z, nextRtpSequenceNumber, newest)
  /\ Preceded(played, z, nextRtpSequenceNumber)
  /\ Jumped => Begun(blocks, z)
  /\ Pos(z, newest) <= Offset + MaxAhead * DataShards
  /\ synchronizing => NoneAtZero(blocks)

(* The invariant. *)
QueueInv ==
  /\ TypeOK
  /\ MustSynchronize => blocks = <<>> /\ played = Nothing /\ nextRtpSequenceNumber = 0
  /\ ~MustSynchronize => Ordered

(* What PlayedInOrder and SkipsOnlyTheUnseen say of a step. *)
PlaysInOrder ==
  Plays /\ played # Nothing =>
    \/ played' = U16(played + 1)
    \/ /\ isBefore16(played, played')
       /\ played' % DataShards = 0 /\ U16(played + 1) % DataShards = 0

SkipsTheUnseen ==
  numbers' # numbers /\ played' = played /\ ~MustSynchronize =>
    \A k \in DOMAIN blocks' : ~isBefore16(blocks'[k].base, nextRtpSequenceNumber')

(* The positions up to the block after the newest one are in use. *)
LEMMA InUse ==
  ASSUME NEW z \in Bases, NEW l \in Bases, Pos(z, l) <= Offset + MaxAhead * DataShards
  PROVE  Pos(z, l) \in Nat /\ Pos(z, l) + DataShards < Half /\ Pos(z, l) < Half /\ Pos(z, l) + 2 * DataShards <= Half
<1>1. Pos(z, l) \in Nat
  BY BasePosition, Position
<1> QED
  BY <1>1, Numbers

(* A step that leaves the numbers alone plays nothing and skips nothing. *)
LEMMA Unmoved ==
  ASSUME nextRtpSequenceNumber \in SeqNumbers, numbers' = numbers, played' = played
  PROVE  PlaysInOrder /\ SkipsTheUnseen
<1>1. U16(nextRtpSequenceNumber + 1) # nextRtpSequenceNumber
  BY NotItsOwn
<1> QED
  BY <1>1 DEF PlaysInOrder, SkipsTheUnseen, Plays, numbers

(* When the packet that is next is played, it is the one after the last, or    *)
(* one that begins a block after a block that ended.                           *)
LEMMA NextPlayed ==
  ASSUME nextRtpSequenceNumber \in SeqNumbers, oldestRtpBaseSequenceNumber \in Bases,
         Preceded(played, oldestRtpBaseSequenceNumber, nextRtpSequenceNumber),
         played' = nextRtpSequenceNumber,
         nextRtpSequenceNumber' = U16(nextRtpSequenceNumber + 1)
  PROVE  /\ PlaysInOrder /\ SkipsTheUnseen /\ played' \in SeqNumbers /\ ~Jumped'
         /\ \A o : Preceded(played', o, nextRtpSequenceNumber')
<1> DEFINE n == nextRtpSequenceNumber  o == oldestRtpBaseSequenceNumber
<1>1. U16(n + 1) # n /\ ~isBefore16(n, n)
  BY NotItsOwn
<1>2. Nothing \notin SeqNumbers
  BY Numbers DEF Nothing, SeqNumbers
<1>3. played' # played
  <2>1. CASE played = Nothing
    BY <1>2, <2>1
  <2>2. CASE played # Nothing
    BY <1>1, <2>2 DEF Preceded
  <2> QED
    BY <2>1, <2>2
<1>4. PlaysInOrder
  <2>1. SUFFICES ASSUME played # Nothing
                 PROVE  \/ n = U16(played + 1)
                        \/ /\ isBefore16(played, n)
                           /\ n % DataShards = 0 /\ U16(played + 1) % DataShards = 0
    BY DEF PlaysInOrder
  <2> QED
    BY <2>1 DEF Preceded, Bases
<1>5. SkipsTheUnseen
  BY <1>3 DEF SkipsTheUnseen
<1>6. ~Jumped'
  BY DEF Jumped, U16
<1>7. ASSUME NEW b PROVE Preceded(played', b, n')
  BY DEF Preceded
<1> QED
  BY <1>4, <1>5, <1>6, <1>7

-------------------------------------------------------------------------------
(* What the types say of the numbers. *)
LEMMA TypesGive ==
  ASSUME QueueInv
  PROVE  /\ blocks \in Seq(FecBlocks) /\ nextRtpSequenceNumber \in SeqNumbers
         /\ oldestRtpBaseSequenceNumber \in Bases /\ newest \in Bases
         /\ synchronizing \in BOOLEAN
BY DEF QueueInv, TypeOK, FecBlocks

(* The order holds for any later block as the newest one. *)
LEMMA OrderedFor ==
  ASSUME NEW z \in Bases, z = oldestRtpBaseSequenceNumber,
         QueueInv, ~MustSynchronize, NEW l \in Bases, Pos(z, newest) <= Pos(z, l)
  PROVE  /\ Listed(z, blocks, z, nextRtpSequenceNumber, l)
         /\ Numbered(z, blocks, z, nextRtpSequenceNumber, l)
         /\ Preceded(played, z, nextRtpSequenceNumber)
         /\ Jumped => Begun(blocks, z)
         /\ synchronizing => NoneAtZero(blocks)
<1> DEFINE n == nextRtpSequenceNumber
<1>1. /\ Listed(z, blocks, z, n, newest) /\ Numbered(z, blocks, z, n, newest)
      /\ Preceded(played, z, n)
      /\ Jumped => Begun(blocks, z)
      /\ synchronizing => NoneAtZero(blocks)
  BY DEF QueueInv, Ordered
<1>2. newest \in Bases
  BY TypesGive
<1>3. Listed(z, blocks, z, n, l)
  BY <1>1, <1>2, StaysListed
<1>4. Pos(z, z) <= Pos(z, l) + DataShards
  <2>1. Pos(z, z) \in Nat /\ Pos(z, newest) \in Nat /\ Pos(z, l) \in Nat /\ DataShards \in Nat
    BY <1>2, BasePosition, Position, Numbers
  <2>2. Pos(z, z) <= Pos(z, newest) + DataShards
    BY <1>1 DEF Numbered
  <2> QED
    BY <2>1, <2>2
<1>5. Numbered(z, blocks, z, n, l)
  BY <1>1, <1>4 DEF Numbered
<1> QED
  BY <1>1, <1>3, <1>5

(* What is noted of data out of sequence is a number. *)
LEMMA NotedTypes ==
  ASSUME TypeOK, NEW p \in Packets, NoteOutOfSequence(p)
  PROVE  lastOosSequenceNumber' \in SeqNumbers /\ receivedOosData' \in BOOLEAN
<1>1. IsData(p) => Seq16(p) \in SeqNumbers
  <2>1. p.base \in Bases /\ (IsData(p) => p.shard \in Data)
    BY DEF Packets, IsData
  <2> QED
    BY <2>1, InBlock DEF Seq16
<1>2. 0 \in SeqNumbers
  BY Numbers DEF SeqNumbers
<1> QED
  BY <1>1, <1>2 DEF NoteOutOfSequence, IsOutOfSequence, oos, TypeOK

(* What every step keeps, once it is known where the newest block is and what  *)
(* the receive thread noted.                                                   *)
Surrounded(z) ==
  /\ newest' \in Bases /\ Pos(z, newest) <= Pos(z, newest')
  /\ Pos(z, newest') <= Offset + MaxAhead * DataShards
  /\ lastOosSequenceNumber' \in SeqNumbers /\ receivedOosData' \in BOOLEAN

(* The rest of the invariant, for a queue whose list is in order: that it is   *)
(* as seen from the block that was the oldest one before the step.             *)
LEMMA KeepsInv ==
  ASSUME NEW z \in Bases, QueueInv, Surrounded(z), pc' \in {"receive", "drain"},
         incompatibleServer' \in BOOLEAN, synchronizing' \in {synchronizing, FALSE}, ~MustSynchronize',
         Jumped' => Begun(blocks', oldestRtpBaseSequenceNumber'), Offset <= Pos(z, oldestRtpBaseSequenceNumber'),
         Listed(z, blocks', oldestRtpBaseSequenceNumber', nextRtpSequenceNumber', newest'),
         Numbered(z, blocks', oldestRtpBaseSequenceNumber', nextRtpSequenceNumber', newest'),
         Preceded(played', oldestRtpBaseSequenceNumber', nextRtpSequenceNumber'),
         synchronizing' => NoneAtZero(blocks')
  PROVE  QueueInv'
<1> DEFINE o == oldestRtpBaseSequenceNumber'  n == nextRtpSequenceNumber'  l == newest'  bs == blocks'
<1>1. TypeOK'
  <2>1. synchronizing \in BOOLEAN
    BY TypesGive
  <2> QED
    BY <2>1 DEF TypeOK, Surrounded, Listed, Numbered, Preceded, FecBlocks
<1>2. l \in Bases /\ Pos(z, l) <= Offset + MaxAhead * DataShards
  BY DEF Surrounded
<1>3. Listed(o, bs, o, n, l) /\ Numbered(o, bs, o, n, l) /\ Pos(o, l) <= Pos(z, l)
  <2> HIDE DEF o, n, l, bs
  <2>1. Listed(z, bs, o, n, l) /\ Numbered(z, bs, o, n, l) /\ Offset <= Pos(z, o)
    BY DEF o, n, l, bs
  <2> QED
    BY <1>2, <2>1, OrderMoves
<1>4. Pos(o, l) <= Offset + MaxAhead * DataShards
  <2>1. o \in Bases
    BY <1>3 DEF Numbered
  <2>2. Pos(o, l) \in Nat /\ Pos(z, l) \in Nat /\ Offset \in Nat /\ MaxAhead * DataShards \in Nat
    BY <1>2, <2>1, BasePosition, Position, Numbers
  <2> QED
    BY <1>2, <1>3, <2>2
<1>5. Ordered'
  BY <1>3, <1>4
     DEF Ordered, Listed, Numbered, Begun, Preceded, PlayedUpTo, Pos, U16, isBefore16, NoneAtZero, Jumped, Offset
<1> QED
  BY <1>1, <1>5 DEF QueueInv

(* A packet that is rejected or that turns the queue off leaves the list.      *)
LEMMA StaysAsItIs ==
  ASSUME NEW z \in Bases, z = oldestRtpBaseSequenceNumber, QueueInv, ~MustSynchronize, Surrounded(z),
         UNCHANGED <<blocks, numbers, synchronizing, played>>, pc' \in {"receive", "drain"},
         incompatibleServer' \in BOOLEAN
  PROVE  QueueInv' /\ PlaysInOrder /\ SkipsTheUnseen
<1>1. PlaysInOrder /\ SkipsTheUnseen
  BY Unmoved, TypesGive
<1>2. ~MustSynchronize' /\ synchronizing' \in {synchronizing, FALSE}
  BY DEF MustSynchronize, numbers
<1>3. /\ Listed(z, blocks, z, nextRtpSequenceNumber, newest')
      /\ Numbered(z, blocks, z, nextRtpSequenceNumber, newest')
      /\ Preceded(played, z, nextRtpSequenceNumber)
      /\ Jumped => Begun(blocks, z)
      /\ synchronizing => NoneAtZero(blocks)
  BY OrderedFor DEF Surrounded
<1>4. oldestRtpBaseSequenceNumber' = z /\ nextRtpSequenceNumber' = nextRtpSequenceNumber
  BY DEF numbers
<1>5. /\ Listed(z, blocks', oldestRtpBaseSequenceNumber', nextRtpSequenceNumber', newest')
      /\ Numbered(z, blocks', oldestRtpBaseSequenceNumber', nextRtpSequenceNumber', newest')
      /\ Preceded(played', oldestRtpBaseSequenceNumber', nextRtpSequenceNumber')
      /\ synchronizing' => NoneAtZero(blocks')
  BY <1>3, <1>4
<1>6. Jumped' => Begun(blocks', oldestRtpBaseSequenceNumber')
  <2>1. Jumped' => Jumped
    BY <1>4 DEF Jumped, U16
  <2> QED
    BY <1>3, <1>4, <2>1
<1>7. Offset <= Pos(z, oldestRtpBaseSequenceNumber')
  BY <1>4, Origin, Numbers
<1> QED
  BY <1>1, <1>2, <1>5, <1>6, <1>7, KeepsInv

-------------------------------------------------------------------------------
(* What is known of a packet that arrives. *)
Arrived(z, p) ==
  /\ p \in Packets /\ p.base \in Bases /\ p.shard \in Shards
  /\ Pos(z, p.base) <= Pos(z, newest')
  /\ synchronizing /\ ~IsOld(p) => p.base # 0

(* By how many blocks one base is ahead of another, in positions. *)
LEMMA AheadPosition ==
  ASSUME NEW z \in Bases, NEW b \in Bases, NEW c \in Bases
  PROVE  /\ Ahead(b, c) \in Nat /\ Ahead(b, c) * DataShards \in Nat
         /\ Ahead(b, c) * DataShards = IF Pos(z, c) <= Pos(z, b) THEN Pos(z, b) - Pos(z, c)
                                       ELSE SeqModulus + Pos(z, b) - Pos(z, c)
<1>1. Ahead(b, c) \in Nat /\ Ahead(b, c) * DataShards = U16(b - c) /\ b \in Int /\ c \in Int
  BY BlocksAhead, BaseNumber
<1>2. U16(b - c) \in Nat
  BY <1>1, Wraps, Numbers DEF SeqNumbers
<1> QED
  BY <1>1, <1>2, Distance

(* A late packet is of a block that is not after the newest one, which stays,  *)
(* when that is not so early that the positions before it are not in use.      *)
LEMMA ArrivesLate ==
  ASSUME NEW z \in Bases, newest \in Bases, NEW p \in Packets,
         Pos(z, newest) <= Offset + MaxAhead * DataShards,
         Offset <= Pos(z, newest) + DataShards \/ Pos(z, p.base) = Offset,
         Ahead(newest, p.base) \in 0 .. MaxReorder
  PROVE  /\ Pos(z, p.base) <= Pos(z, newest) /\ ~Advances(p)
         /\ Pos(z, newest) <= Pos(z, p.base) + MaxReorder * DataShards
<1> DEFINE P == Pos(z, p.base)  Q == Pos(z, newest)  d == DataShards  m == SeqModulus  last == MaxAhead * d
           n == Ahead(p.base, newest)  late == Ahead(newest, p.base)  x == n * d  y == late * d
           re == MaxReorder * d
<1>1. p.base \in Bases
  BY DEF Packets
<1>2. /\ P \in Nat /\ Q \in Nat /\ P < m /\ d \in Nat /\ d > 0 /\ m \in Nat /\ last \in Nat
      /\ Offset \in Nat /\ Q <= Offset + last /\ 2 * (Offset + last + 2 * d) <= m
      /\ re \in Nat /\ re = Offset - d /\ re <= last
  <2>1. P \in Nat /\ Q \in Nat /\ P < m
    BY <1>1, BasePosition, Position
  <2>2. 2 * (Offset + last + 2 * d) <= m
    BY Numbers
  <2> QED
    BY <2>1, <2>2, Numbers
<1>3. /\ n \in Nat /\ late \in Nat /\ x \in Nat /\ y \in Nat
      /\ x = (IF Q <= P THEN P - Q ELSE m + P - Q)
      /\ y = (IF P <= Q THEN Q - P ELSE m + Q - P)
  BY <1>1, AheadPosition
<1>4. y <= re
  <2>1. late <= MaxReorder /\ late \in Int /\ MaxReorder \in Int
    BY <1>3, ShardsAssumption
  <2> HIDE DEF late
  <2> QED
    BY <2>1, FewerBlocks
<1>5. P <= Q
  <2> HIDE DEF x, y, n, late, P, Q, m, last, d, re
  <2>1. Offset <= Q + d \/ P = Offset
    BY DEF Q, P, d
  <2> QED
    BY <1>2, <1>3, <1>4, <2>1
<1>6. Q <= P + re
  <2> HIDE DEF x, y, n, late, P, Q, m, last, d, re
  <2> QED
    BY <1>2, <1>3, <1>4, <1>5
<1>7. ~Advances(p)
  <2>1. SUFFICES ASSUME n \in 1 .. MaxAhead PROVE FALSE
    BY DEF Advances
  <2>2. 1 * d <= x /\ x <= last
    <3>1. 1 <= n /\ n <= MaxAhead /\ n \in Int /\ MaxAhead \in Int /\ 1 \in Int
      BY <1>3, <2>1, ShardsAssumption
    <3> HIDE DEF n
    <3> QED
      BY <3>1, FewerBlocks
  <2>3. 1 * d = d
    BY <1>2
  <2> HIDE DEF x, y, n, late, P, Q, m, last, d, re
  <2> QED
    BY <1>2, <1>3, <1>4, <1>5, <1>6, <2>2, <2>3
<1> QED
  BY <1>5, <1>6, <1>7

(* A packet that arrives is of a block whose position is in use, and not after *)
(* the newest one.                                                             *)
LEMMA Arrives ==
  ASSUME ~WrapsEarly, NEW z \in Bases, z = oldestRtpBaseSequenceNumber, QueueInv, ~MustSynchronize,
         NEW p \in Packets, MayArrive(p), newest' = IF Advances(p) THEN p.base ELSE newest
  PROVE  /\ Arrived(z, p) /\ newest' \in Bases /\ Pos(z, newest) <= Pos(z, newest')
         /\ Pos(z, newest') <= Offset + MaxAhead * DataShards
<1>1. p.base \in Bases /\ p.shard \in Shards /\ newest \in Bases
  BY TypesGive DEF Packets
<1> DEFINE P == Pos(z, p.base)  Q == Pos(z, newest)  d == DataShards  m == SeqModulus  last == MaxAhead * d
           n == Ahead(p.base, newest)  r == Ahead(p.base, z)  x == n * d  y == r * d
<1>2. /\ P \in Nat /\ Q \in Nat /\ P < m /\ d \in Nat /\ d > 0 /\ m \in Nat /\ last \in Nat
      /\ Offset \in Nat /\ Q <= Offset + last /\ 2 * (Offset + last + 2 * d) <= m
      /\ Pos(z, z) = Offset /\ Offset <= Q + d
  <2>1. P \in Nat /\ Q \in Nat /\ P < m
    BY <1>1, BasePosition, Position
  <2>2. 2 * (Offset + last + 2 * d) <= m
    BY Numbers
  <2>3. Q <= Offset + last /\ Pos(z, z) <= Q + d
    BY DEF QueueInv, Ordered, Numbered
  <2>4. Pos(z, z) = Offset
    BY Origin
  <2> QED
    BY <2>1, <2>2, <2>3, <2>4, Numbers
<1>3. synchronizing /\ ~IsOld(p) => p.base # 0
  BY DEF MayArrive, EarlyWrap
<1>4. CASE Ahead(newest, p.base) \in 0 .. MaxReorder
  <2>1. P <= Q /\ ~Advances(p)
    BY <1>1, <1>2, <1>4, ArrivesLate
  <2>2. newest' = newest
    BY <2>1
  <2> QED
    BY <1>1, <1>2, <1>3, <2>1, <2>2 DEF Arrived
<1>5. CASE Advances(p) /\ InReach(p)
  <2>1. n \in 1 .. MaxAhead /\ r <= MaxAhead /\ newest' = p.base
    BY <1>5 DEF Advances, InReach
  <2>2. /\ n \in Nat /\ r \in Nat /\ x \in Nat /\ y \in Nat
        /\ x = (IF Q <= P THEN P - Q ELSE m + P - Q)
        /\ y = (IF Offset <= P THEN P - Offset ELSE m + P - Offset)
    BY <1>1, <1>2, AheadPosition
  <2>3. x <= last /\ y <= last
    <3>1. n <= MaxAhead /\ n \in Int /\ MaxAhead \in Int /\ r \in Int /\ r <= MaxAhead
      BY <2>1, <2>2, ShardsAssumption
    <3> HIDE DEF n, r
    <3> QED
      BY <3>1, FewerBlocks
  <2>4. Q <= P /\ P <= Offset + last
    <3> HIDE DEF x, y, n, r, P, Q, m, last, d
    <3> QED
      BY <1>2, <2>2, <2>3
  <2>5. P <= P
    BY <1>2
  <2> QED
    BY <1>1, <1>3, <2>1, <2>4, <2>5 DEF Arrived
<1> QED
  BY <1>4, <1>5 DEF MayArrive

(* The queue is synchronized to the block after the packet's; until then there *)
(* is nothing that could be out of order.                                      *)
LEMMA SynchronizeStep ==
  ASSUME QueueInv, MustSynchronize, NEW p \in Packets, Receive(p)
  PROVE  QueueInv' /\ PlaysInOrder /\ SkipsTheUnseen
<1> DEFINE next == U16(p.base + DataShards)  z == p.base
<1>1. z \in Bases /\ newest \in Bases /\ newest' = (IF Advances(p) THEN p.base ELSE newest)
  BY TypesGive DEF Packets, Receive
<1>2. newest' \in Bases
  BY <1>1
<1>3. CASE Misaligned(p)
  <2>1. UNCHANGED <<blocks, numbers, oos, synchronizing, pc, played>> /\ incompatibleServer' = TRUE
    BY <1>3 DEF Misaligned
  <2>2. PlaysInOrder /\ SkipsTheUnseen
    BY <2>1, Unmoved, TypesGive
  <2>3. TypeOK'
    BY <1>2, <2>1 DEF QueueInv, TypeOK, numbers, oos
  <2>4. MustSynchronize'
    BY <2>1 DEF MustSynchronize, numbers
  <2> QED
    BY <2>1, <2>2, <2>3, <2>4 DEF QueueInv, numbers
<1>4. CASE AddPacket(p)
  <2>1. Synchronize(p) /\ NoteOutOfSequence(p)
    BY <1>4 DEF AddPacket, Reject, Mismatch, HandleNow, Keep, Accepts
  <2>2. /\ blocks' = <<>> /\ played = Nothing /\ played' = Nothing
        /\ nextRtpSequenceNumber' = next /\ oldestRtpBaseSequenceNumber' = next
        /\ synchronizing' = synchronizing /\ incompatibleServer' = incompatibleServer /\ pc' = pc
    BY <2>1 DEF QueueInv, Synchronize
  <2>3. PlaysInOrder /\ SkipsTheUnseen
    BY <2>2 DEF PlaysInOrder, SkipsTheUnseen
  <2>4. next \in Bases /\ next \in SeqNumbers
    BY <1>1, BaseAfter, BaseNumber
  <2>5. TypeOK'
    <3>1. lastOosSequenceNumber' \in SeqNumbers /\ receivedOosData' \in BOOLEAN
      BY <2>1, NotedTypes DEF QueueInv
    <3>2. /\ blocks' \in Seq(FecBlocks) /\ synchronizing \in BOOLEAN
          /\ incompatibleServer \in BOOLEAN /\ pc \in {"receive", "drain"}
      BY <2>2 DEF QueueInv, TypeOK
    <3> HIDE DEF next
    <3> QED
      BY <1>2, <2>2, <2>4, <3>1, <3>2 DEF TypeOK, FecBlocks
  <2>6. CASE MustSynchronize'
    BY <2>2, <2>3, <2>5, <2>6 DEF QueueInv, MustSynchronize
  <2>7. CASE ~MustSynchronize'
    <3> DEFINE l == newest'  d == DataShards  last == MaxAhead * DataShards
    <3>1. /\ Pos(z, z) = Offset /\ Pos(z, l) \in Nat /\ Offset \in Nat /\ last \in Nat
          /\ d \in Nat /\ d > 1 /\ SeqModulus \in Nat /\ 2 * (Offset + last + 2 * d) <= SeqModulus
      <4>1. 2 * (Offset + last + 2 * d) <= SeqModulus
        BY Numbers
      <4> QED
        BY <1>1, <1>2, <4>1, Origin, BasePosition, Position, Numbers
    <3>2. Offset <= Pos(z, l) /\ Pos(z, l) <= Offset + last
      <4>1. CASE Ahead(newest, p.base) \in 0 .. MaxReorder
        <5> DEFINE y == Ahead(newest, p.base) * DataShards  re == MaxReorder * DataShards  Q == Pos(z, newest)
        <5>1. y \in Nat /\ y = (IF Offset <= Q THEN Q - Offset ELSE SeqModulus + Q - Offset) /\ Q \in Nat
          BY <1>1, <3>1, AheadPosition, BasePosition, Position
        <5>2. y <= re /\ re \in Nat /\ re = Offset - d /\ re <= last
          <6>1. Ahead(newest, p.base) <= MaxReorder /\ Ahead(newest, p.base) \in Int /\ MaxReorder \in Int
            BY <4>1, ShardsAssumption
          <6> QED
            BY <6>1, FewerBlocks, Numbers
        <5> HIDE DEF y, re
        <5>3. Offset <= Q /\ Q <= Offset + last
          BY <3>1, <5>1, <5>2
        <5>4. ~Advances(p)
          BY <1>1, <3>1, <4>1, <5>3, ArrivesLate
        <5> QED
          BY <1>1, <5>3, <5>4
      <4>2. CASE Advances(p)
        BY <1>1, <3>1, <4>2
      <4> QED
        BY <4>1, <4>2 DEF Receive, MayArrive
    <3>3. Pos(z, next) = Offset + d
      <4>1. Pos(z, z) + DataShards < SeqModulus
        BY <3>1
      <4> QED
        BY <1>1, <3>1, <4>1, BaseAfter
    <3> HIDE DEF next, l, z
    <3>4. Listed(z, <<>>, next, next, l)
      BY DEF Listed
    <3>5. Numbered(z, <<>>, next, next, l)
      <4>1. Pos(z, next) <= Pos(z, l) + d /\ Pos(z, next) <= Pos(z, next) /\ Pos(z, next) < Pos(z, next) + d
        BY <3>1, <3>2, <3>3
      <4> QED
        BY <2>4, <4>1 DEF Numbered
    <3>6. /\ Listed(next, <<>>, next, next, l) /\ Numbered(next, <<>>, next, next, l)
          /\ Pos(next, l) <= Pos(z, l)
      <4>1. Offset <= Pos(z, next) /\ l \in Bases /\ z \in Bases
        BY <1>1, <1>2, <3>1, <3>3 DEF l
      <4> QED
        BY <3>4, <3>5, <4>1, OrderMoves
    <3>7. Pos(next, l) <= Offset + last
      <4>1. Pos(next, l) \in Nat
        BY <1>2, <2>4, BasePosition, Position DEF l
      <4> QED
        BY <3>1, <3>2, <3>6, <4>1
    <3>8. ~Jumped' /\ Preceded(played', next, next) /\ NoneAtZero(<<>>)
      BY <2>2 DEF Jumped, Preceded, NoneAtZero, Nothing
    <3>9. Ordered'
      BY <2>2, <3>6, <3>7, <3>8
         DEF Ordered, l, Listed, Numbered, Begun, Preceded, PlayedUpTo, Pos, U16, isBefore16, NoneAtZero, Jumped, Offset
    <3> QED
      BY <2>3, <2>5, <2>7, <3>9 DEF QueueInv
  <2> QED
    BY <2>6, <2>7
<1> QED
  BY <1>3, <1>4 DEF Receive

(* A block of the same base in its place leaves no block at zero, ... *)
LEMMA StaysFromZero ==
  ASSUME NEW bs \in Seq(FecBlocks), NEW k \in 1 .. Len(bs), NEW blk, blk.base = bs[k].base,
         NoneAtZero(bs)
  PROVE  NoneAtZero([bs EXCEPT ![k] = blk])
<1> DEFINE r == [bs EXCEPT ![k] = blk]
<1>1. Len(r) = Len(bs) /\ \A j \in 1 .. Len(bs) : r[j] = IF j = k THEN blk ELSE bs[j]
  OBVIOUS
<1> HIDE DEF r
<1>2. NoneAtZero(r)
  BY <1>1 DEF NoneAtZero
<1> QED
  BY <1>2 DEF r

(* ... and neither does the block of a packet that is not of block 0. *)
LEMMA AcceptedFromZero ==
  ASSUME blocks \in Seq(FecBlocks), NEW p \in Packets, p.base # 0, NoneAtZero(blocks)
  PROVE  NoneAtZero(WithPacket(p))
<1> DEFINE b == p.base  k == Place(b)
<1>1. k \in 1 .. Len(blocks) + 1 /\ Len(blocks) \in Nat /\ b \in Bases
  BY WalkStops DEF Packets
<1> DEFINE list == IF Exists(b) THEN blocks ELSE InsertAt(blocks, k, NewBlock(b))
<1> HIDE DEF k, b
<1>2. list \in Seq(FecBlocks) /\ k \in 1 .. Len(list) /\ NoneAtZero(list)
  <2>1. CASE Exists(b)
    <3>1. k <= Len(blocks)
      BY <2>1 DEF Exists, k
    <3> QED
      BY <1>1, <2>1, <3>1
  <2>2. CASE ~Exists(b)
    <3> DEFINE e == NewBlock(b)
    <3>1. e \in FecBlocks /\ e.base = b
      BY <1>1, Numbers DEF NewBlock, FecBlocks
    <3> HIDE DEF e
    <3>2. /\ InsertAt(blocks, k, e) \in Seq(FecBlocks) /\ Len(InsertAt(blocks, k, e)) = Len(blocks) + 1
          /\ \A j \in 1 .. Len(blocks) + 1 :
               InsertAt(blocks, k, e)[j] = IF j < k THEN blocks[j] ELSE IF j = k THEN e ELSE blocks[j - 1]
      BY <1>1, <3>1, Inserted
    <3>3. list = InsertAt(blocks, k, e)
      BY <2>2 DEF e
    <3> HIDE DEF list
    <3>4. ASSUME NEW j \in 1 .. Len(list) PROVE list[j].base # 0
      <4>1. CASE j < k
        <5>1. j \in 1 .. Len(blocks) /\ list[j] = blocks[j]
          BY <1>1, <3>2, <3>3, <4>1
        <5> QED
          BY <5>1 DEF NoneAtZero
      <4>2. CASE j = k
        <5>1. list[j] = e
          BY <1>1, <3>2, <3>3, <4>2
        <5> QED
          BY <3>1, <5>1 DEF b
      <4>3. CASE j > k
        <5>1. j - 1 \in 1 .. Len(blocks) /\ list[j] = blocks[j - 1]
          BY <1>1, <3>2, <3>3, <4>3
        <5> QED
          BY <5>1 DEF NoneAtZero
      <4> QED
        BY <1>1, <4>1, <4>2, <4>3
    <3> QED
      BY <1>1, <3>2, <3>3, <3>4 DEF NoneAtZero
  <2> QED
    BY <2>1, <2>2
<1> HIDE DEF list
<1> DEFINE blk == [list[k] EXCEPT !.got = @ \cup {p.shard}]
<1>3. list[k] \in FecBlocks
  BY <1>2
<1>4. blk.base = list[k].base
  BY <1>3 DEF FecBlocks
<1>5. WithPacket(p) = [list EXCEPT ![k] = blk]
  BY DEF WithPacket, list, k, b
<1> HIDE DEF blk
<1>6. NoneAtZero([list EXCEPT ![k] = blk])
  BY <1>2, <1>4, StaysFromZero
<1> QED
  BY <1>5, <1>6

(* A packet that is not old is of the oldest block or a later one, and the     *)
(* list with it is in order.                                                   *)
LEMMA Accepted ==
  ASSUME NEW z \in Bases, z = oldestRtpBaseSequenceNumber, QueueInv, Surrounded(z),
         NEW p, Arrived(z, p), ~MustSynchronize, ~IsOld(p)
  PROVE  LET n == nextRtpSequenceNumber
             r == WithPacket(p) IN
         /\ newest' \in Bases /\ Pos(z, newest') \in Nat /\ Pos(z, newest') + DataShards < Half
         /\ Listed(z, blocks, z, n, newest') /\ Numbered(z, blocks, z, n, newest')
         /\ Preceded(played, z, n) /\ Pos(z, z) <= Pos(z, p.base)
         /\ Listed(z, r, z, n, newest') /\ Numbered(z, r, z, n, newest') /\ r # <<>>
         /\ Place(p.base) \in 1 .. Len(r) /\ r[Place(p.base)].base = p.base
         /\ p.base = z => Place(p.base) = 1
         /\ Jumped => Begun(r, z)
         /\ synchronizing => NoneAtZero(r)
<1> DEFINE n == nextRtpSequenceNumber
<1>1. newest' \in Bases /\ Pos(z, newest') \in Nat /\ Pos(z, newest') + DataShards < Half /\ Pos(z, newest') < Half
  BY InUse DEF Surrounded
<1>2. /\ Listed(z, blocks, z, n, newest') /\ Numbered(z, blocks, z, n, newest')
      /\ Preceded(played, z, n)
      /\ Jumped => Begun(blocks, z)
      /\ synchronizing => NoneAtZero(blocks)
  BY <1>1, OrderedFor DEF Surrounded
<1>3. Pos(z, z) <= Pos(z, p.base)
  <2>1. z \in Int /\ Pos(z, z) \in Nat /\ p.base \in Int /\ Pos(z, p.base) \in Nat /\ Half \in Nat
    BY BaseNumber, Position, Numbers DEF Arrived
  <2>2. Pos(z, z) < Half
    BY Origin, Numbers
  <2>3. Pos(z, p.base) < Half
    BY <1>1, <2>1 DEF Arrived
  <2>4. ~isBefore16(p.base, z)
    BY DEF IsOld
  <2> QED
    BY <2>1, <2>2, <2>3, <2>4, Before
<1>4. p \in Packets /\ Pos(z, p.base) <= Pos(z, newest')
  BY DEF Arrived
<1>5. synchronizing => NoneAtZero(WithPacket(p))
  BY <1>2, <1>4, TypesGive, AcceptedFromZero DEF Arrived
<1> DEFINE l == newest'  r == WithPacket(p)
<1>6. /\ Listed(z, r, z, n, l) /\ Numbered(z, r, z, n, l) /\ r # <<>>
      /\ Place(p.base) \in 1 .. Len(r) /\ r[Place(p.base)].base = p.base
      /\ p.base = z => Place(p.base) = 1
      /\ Begun(blocks, z) => Begun(r, z)
  <2>1. /\ l \in Bases /\ Pos(z, l) < Half /\ Listed(z, blocks, z, n, l) /\ Numbered(z, blocks, z, n, l)
        /\ Pos(z, p.base) <= Pos(z, l)
    BY <1>1, <1>2, <1>4
  <2> HIDE DEF l
  <2> QED
    BY <1>3, <1>4, <2>1, PacketListed
<1> QED
  BY <1>1, <1>2, <1>3, <1>5, <1>6

(* The packet that is next is of the oldest block, at the head of the list. *)
LEMMA HandleNowStep ==
  ASSUME NEW z \in Bases, z = oldestRtpBaseSequenceNumber, QueueInv, Surrounded(z),
         NEW p, Arrived(z, p), HandleNow(p)
  PROVE  QueueInv' /\ PlaysInOrder /\ SkipsTheUnseen
<1> DEFINE n == nextRtpSequenceNumber
           bs == WithPacket(p)
           r == [bs EXCEPT ![1].nextDataPacketIndex = @ + 1]
           next == U16(n + 1)
           over == U16(z + DataShards)
<1>1. ~MustSynchronize /\ ~IsOld(p) /\ IsData(p) /\ p.base + p.shard = n /\ p.shard \in Data /\ p.base \in Bases
  BY DEF HandleNow, Accepts, IsNext, Seq16, IsData, Arrived
<1>2. /\ newest' \in Bases /\ Pos(z, newest') \in Nat /\ Pos(z, newest') + DataShards < Half
      /\ Listed(z, blocks, z, n, newest') /\ Numbered(z, blocks, z, n, newest') /\ Preceded(played, z, n)
      /\ Pos(z, z) <= Pos(z, p.base)
      /\ Listed(z, bs, z, n, newest') /\ Numbered(z, bs, z, n, newest') /\ bs # <<>>
      /\ Place(p.base) \in 1 .. Len(bs) /\ bs[Place(p.base)].base = p.base
      /\ p.base = z => Place(p.base) = 1
      /\ synchronizing => NoneAtZero(bs)
  BY <1>1, Accepted
<1>3. p.base = z
  <2>1. Pos(z, n) = Pos(z, p.base) + p.shard /\ p.shard \in Nat
    BY <1>1, InBlock
  <2>2. Pos(z, n) < Pos(z, z) + DataShards /\ z \in Bases
    BY <1>2 DEF Numbered
  <2>3. Pos(z, z) \in Nat /\ Pos(z, p.base) \in Nat /\ DataShards \in Nat
    BY <1>1, <2>2, BasePosition, Position, Numbers
  <2>4. ~(Pos(z, z) < Pos(z, p.base))
    <3>1. SUFFICES ASSUME Pos(z, z) < Pos(z, p.base) PROVE FALSE
      OBVIOUS
    <3>2. Pos(z, z) + DataShards <= Pos(z, p.base)
      BY <1>1, <2>2, <3>1, Apart
    <3> QED
      BY <2>1, <2>2, <2>3, <3>2
  <2> QED
    BY <1>1, <1>2, <2>2, <2>3, <2>4, Apart
<1>4. bs[1].base = z
  BY <1>2, <1>3
<1>5. /\ nextRtpSequenceNumber' = next /\ played' = n
      /\ incompatibleServer' = incompatibleServer /\ pc' = pc
      /\ IF next = over THEN FreeFecBlockHead(r)
         ELSE blocks' = r /\ UNCHANGED <<oldestRtpBaseSequenceNumber, synchronizing>>
  <2>1. Place(p.base) = 1
    BY <1>2, <1>3
  <2> HIDE DEF bs
  <2> QED
    BY <1>1, <1>3, <2>1 DEF HandleNow, Seq16, bs
<1>6. /\ PlaysInOrder /\ SkipsTheUnseen /\ played' \in SeqNumbers /\ ~Jumped'
      /\ \A b : Preceded(played', b, nextRtpSequenceNumber')
  <2>1. nextRtpSequenceNumber' = U16(n + 1)
    BY <1>5
  <2>2. played' = n /\ Preceded(played, z, n)
    BY <1>2, <1>5
  <2> HIDE DEF bs, r, next, over
  <2> QED
    BY <2>1, <2>2, TypesGive, NextPlayed
<1>7. /\ bs[1].nextDataPacketIndex + 1 = DataShards <=> next = over
      /\ next \in SeqNumbers /\ Pos(z, next) = Pos(z, n) + 1
      /\ bs[1].nextDataPacketIndex + 1 = DataShards =>
           Listed(z, Tail(r), over, next, newest') /\ Numbered(z, Tail(r), over, next, newest')
      /\ bs[1].nextDataPacketIndex + 1 # DataShards =>
           Listed(z, r, z, next, newest') /\ Numbered(z, r, z, next, newest')
      /\ Head(r).base = z
  <2> HIDE DEF bs
  <2>1. Numbered(z, bs, z, n, newest') /\ Listed(z, bs, z, n, newest') /\ bs # <<>> /\ bs[1].base = z
    BY <1>2, <1>4
  <2> DEFINE l == newest'
  <2>2. l \in Bases /\ Pos(z, l) + DataShards < Half
    BY <1>2
  <2> HIDE DEF l
  <2>3. Numbered(z, bs, z, n, l) /\ Listed(z, bs, z, n, l)
    BY <2>1 DEF l
  <2>4. HeadGoesOn(z, bs, z, n, l)
    BY <2>1, <2>2, <2>3, HeadPlayed
  <2>5. OneMore(bs) = r
    BY DEF OneMore
  <2> HIDE DEF r
  <2> QED
    BY <2>4, <2>5 DEF HeadGoesOn, l
<1>8. synchronizing => NoneAtZero(r)
  <2> DEFINE blk == [bs[1] EXCEPT !.nextDataPacketIndex = @ + 1]
  <2>1. bs \in Seq(FecBlocks) /\ 1 \in 1 .. Len(bs) /\ bs[1] \in FecBlocks
    <3> HIDE DEF bs
    <3>1. bs \in Seq(FecBlocks)
      BY <1>2 DEF Listed
    <3>2. 1 \in 1 .. Len(bs)
      BY <1>2, <3>1, WithoutHead
    <3> QED
      BY <3>1, <3>2
  <2> HIDE DEF bs
  <2>2. blk.base = bs[1].base
    BY <2>1 DEF FecBlocks
  <2>3. r = [bs EXCEPT ![1] = blk]
    OBVIOUS
  <2> HIDE DEF blk, r
  <2> QED
    BY <1>2, <2>1, <2>2, <2>3, StaysFromZero
<1> HIDE DEF bs, r, next, over
<1>9. pc' \in {"receive", "drain"} /\ incompatibleServer' \in BOOLEAN
  BY <1>5 DEF QueueInv, TypeOK
<1>10. Offset <= Pos(z, over)
  <2>1. Pos(z, z) \in Nat /\ Pos(z, z) = Offset /\ DataShards \in Nat
    BY Origin, Numbers
  <2>2. Pos(z, z) + DataShards < SeqModulus
    BY <2>1, Numbers
  <2>3. Pos(z, over) = Pos(z, z) + DataShards
    BY <2>2, BaseAfter DEF over
  <2> QED
    BY <2>1, <2>3
<1>11. CASE next = over
  <2>1. blocks' = Tail(r) /\ oldestRtpBaseSequenceNumber' = over /\ synchronizing' = FALSE
    BY <1>5, <1>7, <1>11 DEF FreeFecBlockHead, over
  <2>2. ~MustSynchronize' /\ synchronizing' \in {synchronizing, FALSE}
    BY <2>1 DEF MustSynchronize
  <2>3. Offset <= Pos(z, oldestRtpBaseSequenceNumber')
    BY <1>10, <2>1
  <2> QED
    BY <1>5, <1>6, <1>7, <1>9, <1>11, <2>1, <2>2, <2>3, KeepsInv
<1>12. CASE next # over
  <2>1. blocks' = r /\ oldestRtpBaseSequenceNumber' = z /\ synchronizing' = synchronizing
    BY <1>5, <1>12
  <2>2. ~MustSynchronize' /\ synchronizing' \in {synchronizing, FALSE}
    BY <1>1, <2>1 DEF MustSynchronize
  <2>3. Offset <= Pos(z, oldestRtpBaseSequenceNumber')
    BY <2>1, Origin, Numbers
  <2> QED
    BY <1>5, <1>6, <1>7, <1>8, <1>9, <1>12, <2>1, <2>2, <2>3, KeepsInv
<1> QED
  BY <1>11, <1>12

(* Whether the recovery of the block succeeds does not matter to the order. *)
LEMMA CompletedListed ==
  ASSUME NEW z \in Bases, NEW bs, NEW o, NEW n, NEW l,
         Listed(z, bs, o, n, l), Numbered(z, bs, o, n, l), bs # <<>>,
         NEW k \in 1 .. Len(bs)
  PROVE  LET r == [bs EXCEPT ![k] = Completed(@)] IN
         /\ Listed(z, r, o, n, l) /\ Numbered(z, r, o, n, l) /\ r # <<>>
         /\ Begun(bs, o) => Begun(r, o)
<1> DEFINE blk == Completed(bs[k])
           r == [bs EXCEPT ![k] = blk]
<1>1. bs[k] \in FecBlocks /\ PlayedUpTo(z, bs[k], o, n)
  BY ListedBlock
<1>2. Data \subseteq Shards
  BY Numbers, ShardsAssumption DEF Data, Shards
<1>3. blk \in FecBlocks /\ blk.base = bs[k].base /\ PlayedUpTo(z, blk, o, n)
  <2>1. CASE HasEnough(bs[k])
    <3>1. blk = [bs[k] EXCEPT !.got = @ \cup Data, !.fullyReassembled = TRUE]
      BY <2>1 DEF Completed
    <3> HIDE DEF blk
    <3> QED
      BY <1>1, <1>2, <3>1 DEF FecBlocks, PlayedUpTo
  <2>2. CASE ~HasEnough(bs[k])
    BY <1>1, <2>2 DEF Completed
  <2> QED
    BY <2>1, <2>2
<1> HIDE DEF blk
<1>4. /\ Listed(z, r, o, n, l) /\ Len(r) = Len(bs)
      /\ \A j \in 1 .. Len(bs) : r[j] = IF j = k THEN blk ELSE bs[j]
  BY <1>3, Replaced
<1>5. [bs EXCEPT ![k] = Completed(@)] = r
  BY DEF blk
<1> HIDE DEF r
<1>6. r # <<>> /\ r[1].base = bs[1].base
  <2>1. bs \in Seq(FecBlocks) /\ r \in Seq(FecBlocks)
    BY <1>4 DEF Listed
  <2>2. 1 \in 1 .. Len(bs) /\ r # <<>>
    BY <1>4, <2>1, WithoutHead, EmptySeq
  <2> QED
    BY <1>3, <1>4, <2>2
<1>7. Numbered(z, r, o, n, l) /\ (Begun(bs, o) => Begun(r, o))
  BY <1>6 DEF Numbered, Begun
<1> QED
  BY <1>4, <1>5, <1>6, <1>7

(* Entire blocks before the head are skipped: it is the one that is next.      *)
LEMMA Skipped ==
  ASSUME NEW z \in Bases, NEW bs, NEW o, NEW n, NEW l \in Bases, Pos(z, l) + DataShards < Half,
         Listed(z, bs, o, n, l), Numbered(z, bs, o, n, l), bs # <<>>, LostBlocksBefore(bs, n)
  PROVE  LET b == ResynchronizesTo(bs) IN
         /\ b \in Bases /\ b \in SeqNumbers /\ n = o /\ ~Begun(bs, o) /\ Begun(bs, b) /\ Pos(z, o) \in Nat /\ Pos(z, b) \in Nat /\ Pos(z, l) \in Nat
         /\ Pos(z, o) + DataShards <= Pos(z, b) /\ Pos(z, b) <= Pos(z, l)
         /\ Listed(z, bs, b, b, l) /\ Numbered(z, bs, b, b, l)
         /\ \A k \in 1 .. Len(bs) : ~isBefore16(bs[k].base, b)
<1> DEFINE b == ResynchronizesTo(bs)
<1>1. bs \in Seq(FecBlocks) /\ 1 \in 1 .. Len(bs) /\ Head(bs) = bs[1] /\ Len(bs) \in Nat
  <2>1. bs \in Seq(FecBlocks)
    BY DEF Listed
  <2> QED
    BY <2>1, WithoutHead
<1>2. b = bs[1].base
  BY <1>1 DEF ResynchronizesTo
<1> HIDE DEF b
<1>3. /\ o \in Bases /\ n \in SeqNumbers /\ n \in Int /\ b \in Bases /\ b \in Int /\ b \in SeqNumbers
      /\ Pos(z, o) \in Nat /\ Pos(z, n) \in Nat /\ Pos(z, b) \in Nat /\ Pos(z, l) \in Nat /\ Half \in Nat
      /\ DataShards \in Nat /\ DataShards > 1
      /\ Pos(z, o) <= Pos(z, n) /\ Pos(z, n) < Pos(z, o) + DataShards /\ Pos(z, o) <= Pos(z, l) + DataShards
      /\ Pos(z, o) <= Pos(z, b) /\ Pos(z, b) <= Pos(z, l)
  <2>1. /\ o \in Bases /\ n \in SeqNumbers /\ Pos(z, o) <= Pos(z, n) /\ Pos(z, n) < Pos(z, o) + DataShards
        /\ Pos(z, o) <= Pos(z, l) + DataShards
    BY DEF Numbered
  <2>2. b \in Bases /\ Pos(z, o) <= Pos(z, b) /\ Pos(z, b) <= Pos(z, l)
    BY <1>1, <1>2, ListedBlock
  <2>3. n \in Int /\ b \in Int /\ b \in SeqNumbers
    BY <2>1, <2>2, BasePosition, Numbers DEF SeqNumbers
  <2> QED
    BY <2>1, <2>2, <2>3, BasePosition, Position, Numbers
<1>4. Pos(z, n) < Pos(z, b)
  <2>1. isBefore16(n, b)
    BY <1>1, <1>2 DEF LostBlocksBefore
  <2>2. Pos(z, b) < Half
    BY <1>3
  <2>3. CASE Pos(z, n) < Half
    BY <1>3, <2>1, <2>2, <2>3, Before
  <2>4. CASE ~(Pos(z, n) < Half)
    <3>1. Pos(z, o) <= Pos(z, l)
      BY <1>3
    <3> QED
      BY <1>3, <2>4, <3>1
  <2> QED
    BY <2>3, <2>4
<1>5. Pos(z, o) + DataShards <= Pos(z, b)
  <2>1. Pos(z, o) < Pos(z, b)
    BY <1>3, <1>4
  <2> QED
    BY <1>3, <2>1, Apart
<1>6. n = o /\ ~Begun(bs, o) /\ Begun(bs, b)
  <2>1. b # o
    BY <1>3, <1>5
  <2> QED
    BY <1>2, <2>1 DEF Numbered, Begun
<1>7. ASSUME NEW k \in 1 .. Len(bs)
      PROVE  /\ bs[k].base \in Bases /\ Pos(z, bs[k].base) \in Nat
             /\ Pos(z, b) <= Pos(z, bs[k].base) /\ Pos(z, bs[k].base) <= Pos(z, l)
             /\ PlayedUpTo(z, bs[k], b, b) /\ ~isBefore16(bs[k].base, b)
  <2>1. /\ bs[k].base \in Bases /\ Pos(z, bs[k].base) \in Nat /\ Pos(z, bs[k].base) <= Pos(z, l)
        /\ PlayedUpTo(z, bs[k], o, n)
    BY ListedBlock
  <2>2. Pos(z, b) <= Pos(z, bs[k].base)
    <3>1. k = 1 \/ 1 < k
      BY <1>1
    <3>2. 1 < k => Pos(z, bs[1].base) < Pos(z, bs[k].base)
      BY <1>1 DEF Listed
    <3> QED
      BY <1>2, <1>3, <2>1, <3>1, <3>2
  <2>3. bs[k].base # o
    BY <1>3, <1>5, <2>1, <2>2
  <2>4. PlayedUpTo(z, bs[k], b, b)
    <3>1. Pos(z, b) - Pos(z, b) = 0
      BY <1>3
    <3> QED
      BY <2>1, <2>3, <3>1 DEF PlayedUpTo
  <2>5. ~isBefore16(bs[k].base, b)
    <3>1. bs[k].base \in Int /\ Pos(z, bs[k].base) < Half /\ Pos(z, b) < Half
      <4>1. bs[k].base \in Int
        BY <2>1, BasePosition
      <4>2. Pos(z, l) < Half
        BY <1>3
      <4> QED
        BY <1>3, <2>1, <4>1, <4>2
    <3>2. isBefore16(bs[k].base, b) <=> Pos(z, bs[k].base) < Pos(z, b)
      BY <1>3, <3>1, Before
    <3> QED
      BY <1>3, <2>1, <2>2, <3>2
  <2> QED
    BY <2>1, <2>2, <2>4, <2>5
<1>8. Listed(z, bs, b, b, l)
  BY <1>1, <1>7 DEF Listed
<1>9. Numbered(z, bs, b, b, l)
  <2>1. Pos(z, b) <= Pos(z, l) + DataShards /\ Pos(z, b) <= Pos(z, b) /\ Pos(z, b) < Pos(z, b) + DataShards
    BY <1>3
  <2> QED
    BY <1>1, <1>2, <1>3, <2>1, EmptySeq DEF Numbered
<1> QED
  BY <1>3, <1>5, <1>6, <1>7, <1>8, <1>9 DEF b

(* When no block before the head is lost, the head may be given up. *)
LEMMA GivenUpListed ==
  ASSUME NEW z \in Bases, NEW bs, NEW o, NEW n, NEW l \in Bases, Pos(z, l) + DataShards < Half,
         Listed(z, bs, o, n, l), Numbered(z, bs, o, n, l), bs # <<>>, ~LostBlocksBefore(bs, n)
  PROVE  LET r == [bs EXCEPT ![1].allowDiscontinuity = TRUE] IN
         Listed(z, r, o, n, l) /\ Numbered(z, r, o, n, l) /\ Begun(r, o)
<1> DEFINE b == bs[1].base
<1>1. bs \in Seq(FecBlocks) /\ 1 \in 1 .. Len(bs) /\ Head(bs) = bs[1] /\ Len(bs) \in Nat
  <2>1. bs \in Seq(FecBlocks)
    BY DEF Listed
  <2> QED
    BY <2>1, WithoutHead
<1>2. bs[1] \in FecBlocks /\ PlayedUpTo(z, bs[1], o, n) /\ b \in Bases /\ Pos(z, o) <= Pos(z, b) /\ Pos(z, b) <= Pos(z, l)
  BY <1>1, ListedBlock
<1>3. /\ o \in Bases /\ n \in SeqNumbers /\ n \in Int /\ b \in Int
      /\ Pos(z, o) \in Nat /\ Pos(z, n) \in Nat /\ Pos(z, b) \in Nat /\ Pos(z, l) \in Nat /\ Half \in Nat
      /\ DataShards \in Nat /\ Pos(z, n) < Pos(z, o) + DataShards
  <2>1. o \in Bases /\ n \in SeqNumbers /\ Pos(z, n) < Pos(z, o) + DataShards
    BY DEF Numbered
  <2>2. n \in Int /\ b \in Int
    <3>1. n \in Int
      BY <2>1, Numbers DEF SeqNumbers
    <3> HIDE DEF b
    <3>2. b \in Int
      BY <1>2, BaseNumber
    <3> QED
      BY <3>1, <3>2
  <2> QED
    <3>1. Pos(z, n) \in Nat
      BY <2>2, Position
    <3>2. Pos(z, o) \in Nat /\ Pos(z, b) \in Nat /\ Pos(z, l) \in Nat
      BY <1>2, <2>1, BasePosition, Position
    <3> QED
      BY <2>1, <2>2, <3>1, <3>2, Numbers
<1>4. b = o
  <2>1. ~isBefore16(n, b)
    BY <1>1 DEF LostBlocksBefore
  <2> HIDE DEF b
  <2>2. Pos(z, b) < Half /\ Pos(z, n) < Half
    BY <1>2, <1>3
  <2>3. ~(Pos(z, n) < Pos(z, b))
    BY <1>3, <2>1, <2>2, Before
  <2>4. ~(Pos(z, o) < Pos(z, b))
    <3>1. SUFFICES ASSUME Pos(z, o) < Pos(z, b) PROVE FALSE
      OBVIOUS
    <3>2. Pos(z, o) + DataShards <= Pos(z, b)
      BY <1>2, <1>3, <3>1, Apart
    <3> QED
      BY <1>3, <2>3, <3>2
  <2> QED
    BY <1>2, <1>3, <2>4, Apart
<1> DEFINE blk == [bs[1] EXCEPT !.allowDiscontinuity = TRUE]
           r == [bs EXCEPT ![1] = blk]
<1>5. blk \in FecBlocks /\ blk.base = bs[1].base /\ PlayedUpTo(z, blk, o, n)
  BY <1>2, <1>4 DEF FecBlocks, PlayedUpTo
<1>6. [bs EXCEPT ![1].allowDiscontinuity = TRUE] = r
  OBVIOUS
<1> HIDE DEF blk
<1>7. /\ Listed(z, r, o, n, l) /\ Len(r) = Len(bs)
      /\ \A j \in 1 .. Len(bs) : r[j] = IF j = 1 THEN blk ELSE bs[j]
  BY <1>1, <1>5, Replaced
<1> HIDE DEF r
<1>8. r # <<>> /\ r[1].base = bs[1].base
  <2>1. r \in Seq(FecBlocks)
    BY <1>7 DEF Listed
  <2> QED
    BY <1>1, <1>5, <1>7, <2>1, EmptySeq
<1>9. Numbered(z, r, o, n, l) /\ Begun(r, o)
  BY <1>4, <1>8 DEF Numbered, Begun
<1> QED
  BY <1>6, <1>7, <1>9

(* A packet that is kept: what is ready is drained, lost blocks are skipped,   *)
(* or the head is given up or waited for.                                      *)
LEMMA KeepStep ==
  ASSUME NEW z \in Bases, z = oldestRtpBaseSequenceNumber, QueueInv, Surrounded(z),
         NEW p, Arrived(z, p), Keep(p)
  PROVE  QueueInv' /\ PlaysInOrder /\ SkipsTheUnseen
<1> DEFINE n == nextRtpSequenceNumber
           l == newest'
           w == WithPacket(p)
           bs == [w EXCEPT ![Place(p.base)] = Completed(@)]
           b == ResynchronizesTo(bs)
<1>1. ~MustSynchronize /\ ~IsOld(p)
  BY DEF Keep, Accepts
<1>2. /\ l \in Bases /\ Pos(z, l) \in Nat /\ Pos(z, l) + DataShards < Half
      /\ Listed(z, w, z, n, l) /\ Numbered(z, w, z, n, l) /\ w # <<>>
      /\ Place(p.base) \in 1 .. Len(w) /\ Preceded(played, z, n)
      /\ Jumped => Begun(w, z)
  BY <1>1, Accepted
<1>3. /\ synchronizing' = synchronizing /\ incompatibleServer' = incompatibleServer /\ played' = played
      /\ \/ /\ Ready(bs, n) /\ blocks' = bs /\ pc' = "drain" /\ UNCHANGED numbers
         \/ /\ LostBlocksBefore(bs, n) /\ blocks' = bs
            /\ nextRtpSequenceNumber' = b /\ oldestRtpBaseSequenceNumber' = b
            /\ pc' \in {"drain", pc}
         \/ /\ ~LostBlocksBefore(bs, n) /\ UNCHANGED numbers
            /\ blocks' = [bs EXCEPT ![1].allowDiscontinuity = TRUE] /\ pc' = "drain"
         \/ /\ UNCHANGED numbers /\ blocks' = bs /\ pc' = pc
  BY DEF Keep
<1>4. /\ Listed(z, bs, z, n, l) /\ Numbered(z, bs, z, n, l) /\ bs # <<>>
      /\ Jumped => Begun(bs, z)
  <2> HIDE DEF w, l
  <2> QED
    BY <1>2, CompletedListed
<1>5. synchronizing => NoneAtZero(bs)
  <2>1. SUFFICES ASSUME synchronizing PROVE NoneAtZero(bs)
    OBVIOUS
  <2> DEFINE k == Place(p.base)  blk == Completed(w[k])
  <2>2. w \in Seq(FecBlocks) /\ k \in 1 .. Len(w) /\ NoneAtZero(w)
    BY <1>1, <1>2, <2>1, Accepted DEF Listed
  <2> HIDE DEF w, k
  <2>3. w[k] \in FecBlocks
    BY <2>2
  <2>4. blk.base = w[k].base
    BY <2>3 DEF Completed, FecBlocks
  <2>5. bs = [w EXCEPT ![k] = blk]
    BY DEF k
  <2> HIDE DEF blk, bs
  <2> QED
    BY <2>2, <2>4, <2>5, StaysFromZero
<1> HIDE DEF bs, b
<1>6. /\ pc' \in {"receive", "drain"} /\ incompatibleServer' \in BOOLEAN
      /\ synchronizing' \in {synchronizing, FALSE} /\ n \in SeqNumbers
  BY <1>3 DEF QueueInv, TypeOK
<1>7. ASSUME UNCHANGED numbers, Listed(z, blocks', z, n, l), Numbered(z, blocks', z, n, l),
             Jumped => Begun(blocks', z), synchronizing => NoneAtZero(blocks')
      PROVE  QueueInv' /\ PlaysInOrder /\ SkipsTheUnseen
  <2>1. nextRtpSequenceNumber' = n /\ oldestRtpBaseSequenceNumber' = z /\ ~MustSynchronize'
    BY <1>1, <1>3, <1>7 DEF numbers, MustSynchronize
  <2>2. Jumped' => Begun(blocks', oldestRtpBaseSequenceNumber')
    <3>1. Jumped' => Jumped
      BY <1>3, <2>1 DEF Jumped, U16
    <3> QED
      BY <1>7, <2>1, <3>1
  <2>3. Offset <= Pos(z, oldestRtpBaseSequenceNumber')
    BY <2>1, Origin, Numbers
  <2>4. /\ Listed(z, blocks', oldestRtpBaseSequenceNumber', nextRtpSequenceNumber', newest')
        /\ Numbered(z, blocks', oldestRtpBaseSequenceNumber', nextRtpSequenceNumber', newest')
        /\ Preceded(played', oldestRtpBaseSequenceNumber', nextRtpSequenceNumber')
        /\ synchronizing' => NoneAtZero(blocks')
    BY <1>2, <1>3, <1>7, <2>1
  <2>5. QueueInv'
    BY <1>6, <2>1, <2>2, <2>3, <2>4, KeepsInv
  <2> QED
    BY <1>3, <1>6, <1>7, <2>5, Unmoved
<1>8. CASE UNCHANGED numbers /\ blocks' = bs
  BY <1>4, <1>5, <1>7, <1>8
<1>9. CASE /\ ~LostBlocksBefore(bs, n) /\ UNCHANGED numbers
           /\ blocks' = [bs EXCEPT ![1].allowDiscontinuity = TRUE]
  <2>1. Listed(z, blocks', z, n, l) /\ Numbered(z, blocks', z, n, l) /\ Begun(blocks', z)
    <3> HIDE DEF l
    <3> QED
      BY <1>2, <1>4, <1>9, GivenUpListed
  <2>2. synchronizing => NoneAtZero(blocks')
    <3> DEFINE blk == [bs[1] EXCEPT !.allowDiscontinuity = TRUE]
    <3>1. bs \in Seq(FecBlocks)
      BY <1>4 DEF Listed
    <3>2. 1 \in 1 .. Len(bs)
      BY <1>4, <3>1, WithoutHead
    <3>3. blk.base = bs[1].base
      <4>1. bs[1] \in FecBlocks
        BY <3>1, <3>2
      <4> QED
        BY <4>1 DEF FecBlocks
    <3>4. blocks' = [bs EXCEPT ![1] = blk]
      BY <1>9
    <3> HIDE DEF blk
    <3> QED
      BY <1>5, <3>1, <3>2, <3>3, <3>4, StaysFromZero
  <2> QED
    BY <1>7, <1>9, <2>1, <2>2
<1>10. CASE /\ LostBlocksBefore(bs, n) /\ blocks' = bs
            /\ nextRtpSequenceNumber' = b /\ oldestRtpBaseSequenceNumber' = b
  <2>1. /\ b \in Bases /\ b \in SeqNumbers /\ n = z /\ ~Begun(bs, z) /\ Begun(bs, b)
        /\ Pos(z, z) \in Nat /\ Pos(z, b) \in Nat /\ Pos(z, l) \in Nat
        /\ Pos(z, z) + DataShards <= Pos(z, b) /\ Pos(z, b) <= Pos(z, l)
        /\ Listed(z, bs, b, b, l) /\ Numbered(z, bs, b, b, l)
        /\ \A k \in 1 .. Len(bs) : ~isBefore16(bs[k].base, b)
    <3> HIDE DEF l
    <3> QED
      BY <1>2, <1>4, <1>10, Skipped DEF b
  <2>2. DataShards \in Nat /\ DataShards > 1 /\ Offset \in Nat /\ Pos(z, z) = Offset
    BY Numbers, Origin
  <2>3. ~MustSynchronize'
    <3>1. SUFFICES ASSUME synchronizing PROVE b # 0
      BY <1>3, <1>10 DEF MustSynchronize
    <3>2. bs \in Seq(FecBlocks) /\ bs[1].base = b
      BY <1>4, <2>1 DEF Listed, Begun
    <3>3. 1 \in 1 .. Len(bs)
      BY <1>4, <3>2, WithoutHead
    <3> QED
      BY <1>5, <3>1, <3>2, <3>3 DEF NoneAtZero
  <2>4. Preceded(played, b, b)
    <3>1. SUFFICES ASSUME played # Nothing
                   PROVE  /\ played \in SeqNumbers /\ U16(played + 1) % DataShards = 0
                          /\ isBefore16(played, b)
      BY DEF Preceded
    <3>2. played \in SeqNumbers /\ U16(played + 1) = z
      BY <1>2, <1>4, <2>1, <3>1 DEF Preceded, Jumped
    <3>3. Pos(z, played) = Offset - 1
      <4>1. z \in SeqNumbers /\ 1 <= Pos(z, z)
        BY <2>2, BaseNumber, Numbers
      <4>2. Pos(z, played) = Pos(z, z) - 1
        BY <3>2, <4>1, StepBack
      <4> QED
        BY <2>2, <4>2
    <3>4. U16(played + 1) % DataShards = 0
      BY <3>2 DEF Bases
    <3>5. played \in Int /\ b \in Int
      BY <2>1, <3>2, Numbers DEF SeqNumbers
    <3>6. Pos(z, played) < Half /\ Pos(z, b) < Half /\ Pos(z, played) < Pos(z, b)
      <4>1. Half \in Nat
        BY Numbers
      <4> QED
        BY <1>2, <2>1, <2>2, <3>3, <4>1
    <3>7. isBefore16(played, b)
      BY <3>5, <3>6, Before
    <3> QED
      BY <3>2, <3>4, <3>7
  <2>5. QueueInv'
    <3>1. Jumped' => Begun(blocks', oldestRtpBaseSequenceNumber')
      BY <1>10, <2>1
    <3>2. Offset <= Pos(z, oldestRtpBaseSequenceNumber')
      BY <1>10, <2>1, <2>2
    <3>3. /\ Listed(z, blocks', oldestRtpBaseSequenceNumber', nextRtpSequenceNumber', newest')
          /\ Numbered(z, blocks', oldestRtpBaseSequenceNumber', nextRtpSequenceNumber', newest')
          /\ Preceded(played', oldestRtpBaseSequenceNumber', nextRtpSequenceNumber')
          /\ synchronizing' => NoneAtZero(blocks')
      BY <1>3, <1>5, <1>10, <2>1, <2>4
    <3>4. pc' \in {"receive", "drain"}
      BY <1>6
    <3> QED
      BY <1>6, <2>3, <3>1, <3>2, <3>3, <3>4, KeepsInv
  <2>6. b # U16(n + 1)
    <3>1. SUFFICES ASSUME b = U16(n + 1) PROVE FALSE
      OBVIOUS
    <3>2. n \in Int /\ Pos(z, n) + 1 \in SeqNumbers
      <4>1. n \in Int /\ Pos(z, b) < SeqModulus /\ SeqModulus \in Nat
        BY <1>6, <2>1, BasePosition, Position, Numbers DEF SeqNumbers
      <4>2. Pos(z, n) + 1 < SeqModulus /\ Pos(z, n) + 1 >= 0 /\ Pos(z, n) + 1 \in Int
        BY <2>1, <2>2, <4>1
      <4> QED
        BY <4>1, <4>2 DEF SeqNumbers
    <3>3. Pos(z, b) = Pos(z, n) + 1
      BY <3>1, <3>2, Further
    <3>4. Pos(z, n) = Pos(z, z)
      BY <2>1
    <3> QED
      BY <2>1, <2>2, <3>3, <3>4
  <2>7. PlaysInOrder
    BY <1>3, <1>10, <2>6 DEF PlaysInOrder, Plays
  <2>8. SkipsTheUnseen
    <3>1. DOMAIN bs = 1 .. Len(bs)
      BY <1>4 DEF Listed
    <3> QED
      BY <1>10, <2>1, <3>1 DEF SkipsTheUnseen
  <2> QED
    BY <2>5, <2>7, <2>8
<1> QED
  BY <1>3, <1>8, <1>9, <1>10

(* A packet arrives. *)
LEMMA ReceiveStep ==
  ASSUME ~WrapsEarly, QueueInv, NEW p \in Packets, Receive(p)
  PROVE  QueueInv' /\ PlaysInOrder /\ SkipsTheUnseen
<1>1. CASE MustSynchronize
  BY <1>1, SynchronizeStep
<1>2. CASE ~MustSynchronize
  <2>1. PICK z \in Bases : z = oldestRtpBaseSequenceNumber
    BY TypesGive
  <2>2. /\ Arrived(z, p) /\ newest' \in Bases /\ Pos(z, newest) <= Pos(z, newest')
        /\ Pos(z, newest') <= Offset + MaxAhead * DataShards
    BY <1>2, <2>1, Arrives DEF Receive
  <2>3. CASE Misaligned(p)
    <3>1. Surrounded(z)
      BY <2>2, <2>3 DEF Surrounded, Misaligned, oos, QueueInv, TypeOK
    <3>2. UNCHANGED <<blocks, numbers, synchronizing, played>> /\ pc' = pc /\ incompatibleServer' \in BOOLEAN
      BY <2>3 DEF Misaligned
    <3>3. pc' \in {"receive", "drain"}
      BY <3>2 DEF QueueInv, TypeOK
    <3> QED
      BY <1>2, <2>1, <3>1, <3>2, <3>3, StaysAsItIs
  <2>4. CASE AddPacket(p)
    <3>1. Surrounded(z)
      <4>1. lastOosSequenceNumber' \in SeqNumbers /\ receivedOosData' \in BOOLEAN
        BY <2>4, NotedTypes DEF AddPacket, QueueInv
      <4> QED
        BY <2>2, <4>1 DEF Surrounded
    <3>2. CASE Reject(p) \/ Mismatch(p)
      <4>1. /\ UNCHANGED <<blocks, numbers, synchronizing, played>> /\ pc' = pc
            /\ incompatibleServer' \in {incompatibleServer, TRUE}
        BY <3>2 DEF Reject, Mismatch
      <4>2. pc' \in {"receive", "drain"} /\ incompatibleServer' \in BOOLEAN
        BY <4>1 DEF QueueInv, TypeOK
      <4> QED
        BY <1>2, <2>1, <3>1, <4>1, <4>2, StaysAsItIs
    <3>3. CASE HandleNow(p)
      BY <2>1, <2>2, <3>1, <3>3, HandleNowStep
    <3>4. CASE Keep(p)
      BY <2>1, <2>2, <3>1, <3>4, KeepStep
    <3>5. ~Synchronize(p)
      BY <1>2 DEF Synchronize
    <3> QED
      BY <2>4, <3>2, <3>3, <3>4, <3>5 DEF AddPacket
  <2> QED
    BY <2>3, <2>4 DEF Receive
<1> QED
  BY <1>1, <1>2

(* The receive thread takes what is ready. *)
LEMMA DrainStep ==
  ASSUME QueueInv, GetQueuedPacket
  PROVE  QueueInv' /\ PlaysInOrder /\ SkipsTheUnseen
<1> DEFINE n == nextRtpSequenceNumber
           i == Head(blocks).nextDataPacketIndex
<1>1. newest' = newest /\ UNCHANGED oos /\ incompatibleServer' = incompatibleServer
  BY DEF GetQueuedPacket
<1>2. incompatibleServer' \in BOOLEAN /\ pc \in {"receive", "drain"}
  BY <1>1 DEF QueueInv, TypeOK
<1>3. PICK z \in Bases : z = oldestRtpBaseSequenceNumber
  BY TypesGive
<1>4. ~MustSynchronize => Surrounded(z)
  <2>1. SUFFICES ASSUME ~MustSynchronize PROVE Surrounded(z)
    OBVIOUS
  <2>2. newest \in Bases /\ Pos(z, newest) <= Offset + MaxAhead * DataShards
    BY <1>3, <2>1, TypesGive DEF QueueInv, Ordered
  <2>3. Pos(z, newest) <= Pos(z, newest')
    <3>1. Pos(z, newest) \in Nat
      BY <2>2, BasePosition, Position
    <3> QED
      BY <1>1, <3>1
  <2>4. lastOosSequenceNumber' \in SeqNumbers /\ receivedOosData' \in BOOLEAN
    BY <1>1 DEF oos, QueueInv, TypeOK
  <2> QED
    BY <1>1, <2>2, <2>3, <2>4 DEF Surrounded
<1>5. CASE ~Ready(blocks, n)
  <2>1. UNCHANGED <<blocks, numbers, synchronizing, played>> /\ pc' = "receive"
    BY <1>5 DEF GetQueuedPacket
  <2>2. CASE ~MustSynchronize
    BY <1>2, <1>3, <1>4, <2>1, <2>2, StaysAsItIs
  <2>3. CASE MustSynchronize
    <3>1. PlaysInOrder /\ SkipsTheUnseen
      BY <2>1, Unmoved, TypesGive
    <3>2. TypeOK'
      BY <1>1, <2>1 DEF QueueInv, TypeOK, numbers, oos
    <3>3. MustSynchronize'
      BY <2>1, <2>3 DEF MustSynchronize, numbers
    <3> QED
      BY <2>1, <2>3, <3>1, <3>2, <3>3 DEF QueueInv, numbers
  <2> QED
    BY <2>2, <2>3
<1>6. CASE Ready(blocks, n)
  <2> DEFINE r == OneMore(blocks)
             next == U16(n + 1)
             over == U16(z + DataShards)
  <2>1. blocks # <<>> /\ ~MustSynchronize
    BY <1>6 DEF Ready, QueueInv
  <2>2. /\ Listed(z, blocks, z, n, newest) /\ Numbered(z, blocks, z, n, newest) /\ Preceded(played, z, n)
        /\ newest \in Bases /\ blocks \in Seq(FecBlocks)
        /\ Pos(z, newest) + DataShards < Half
        /\ synchronizing => NoneAtZero(blocks)
    BY <1>3, <2>1, TypesGive, InUse DEF QueueInv, Ordered
  <2>3. Head(blocks) = blocks[1] /\ 1 \in 1 .. Len(blocks)
    BY <2>1, <2>2, WithoutHead
  <2>4. blocks[1] \in FecBlocks /\ blocks[1].base \in Bases /\ PlayedUpTo(z, blocks[1], z, n)
    BY <2>2, <2>3, ListedBlock
  <2>5. blocks[1].base = z
    <3>1. CASE blocks[1].allowDiscontinuity
      BY <2>4, <3>1 DEF PlayedUpTo
    <3>2. CASE ~blocks[1].allowDiscontinuity /\ blocks[1].base # z
      <4>1. blocks[1].base + blocks[1].nextDataPacketIndex = n /\ blocks[1].nextDataPacketIndex = 0
        BY <1>6, <2>3, <2>4, <3>2 DEF Ready, PlayedUpTo
      <4>2. blocks[1].base = n
        BY <2>4, <4>1, BasePosition
      <4>3. n # z => blocks[1].base = z
        BY <2>2 DEF Numbered, Begun
      <4> QED
        BY <3>2, <4>2, <4>3
    <3> QED
      BY <3>1, <3>2
  <2>6. HeadGoesOn(z, blocks, z, n, newest)
    BY <2>1, <2>2, <2>5, HeadPlayed
  <2>7. /\ U16(z + i) = n /\ next \in SeqNumbers /\ Pos(z, next) = Pos(z, n) + 1
        /\ i + 1 = DataShards => /\ Listed(z, Tail(r), over, next, newest) /\ Numbered(z, Tail(r), over, next, newest)
                                /\ next = over
        /\ i + 1 # DataShards => Listed(z, r, z, next, newest) /\ Numbered(z, r, z, next, newest)
        /\ Head(r).base = z
    BY <2>3, <2>6 DEF HeadGoesOn
  <2>8. /\ played' = n /\ nextRtpSequenceNumber' = next /\ pc' = pc
        /\ IF i + 1 = DataShards THEN FreeFecBlockHead(r)
           ELSE blocks' = r /\ UNCHANGED <<oldestRtpBaseSequenceNumber, synchronizing>>
    BY <1>6, <2>3, <2>5, <2>7 DEF GetQueuedPacket, OneMore
  <2>9. /\ PlaysInOrder /\ SkipsTheUnseen /\ played' \in SeqNumbers /\ ~Jumped'
        /\ \A b : Preceded(played', b, nextRtpSequenceNumber')
    <3>1. nextRtpSequenceNumber' = U16(n + 1)
      BY <2>8
    <3>2. played' = n /\ Preceded(played, oldestRtpBaseSequenceNumber, n)
      BY <1>3, <2>2, <2>8
    <3> QED
      BY <3>1, <3>2, TypesGive, NextPlayed
  <2>10. synchronizing => NoneAtZero(r)
    <3> DEFINE blk == [blocks[1] EXCEPT !.nextDataPacketIndex = @ + 1]
    <3>1. blk.base = blocks[1].base
      BY <2>4 DEF FecBlocks
    <3>2. r = [blocks EXCEPT ![1] = blk]
      BY DEF OneMore
    <3> HIDE DEF blk, r
    <3> QED
      BY <2>2, <2>3, <3>1, <3>2, StaysFromZero
  <2>11. Offset <= Pos(z, z) /\ Offset <= Pos(z, over)
    <3>1. Pos(z, z) = Offset /\ Offset \in Nat /\ DataShards \in Nat
      BY Origin, Numbers
    <3>2. Pos(z, z) + DataShards < SeqModulus
      BY <3>1, Numbers
    <3>3. Pos(z, over) = Pos(z, z) + DataShards
      BY <3>2, BaseAfter
    <3> QED
      BY <3>1, <3>3
  <2> HIDE DEF r, next, over, i
  <2>12. CASE i + 1 = DataShards
    <3>1. blocks' = Tail(r) /\ oldestRtpBaseSequenceNumber' = over /\ synchronizing' = FALSE
      BY <2>7, <2>8, <2>12 DEF FreeFecBlockHead, over
    <3>2. ~MustSynchronize' /\ synchronizing' \in {synchronizing, FALSE}
      BY <3>1 DEF MustSynchronize
    <3>3. Offset <= Pos(z, oldestRtpBaseSequenceNumber')
      BY <2>11, <3>1
    <3> QED
      BY <1>1, <1>2, <1>4, <2>1, <2>7, <2>8, <2>9, <2>12, <3>1, <3>2, <3>3, KeepsInv
  <2>13. CASE i + 1 # DataShards
    <3>1. blocks' = r /\ oldestRtpBaseSequenceNumber' = z /\ synchronizing' = synchronizing
      BY <1>3, <2>8, <2>13
    <3>2. ~MustSynchronize' /\ synchronizing' \in {synchronizing, FALSE}
      BY <1>3, <2>1, <3>1 DEF MustSynchronize
    <3>3. Offset <= Pos(z, oldestRtpBaseSequenceNumber')
      BY <2>11, <3>1
    <3> QED
      BY <1>1, <1>2, <1>4, <2>1, <2>7, <2>8, <2>9, <2>10, <2>13, <3>1, <3>2, <3>3, KeepsInv
  <2> QED
    BY <2>12, <2>13
<1> QED
  BY <1>5, <1>6

-------------------------------------------------------------------------------
(* At first nothing is known of the stream. *)
LEMMA InitQueueInv ==
  ASSUME Init
  PROVE  QueueInv
<1>1. 0 \in SeqNumbers /\ 0 \in Bases
  <2>1. 0 \in SeqNumbers /\ 0 = 0 * DataShards
    BY Numbers DEF SeqNumbers
  <2> QED
    BY <2>1, WholeBase DEF Whole
<1>2. newest \in Bases
  BY ShardsAssumption DEF Init, Bases, SeqNumbers, SeqModulus
<1>3. TypeOK
  <2>1. blocks \in Seq(FecBlocks)
    BY DEF Init
  <2> QED
    BY <1>1, <1>2, <2>1 DEF Init, TypeOK, FecBlocks
<1> QED
  BY <1>3 DEF Init, QueueInv, MustSynchronize

(* Every step keeps the invariant, plays in order and skips only the unseen. *)
LEMMA NextQueueInv ==
  ASSUME ~WrapsEarly, QueueInv, [Next]_vars
  PROVE  QueueInv' /\ [PlaysInOrder]_vars /\ [SkipsTheUnseen]_vars
<1>1. CASE UNCHANGED vars
  <2>1. UNCHANGED <<blocks, numbers, oos, synchronizing, incompatibleServer, pc, newest, played>>
    BY <1>1 DEF vars
  <2>2. QueueInv'
    BY <2>1 DEF QueueInv, TypeOK, Ordered, Listed, Numbered, Begun, Preceded, PlayedUpTo,
                MustSynchronize, Jumped, NoneAtZero, isBefore16, numbers, oos, Pos, U16
  <2> QED
    BY <1>1, <2>2
<1>2. CASE GetQueuedPacket
  BY <1>2, DrainStep
<1>3. ASSUME NEW p \in Packets, Receive(p)
      PROVE  QueueInv' /\ PlaysInOrder /\ SkipsTheUnseen
  BY <1>3, ReceiveStep
<1> QED
  BY <1>1, <1>2, <1>3 DEF Next, PassThrough

(* The invariant holds, unless block 0 comes while the queue synchronizes. *)
THEOREM QueueInvariance == ASSUME ~WrapsEarly PROVE Spec => []QueueInv
<1>1. Init => QueueInv
  BY InitQueueInv
<1>2. QueueInv /\ [Next]_vars => QueueInv'
  BY NextQueueInv
<1> QED
  BY <1>1, <1>2, PTL DEF Spec

(* The variables have their types, under the same condition. *)
THEOREM AudioTyped == ASSUME ~WrapsEarly PROVE Spec => []TypeOK
<1>1. QueueInv => TypeOK
  BY DEF QueueInv
<1> QED
  BY <1>1, QueueInvariance, PTL

(* The decoder gets every packet once and in order, and every block that it    *)
(* began to the end, whatever the network reordered, repeated or lost, under   *)
(* the same condition (RtpaAddPacket, RtpaGetQueuedPacket).                    *)
THEOREM PlaysOnceInOrder == ASSUME ~WrapsEarly PROVE Spec => PlayedInOrder
<1>1. QueueInv /\ [Next]_vars => [PlaysInOrder]_vars
  BY NextQueueInv
<1>2. Spec => [][PlaysInOrder]_vars
  BY <1>1, QueueInvariance, PTL DEF Spec
<1> QED
  BY <1>2 DEF PlayedInOrder, PlaysInOrder

(* Only blocks are skipped of which nothing is in the queue                    *)
(* (handleMissingPackets), under the same condition.                           *)
THEOREM SkipsNothingSeen == ASSUME ~WrapsEarly PROVE Spec => SkipsOnlyTheUnseen
<1>1. QueueInv /\ [Next]_vars => [SkipsTheUnseen]_vars
  BY NextQueueInv
<1>2. Spec => [][SkipsTheUnseen]_vars
  BY <1>1, QueueInvariance, PTL DEF Spec
<1> QED
  BY <1>2 DEF SkipsOnlyTheUnseen, SkipsTheUnseen

(* What validateFecBlockState asserts of the list and the numbers. *)
LEMMA InvGivesConsistency ==
  ASSUME QueueInv
  PROVE  QueueIsConsistent
<1> DEFINE o == oldestRtpBaseSequenceNumber  n == nextRtpSequenceNumber
<1>0. PICK z \in Bases : z = o
  BY TypesGive
<1>1. /\ blocks \in Seq(FecBlocks) /\ n \in SeqNumbers /\ o \in Bases /\ newest \in Bases
      /\ DataShards \in Nat /\ DataShards > 0
  BY TypesGive, Numbers
<1>2. CASE MustSynchronize
  <2>1. blocks = <<>> /\ n = 0 /\ o = 0
    BY <1>2 DEF QueueInv, MustSynchronize
  <2>2. 0 = 0 - (0 % DataShards)
    <3>1. 0 % DataShards = 0
      BY <1>1, <2>1 DEF Bases
    <3> QED
      BY <3>1
  <2> QED
    BY <2>1, <2>2 DEF QueueIsConsistent, NextIsInFirstBlockOrBefore
<1>3. CASE ~MustSynchronize
  <2>1. Listed(z, blocks, o, n, newest) /\ Numbered(z, blocks, o, n, newest)
    BY <1>0, <1>3 DEF QueueInv, Ordered
  <2>2. /\ Pos(z, newest) \in Nat /\ Pos(z, newest) + DataShards < Half /\ Pos(z, newest) + 2 * DataShards <= Half
    BY <1>0, <1>1, <1>3, InUse DEF QueueInv, Ordered
  <2>3. /\ n \in Int /\ o \in Int /\ Pos(z, n) \in Nat /\ Pos(z, o) \in Nat /\ Half \in Nat
        /\ Pos(z, o) <= Pos(z, n) /\ Pos(z, n) < Pos(z, o) + DataShards /\ Pos(z, o) <= Pos(z, newest) + DataShards
        /\ Pos(z, n) < Half /\ Pos(z, o) < Half /\ SeqModulus \in Nat /\ 2 * Half <= SeqModulus
    <3>1. n \in Int /\ o \in Int
      BY <1>1, BasePosition, Numbers DEF SeqNumbers
    <3>2. Pos(z, n) \in Nat /\ Pos(z, o) \in Nat /\ Half \in Nat /\ SeqModulus \in Nat /\ 2 * Half <= SeqModulus
      BY <3>1, Position, Numbers
    <3>3. Pos(z, o) <= Pos(z, n) /\ Pos(z, n) < Pos(z, o) + DataShards /\ Pos(z, o) <= Pos(z, newest) + DataShards
      BY <2>1 DEF Numbered
    <3> QED
      BY <1>1, <2>2, <3>1, <3>2, <3>3
  <2>4. o = n - (n % DataShards) /\ n % DataShards = Pos(z, n) - Pos(z, o)
    <3> DEFINE i == Pos(z, n) - Pos(z, o)
    <3>1. i \in Data /\ i \in Int
      BY <1>1, <2>3 DEF Data
    <3> HIDE DEF i
    <3>2. o + i \in SeqNumbers /\ Pos(z, o + i) = Pos(z, o) + i /\ (o + i) % DataShards = i
      BY <1>1, <3>1, InBlock
    <3>3. Pos(z, o + i) = Pos(z, n)
      BY <2>3, <3>2 DEF i
    <3>4. n = o + i
      BY <1>1, <3>2, <3>3, OneAtPosition
    <3> QED
      BY <2>3, <3>1, <3>2, <3>4 DEF i
  <2>5. ASSUME NEW k \in 1 .. Len(blocks)
        PROVE  /\ blocks[k].base \in Bases /\ blocks[k].base \in Int /\ Pos(z, blocks[k].base) \in Nat
               /\ Pos(z, o) <= Pos(z, blocks[k].base) /\ Pos(z, blocks[k].base) <= Pos(z, newest)
               /\ Pos(z, blocks[k].base) < Half /\ PlayedUpTo(z, blocks[k], o, n)
    <3>1. /\ blocks[k].base \in Bases /\ Pos(z, blocks[k].base) \in Nat
          /\ Pos(z, o) <= Pos(z, blocks[k].base) /\ Pos(z, blocks[k].base) <= Pos(z, newest)
          /\ PlayedUpTo(z, blocks[k], o, n)
      BY <2>1, ListedBlock
    <3>2. Pos(z, blocks[k].base) < Half
      BY <1>1, <2>2, <2>3, <3>1
    <3>3. blocks[k].base \in Int
      BY <3>1, BasePosition
    <3> QED
      BY <3>1, <3>2, <3>3
  <2>6. \A k \in DOMAIN blocks : ~isBefore16(blocks[k].base, o)
    <3>1. ASSUME NEW k \in 1 .. Len(blocks) PROVE ~isBefore16(blocks[k].base, o)
      BY <2>3, <2>5, Before
    <3> QED
      BY <1>1, <3>1
  <2>7. \A k \in DOMAIN blocks : k > 1 => isBefore16(blocks[k - 1].base, blocks[k].base)
    <3>1. ASSUME NEW k \in 1 .. Len(blocks), k > 1
          PROVE  isBefore16(blocks[k - 1].base, blocks[k].base)
      <4>1. k - 1 \in 1 .. Len(blocks) /\ k - 1 < k
        BY <1>1, <3>1
      <4>2. Pos(z, blocks[k - 1].base) < Pos(z, blocks[k].base)
        BY <2>1, <4>1 DEF Listed
      <4> QED
        BY <2>5, <4>1, <4>2, Before
    <3> QED
      BY <1>1, <3>1
  <2>8. \A k \in DOMAIN blocks :
          blocks[k].nextDataPacketIndex = IF o = blocks[k].base THEN n % DataShards ELSE 0
    <3>1. ASSUME NEW k \in 1 .. Len(blocks)
          PROVE  blocks[k].nextDataPacketIndex = IF o = blocks[k].base THEN n % DataShards ELSE 0
      BY <2>4, <2>5 DEF PlayedUpTo
    <3> QED
      BY <1>1, <3>1
  <2>9. NextIsInFirstBlockOrBefore
    <3>1. SUFFICES ASSUME blocks # <<>>
                   PROVE  isBefore16(n, U16(Head(blocks).base + DataShards))
      BY DEF NextIsInFirstBlockOrBefore
    <3> DEFINE b == blocks[1].base  c == U16(b + DataShards)
    <3>2. Head(blocks) = blocks[1] /\ 1 \in 1 .. Len(blocks)
      BY <1>1, <3>1, WithoutHead
    <3>3. b \in Bases /\ Pos(z, b) \in Nat /\ Pos(z, o) <= Pos(z, b) /\ Pos(z, b) <= Pos(z, newest)
      BY <2>5, <3>2
    <3>4. c \in Bases /\ Pos(z, c) = Pos(z, b) + DataShards
      <4>1. Pos(z, b) + DataShards < SeqModulus
        BY <1>1, <2>2, <2>3, <3>3
      <4> QED
        BY <3>3, <4>1, BaseAfter
    <3> HIDE DEF b, c
    <3>5. c \in Int /\ Pos(z, c) < Half /\ Pos(z, n) < Pos(z, c)
      BY <1>1, <2>2, <2>3, <3>3, <3>4, BasePosition
    <3>6. isBefore16(n, c)
      BY <2>3, <3>5, Before
    <3> QED
      BY <3>2, <3>6 DEF b, c
  <2> QED
    BY <2>4, <2>6, <2>7, <2>8, <2>9 DEF QueueIsConsistent
<1> QED
  BY <1>2, <1>3

(* The list and the numbers agree in every state, under the same condition. *)
THEOREM QueueConsistent == ASSUME ~WrapsEarly PROVE Spec => []QueueIsConsistent
<1>1. QueueInv => QueueIsConsistent
  BY InvGivesConsistency
<1> QED
  BY <1>1, QueueInvariance, PTL

===============================================================================
