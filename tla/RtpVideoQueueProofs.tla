-------------------------- MODULE RtpVideoQueueProofs --------------------------
(***************************************************************************)
(* Proofs about RtpVideoQueue, for any stream whose packets have at most   *)
(* four blocks per frame, any delays, repetitions and outages, and         *)
(* recoveries that may fail.  Each operation on the queue is shown to keep *)
(* the record a queue (Shape) and to tell which frame and which block it   *)
(* is at afterwards; so a packet leaves the queue in one of four ways      *)
(* (Leaves), which are the outcomes of FrameDelivery.  What was submitted  *)
(* and reported before is related to the current frame by Past, which      *)
(* gives the order of the calls.  The count of missing packets is exact    *)
(* because a packet of the block is always at the same distance from its   *)
(* first one (Exact).                                                      *)
(***************************************************************************)
EXTENDS RtpVideoQueue, FiniteSetTheorems, SequenceTheorems, TLAPS

(* The parts of the queue. *)
Fields == {"currentFrameNumber", "multiFecCurrentBlockNumber", "multiFecLastBlockNumber",
           "pending", "completed", "lowest", "nextContiguous", "receivedHighest",
           "dataPackets", "parityPackets", "receivedData", "receivedParity",
           "missingPackets", "useFastQueuePath", "reportedLostFrame", "receivedOosData",
           "lastOosFrame"}

(* A sequence, of whatever. *)
IsSeq(s) == s \in Seq({ s[k] : k \in 1 .. Len(s) })

(* A queue: its parts, and the values of those that say where it is. *)
Shape(q) ==
  /\ q = [f \in Fields |-> q[f]]
  /\ q.currentFrameNumber \in Nat \ {0}
  /\ q.multiFecCurrentBlockNumber \in 0 .. 3 /\ q.multiFecLastBlockNumber \in 0 .. 3
  /\ IsSeq(q.pending) /\ q.dataPackets \in Nat /\ q.reportedLostFrame \in BOOLEAN

(* r is at the same frame and block as q. *)
Same(q, r) ==
  /\ r.currentFrameNumber = q.currentFrameNumber
  /\ r.multiFecCurrentBlockNumber = q.multiFecCurrentBlockNumber
  /\ r.multiFecLastBlockNumber = q.multiFecLastBlockNumber
  /\ r.dataPackets = q.dataPackets
  /\ r.reportedLostFrame = q.reportedLostFrame

(* Sequences are sequences, ... *)
LEMMA SeqIsSeq ==
  ASSUME NEW S, NEW s \in Seq(S)
  PROVE  IsSeq(s) /\ Len(s) \in Nat
BY DEF IsSeq

(* ... also when something is appended ... *)
LEMMA AppendIsSeq ==
  ASSUME NEW s, IsSeq(s), NEW e
  PROVE  IsSeq(Append(s, e)) /\ Append(s, e) # <<>>
<1> DEFINE S == { s[k] : k \in 1 .. Len(s) } \cup {e}
<1>1. s \in Seq(S) /\ e \in S
  BY DEF IsSeq
<1>2. Append(s, e) \in Seq(S) /\ Append(s, e) # <<>>
  BY <1>1, AppendProperties
<1> QED
  BY <1>2, SeqIsSeq

(* ... or another one follows. *)
LEMMA ConcatIsSeq ==
  ASSUME NEW s, IsSeq(s), NEW t, IsSeq(t)
  PROVE  IsSeq(s \o t) /\ (s # <<>> => s \o t # <<>>)
<1> DEFINE S == { s[k] : k \in 1 .. Len(s) } \cup { t[k] : k \in 1 .. Len(t) }
<1>1. s \in Seq(S) /\ t \in Seq(S)
  BY DEF IsSeq
<1>2. s \o t \in Seq(S) /\ Len(s \o t) = Len(s) + Len(t)
  BY <1>1, ConcatProperties
<1>3. s # <<>> => s \o t # <<>>
  <2>1. Len(s) \in Nat /\ Len(t) \in Nat /\ (s # <<>> => Len(s) # 0)
    BY <1>1, EmptySeq, LenProperties
  <2> QED
    BY <1>2, <2>1
<1> QED
  BY <1>2, <1>3, SeqIsSeq

(* Queueing an entry leaves something pending. *)
LEMMA LinkedShape ==
  ASSUME NEW q, Shape(q), NEW e
  PROVE  /\ Shape(Linked(q, e)) /\ Same(q, Linked(q, e))
         /\ Linked(q, e).pending # <<>>
<1>1. IsSeq(Append(q.pending, e)) /\ Append(q.pending, e) # <<>>
  BY AppendIsSeq DEF Shape
<1> QED
  BY <1>1 DEF Shape, Same, Linked, Fields

(* Whether data is out of sequence does not matter to where the queue is. *)
LEMMA SequencedShape ==
  ASSUME NEW q, Shape(q), NEW e, NEW cooled
  PROVE  Shape(Sequenced(q, e, cooled)) /\ Same(q, Sequenced(q, e, cooled))
BY DEF Shape, Same, Sequenced, Fields

(* Nor do the counts. *)
LEMMA CountedShape ==
  ASSUME NEW q, Shape(q), NEW s
  PROVE  /\ Shape(Counted(q, s)) /\ Same(q, Counted(q, s))
         /\ Counted(q, s).pending = q.pending
BY DEF Shape, Same, Counted, Fields

(* Nor does the admission that a prediction was wrong. *)
LEMMA AdmittedShape ==
  ASSUME NEW q, Shape(q)
  PROVE  /\ Shape(Admitted(q)) /\ Same(q, Admitted(q))
         /\ Admitted(q).pending = q.pending
BY DEF Shape, Same, Admitted, Fields

(* Recovered packets join those that are pending, of which there are finitely many. *)
LEMMA RecoveredShape ==
  ASSUME NEW q, Shape(q), NEW upTo
  PROVE  /\ Shape(WithRecovered(q, upTo)) /\ Same(q, WithRecovered(q, upTo))
         /\ q.pending # <<>> => WithRecovered(q, upTo).pending # <<>>
<1> DEFINE more == { i \in Lacking(q) : i < upTo }
           inOrder == SetToSortSeq(more, <)
           t == [k \in 1 .. Cardinality(more) |-> Recovered(q, inOrder[k])]
<1>1. Cardinality(more) \in Nat
  <2>1. more \subseteq 0 .. q.dataPackets - 1
    BY DEF Lacking
  <2>2. q.dataPackets - 1 \in Int
    BY DEF Shape
  <2>3. IsFiniteSet(0 .. q.dataPackets - 1)
    BY <2>2, FS_Interval
  <2> QED
    BY <2>1, <2>3, FS_Subset, FS_CardinalityType
<1>2. IsSeq(q.pending \o t) /\ (q.pending # <<>> => q.pending \o t # <<>>)
  <2> HIDE DEF more, inOrder
  <2>1. t \in Seq({ t[k] : k \in 1 .. Cardinality(more) }) /\ Len(t) = Cardinality(more)
    BY <1>1
  <2>2. IsSeq(t)
    BY <2>1, SeqIsSeq
  <2> HIDE DEF t
  <2> QED
    BY <2>2, ConcatIsSeq DEF Shape
<1> QED
  <2>1. WithRecovered(q, upTo)
          = [q EXCEPT !.pending = @ \o t, !.useFastQueuePath = @ /\ more = {}]
    BY DEF WithRecovered
  <2> HIDE DEF t, more
  <2> QED
    BY <1>2, <2>1 DEF Shape, Same, Fields

(* A staged block is pending no more. *)
LEMMA StagedShape ==
  ASSUME NEW q, Shape(q)
  PROVE  /\ Shape(Staged(q)) /\ Same(q, Staged(q))
         /\ Staged(q).pending = <<>>
<1>1. IsSeq(<<>>)
  BY DEF IsSeq
<1> QED
  BY <1>1 DEF Shape, Same, Staged, Fields

(* The first packet of a block takes the queue to its frame and block. *)
LEMMA RestartedShape ==
  ASSUME NEW q, Shape(q), NEW i \in Packets
  PROVE  LET r == Restarted(q, i) IN
         /\ Shape(r)
         /\ r.currentFrameNumber = Stream[i].frame
         /\ r.multiFecCurrentBlockNumber = Stream[i].block
         /\ r.reportedLostFrame = FALSE
<1>1. IsSeq(<<>>)
  BY DEF IsSeq
<1>2. Stream[i] \in [frame: Nat \ {0}, block: 0 .. 3, lastBlock: 0 .. 3,
                     index: Nat, data: Nat \ {0}, parity: Nat]
  BY StreamAssumption
<1>3. /\ Purged(q, Stream[i]) = [f \in Fields |-> Purged(q, Stream[i])[f]]
      /\ Purged(q, Stream[i]).pending = <<>>
  BY DEF Shape, Purged, Fields
<1> QED
  BY <1>1, <1>2, <1>3 DEF Shape, Restarted, Fields

(* A frame given up leaves nothing pending and is reported. *)
LEMMA GivenUpShape ==
  ASSUME NEW q, Shape(q), NEW n \in Nat
  PROVE  LET r == GivenUp(q, n) IN
         /\ Shape(r) /\ r.pending = <<>>
         /\ r.currentFrameNumber = n + 1 /\ r.multiFecCurrentBlockNumber = 0
         /\ r.reportedLostFrame = TRUE
<1>1. IsSeq(<<>>)
  BY DEF IsSeq
<1>2. n + 1 \in Nat \ {0}
  OBVIOUS
<1>3. GivenUp(q, n) = [f \in Fields |-> GivenUp(q, n)[f]]
  BY DEF Shape, GivenUp, Fields
<1>4. /\ GivenUp(q, n).pending = <<>>
      /\ GivenUp(q, n).currentFrameNumber = n + 1 
      /\ GivenUp(q, n).multiFecCurrentBlockNumber = 0
      /\ GivenUp(q, n).reportedLostFrame = TRUE
  BY DEF Shape, GivenUp, Fields
<1>5. GivenUp(q, n).reportedLostFrame \in BOOLEAN
  BY DEF Shape, GivenUp, Fields
<1>6. /\ GivenUp(q, n).multiFecLastBlockNumber \in 0 .. 3
      /\ GivenUp(q, n).dataPackets \in Nat
  BY DEF Shape, GivenUp, Fields
<1> QED
  BY <1>1, <1>2, <1>3, <1>4, <1>5, <1>6 DEF Shape

(* The queue with a packet in it is where it was made ready for the packet. *)
LEMMA PacketQueued ==
  ASSUME Shape(queue), NEW i \in Packets, NEW cooled
  PROVE  LET r == Ready(queue, i)  w == WithPacket(queue, i, cooled) IN
         Shape(r) /\ Shape(w) /\ Same(r, w) /\ w.pending # <<>>
<1> DEFINE r == Ready(queue, i)
           s == Sequenced(r, Entry(i), cooled)
           l == Linked(s, Entry(i))
           w == Counted(l, SeqNumber(i))
<1>1. Shape(r)
  BY RestartedShape DEF Ready
<1>2. Shape(s) /\ Same(r, s)
  BY <1>1, SequencedShape
<1>3. Shape(l) /\ Same(s, l) /\ l.pending # <<>>
  BY <1>2, LinkedShape
<1>4. Shape(w) /\ Same(l, w) /\ w.pending = l.pending
  BY <1>3, CountedShape
<1>5. WithPacket(queue, i, cooled) = w
  BY DEF WithPacket
<1> QED
  BY <1>1, <1>2, <1>3, <1>4, <1>5 DEF Same

(* The calls in terms of frames, when one more is made. *)
LEMMA CallsAppend ==
  ASSUME NEW s, IsSeq(s), NEW c
  PROVE  /\ CallsOf(Append(s, c)) = Append(CallsOf(s), <<c[1], c[2]>>)
         /\ s \o <<c>> = Append(s, c) /\ s \o <<>> = s
<1> DEFINE S == { s[k] : k \in 1 .. Len(s) } \cup {c}
           T == { <<x[1], x[2]>> : x \in S }
           a == CallsOf(s)
           b == CallsOf(Append(s, c))
           d == <<c[1], c[2]>>
<1>1. s \in Seq(S) /\ c \in S /\ d \in T /\ Len(s) \in Nat
  BY LenProperties DEF IsSeq
<1>2. /\ Append(s, c) \in Seq(S) /\ Len(Append(s, c)) = Len(s) + 1
      /\ Append(s, c)[Len(s) + 1] = c
      /\ \A k \in 1 .. Len(s) : Append(s, c)[k] = s[k]
  BY <1>1, AppendProperties
<1>3. a \in Seq(T) /\ Len(a) = Len(s) /\ \A k \in 1 .. Len(s) : a[k] = <<s[k][1], s[k][2]>>
  <2>1. DOMAIN s = 1 .. Len(s) /\ \A k \in 1 .. Len(s) : s[k] \in S
    BY <1>1
  <2>2. a = [k \in 1 .. Len(s) |-> <<s[k][1], s[k][2]>>]
    BY <2>1 DEF CallsOf
  <2>3. \A k \in 1 .. Len(s) : <<s[k][1], s[k][2]>> \in T
    BY <2>1
  <2> QED
    BY <1>1, <2>2, <2>3
<1>4. /\ b \in Seq(T) /\ Len(b) = Len(s) + 1
      /\ \A k \in 1 .. Len(s) + 1 : b[k] = <<Append(s, c)[k][1], Append(s, c)[k][2]>>
  <2>1. /\ DOMAIN Append(s, c) = 1 .. Len(s) + 1
        /\ \A k \in 1 .. Len(s) + 1 : Append(s, c)[k] \in S
    BY <1>1, <1>2
  <2>2. b = [k \in 1 .. Len(s) + 1 |-> <<Append(s, c)[k][1], Append(s, c)[k][2]>>]
    BY <2>1 DEF CallsOf
  <2>3. \A k \in 1 .. Len(s) + 1 : <<Append(s, c)[k][1], Append(s, c)[k][2]>> \in T
    BY <2>1
  <2>4. \A k \in 1 .. Len(s) + 1 : b[k] = <<Append(s, c)[k][1], Append(s, c)[k][2]>>
    BY <2>2
  <2>5. b \in [1 .. Len(s) + 1 -> T]
    <3> HIDE DEF T
    <3> QED
      BY <2>2, <2>3
  <2>6. Len(s) + 1 \in Nat
    BY <1>1
  <2>7. b \in Seq(T) /\ Len(b) = Len(s) + 1
    <3> HIDE DEF b, T
    <3> QED
      BY <2>5, <2>6
  <2> QED
    BY <2>4, <2>7
<1>5. /\ Append(a, d) \in Seq(T) /\ Len(Append(a, d)) = Len(s) + 1
      /\ Append(a, d)[Len(s) + 1] = d
      /\ \A k \in 1 .. Len(s) : Append(a, d)[k] = a[k]
  <2> HIDE DEF a, d, T
  <2> QED
    BY <1>1, <1>3, AppendProperties
<1>6. b = Append(a, d)
  <2>1. b[Len(s) + 1] = d
    BY <1>1, <1>2, <1>4
  <2>2. \A k \in 1 .. Len(s) : b[k] = a[k]
    <3>1. \A k \in 1 .. Len(s) : k \in 1 .. Len(s) + 1
      BY <1>1
    <3> HIDE DEF a, b
    <3> QED
      BY <1>2, <1>3, <1>4, <3>1
  <2>3. \A k \in 1 .. Len(s) + 1 : k = Len(s) + 1 \/ k \in 1 .. Len(s)
    BY <1>1
  <2> HIDE DEF a, b, d, T
  <2>4. \A k \in 1 .. Len(b) : b[k] = Append(a, d)[k]
    BY <1>4, <1>5, <2>1, <2>2, <2>3
  <2> QED
    BY <1>1, <1>4, <1>5, <2>4, SeqEqual
<1>7. s \o <<c>> = Append(s, c) /\ s \o <<>> = s
  BY <1>1, AppendIsConcat, ConcatEmptySeq
<1> QED
  BY <1>6, <1>7

(* Whole frames before frame n: at most one report. *)
LEMMA Reports ==
  ASSUME Shape(queue), NEW n
  PROVE  /\ IsSeq(ReportGap(queue, n)) /\ IsSeq(ReportUnlessReported(queue))
         /\ CallsOf(ReportGap(queue, n)) = Abstract!GapReport(n)
         /\ CallsOf(ReportUnlessReported(queue))
              = IF queue.reportedLostFrame THEN <<>> ELSE << <<"lost", queue.currentFrameNumber>> >>
         /\ CallsOf(<<>>) = <<>>
<1>0. IsSeq(<<>>) /\ \A c : IsSeq(<<c>>)
  BY DEF IsSeq
<1>1. CallsOf(<<>>) = <<>>
  BY DEF CallsOf
<1>2. \A c : CallsOf(<<c>>) = << <<c[1], c[2]>> >>
  BY DEF CallsOf
<1>3. ASSUME NEW a, NEW b PROVE CallsOf(<< <<a, b>> >>) = << <<a, b>> >>
  BY <1>2
<1> QED
  BY <1>0, <1>1, <1>3 DEF ReportGap, ReportUnlessReported, Abstract!GapReport

(* How a packet leaves the queue that was made ready for it. *)
Leaves(r, before) ==
  LET n == r.currentFrameNumber
      b == r.multiFecCurrentBlockNumber
      Is(m, c) == /\ queue'.currentFrameNumber = m
                  /\ queue'.multiFecCurrentBlockNumber = c
  IN /\ Shape(queue')
     /\ \/ /\ Makes(before)
           /\ Is(n, b) /\ queue'.pending # <<>>
           /\ queue'.reportedLostFrame = r.reportedLostFrame
        \/ /\ ~r.reportedLostFrame /\ Makes(Append(before, <<"predicted", n>>))
           /\ Is(n, b) /\ queue'.pending # <<>>
           /\ queue'.reportedLostFrame = TRUE
        \/ /\ b < 3 /\ Makes(before)
           /\ Is(n, b + 1) /\ queue'.pending = <<>>
           /\ queue'.reportedLostFrame = r.reportedLostFrame
        \/ /\ \E t : Makes(Append(before, <<"frame", n, t>>))
           /\ Is(n + 1, 0) /\ queue'.pending = <<>>
           /\ queue'.reportedLostFrame = r.reportedLostFrame

(* The packet is accepted: in one of these ways. *)
Accepted(i, cooled) ==
  \/ QueuePacket(i, cooled) \/ FailRecovery(i, cooled)
  \/ CompleteBlock(i, cooled) \/ CompleteFrame(i, cooled)

(* An accepted packet leaves the queue in one of the ways. *)
LEMMA Effects ==
  ASSUME Shape(queue), NEW i \in Packets, NEW cooled \in BOOLEAN, Accepted(i, cooled)
  PROVE  Leaves(Ready(queue, i), ReportBefore(queue, i)) /\ IsSeq(ReportBefore(queue, i))
<1> DEFINE r == Ready(queue, i)
           w == WithPacket(queue, i, cooled)
           before == ReportBefore(queue, i)
           n == r.currentFrameNumber
           s == Staged(WithRecovered(Admitted(w), w.dataPackets))
<1>1. Shape(r) /\ Shape(w) /\ Same(r, w) /\ w.pending # <<>>
  BY PacketQueued
<1>2. IsSeq(before)
  <2>1. IsSeq(<<>>)
    BY DEF IsSeq
  <2> QED
    BY <2>1, Reports DEF ReportBefore
<1> SUFFICES Leaves(r, before)
  BY <1>2
<1> HIDE DEF r, w, before
<1>3. Shape(Admitted(w)) /\ Same(w, Admitted(w)) /\ Admitted(w).pending # <<>>
  BY <1>1, AdmittedShape
<1>4. Shape(s) /\ Same(r, s) /\ s.pending = <<>>
  <2>1. /\ Shape(WithRecovered(Admitted(w), w.dataPackets))
        /\ Same(Admitted(w), WithRecovered(Admitted(w), w.dataPackets))
    BY <1>3, RecoveredShape
  <2> QED
    BY <1>1, <1>3, <2>1, StagedShape DEF Same
<1> HIDE DEF s
<1>5. CASE QueuePacket(i, cooled)
  <2>1. /\ Makes(before \o IF PredictsLoss(w) THEN << <<"predicted", n>> >> ELSE <<>>)
        /\ queue' = [w EXCEPT !.reportedLostFrame = @ \/ PredictsLoss(w)]
    BY <1>1, <1>5 DEF QueuePacket, Same, w, before
  <2>2. /\ before \o << <<"predicted", n>> >> = Append(before, <<"predicted", n>>)
        /\ before \o <<>> = before
    BY <1>2, CallsAppend
  <2>3. /\ Shape(queue')
        /\ queue'.currentFrameNumber = n
        /\ queue'.multiFecCurrentBlockNumber = r.multiFecCurrentBlockNumber
        /\ queue'.pending # <<>>
        /\ queue'.reportedLostFrame = (r.reportedLostFrame \/ PredictsLoss(w))
    BY <1>1, <2>1 DEF Shape, Same, Fields
  <2>4. CASE PredictsLoss(w)
    <3>1. ~r.reportedLostFrame /\ queue'.reportedLostFrame = TRUE
      BY <1>1, <2>3, <2>4 DEF PredictsLoss, Same
    <3> QED
      BY <2>1, <2>2, <2>3, <2>4, <3>1 DEF Leaves
  <2>5. CASE ~PredictsLoss(w)
    <3>1. queue'.reportedLostFrame = r.reportedLostFrame
      BY <1>1, <2>3, <2>5 DEF Shape
    <3> QED
      BY <2>1, <2>2, <2>3, <2>5, <3>1 DEF Leaves
  <2> QED
    BY <2>4, <2>5
<1>6. CASE FailRecovery(i, cooled)
  <2>1. PICK upTo : queue' = WithRecovered(Admitted(w), upTo) /\ Makes(before)
    BY <1>6 DEF FailRecovery, w, before
  <2>2. Shape(queue') /\ Same(Admitted(w), queue') /\ queue'.pending # <<>>
    BY <1>3, <2>1, RecoveredShape
  <2> QED
    BY <1>1, <1>3, <2>1, <2>2 DEF Same, Leaves
<1>7. CASE CompleteBlock(i, cooled)
  <2>1. /\ queue' = [s EXCEPT !.multiFecCurrentBlockNumber = @ + 1]
        /\ Makes(before)
        /\ s.multiFecCurrentBlockNumber < s.multiFecLastBlockNumber
    BY <1>7 DEF CompleteBlock, s, w, before
  <2>2. /\ queue'.currentFrameNumber = n
        /\ queue'.multiFecCurrentBlockNumber = r.multiFecCurrentBlockNumber + 1
        /\ queue'.pending = <<>>
        /\ queue'.reportedLostFrame = r.reportedLostFrame
        /\ r.multiFecCurrentBlockNumber < 3
    BY <1>4, <2>1 DEF Shape, Same, Fields
  <2>3. /\ queue' = [f \in Fields |-> queue'[f]]
        /\ \A f \in Fields \ {"multiFecCurrentBlockNumber"} : queue'[f] = s[f]
    BY <1>4, <2>1 DEF Shape, Fields
  <2>5. queue'.multiFecCurrentBlockNumber \in 0 .. 3
    BY <1>4, <2>2 DEF Shape, Same
  <2>4. Shape(queue')
    BY <1>4, <2>3, <2>5 DEF Shape, Fields
  <2> QED
    BY <2>1, <2>2, <2>4 DEF Leaves
<1>8. CASE CompleteFrame(i, cooled)
  <2>1. /\ queue' = [s EXCEPT !.completed = <<>>, !.currentFrameNumber = @ + 1,
                               !.multiFecCurrentBlockNumber = 0]
        /\ Makes(Append(before, <<"frame", s.currentFrameNumber, s.completed>>))
    BY <1>8 DEF CompleteFrame, s, w, before
  <2>2. /\ s.currentFrameNumber = n
        /\ queue'.currentFrameNumber = n + 1
        /\ queue'.multiFecCurrentBlockNumber = 0
        /\ queue'.pending = <<>>
        /\ queue'.reportedLostFrame = r.reportedLostFrame
    BY <1>4, <2>1 DEF Shape, Same, Fields
  <2>3. /\ queue' = [f \in Fields |-> queue'[f]]
        /\ \A f \in Fields \ {"completed", "currentFrameNumber", "multiFecCurrentBlockNumber"} :
             queue'[f] = s[f]
    BY <1>4, <2>1 DEF Shape, Fields
  <2>5. queue'.currentFrameNumber \in Nat \ {0} /\ queue'.multiFecCurrentBlockNumber \in 0 .. 3
    BY <1>4, <2>2 DEF Shape
  <2>4. Shape(queue')
    BY <1>4, <2>3, <2>5 DEF Shape, Fields
  <2> QED
    BY <2>1, <2>2, <2>4 DEF Leaves
<1> QED
  BY <1>5, <1>6, <1>7, <1>8 DEF Accepted

(* Which are the outcomes of FrameDelivery. *)
LEMMA Outcomes ==
  ASSUME NEW r, NEW before, IsSeq(before), Leaves(r, before)
  PROVE  Abstract!Outcome(r.currentFrameNumber, r.multiFecCurrentBlockNumber,
                          r.reportedLostFrame, CallsOf(before))
<1> DEFINE n == r.currentFrameNumber
<1>1. /\ CallsOf(Append(before, <<"predicted", n>>)) = Append(CallsOf(before), <<"predicted", n>>)
      /\ \A t : CallsOf(Append(before, <<"frame", n, t>>)) = Append(CallsOf(before), <<"frame", n>>)
  <2>1. ASSUME NEW c
        PROVE  CallsOf(Append(before, c)) = Append(CallsOf(before), <<c[1], c[2]>>)
    BY CallsAppend
  <2>2. \A t : <<"frame", n, t>>[1] = "frame" /\ <<"frame", n, t>>[2] = n
    OBVIOUS
  <2>3. <<"predicted", n>>[1] = "predicted" /\ <<"predicted", n>>[2] = n
    OBVIOUS
  <2> QED
    BY <2>1, <2>2, <2>3
<1> QED
  BY <1>1 DEF Leaves, Makes, Abstract!Outcome, Abstract!Pending, Abstract!BlockDone,
              Abstract!FrameDone, Abstract!At

(* One call of RtpvAddPacket is one step of FrameDelivery. *)
LEMMA Steps ==
  ASSUME Shape(queue), Next
  PROVE  Shape(queue') /\ Abstract!Next
<1>1. PICK i \in Packets : RtpvAddPacket(i)
  BY DEF Next
<1> DEFINE p == Stream[i]
<1>2. /\ p.frame \in Nat \ {0} /\ p.block \in 0 .. 3
      /\ p.frame \in { Stream[j].frame : j \in Packets }
  BY StreamAssumption
<1>3. CASE Reject(i) \/ RejectDuplicate(i)
  <2>1. calls' = <<>> /\ queue' = queue
    BY <1>3 DEF Reject, RejectDuplicate, Makes
  <2>2. CallsOf(calls') = <<>>
    BY <2>1, Reports
  <2>3. Abstract!Idle
    BY <2>1, <2>2 DEF Abstract!Idle
  <2> QED
    BY <2>1, <2>3 DEF Abstract!Next
<1>4. ASSUME NEW n \in { Stream[j].frame : j \in Packets } \cup {queue.currentFrameNumber}, 
             queue.currentFrameNumber <= n,
             Makes(ReportUnlessReported(queue)), queue' = GivenUp(queue, n)
      PROVE  Shape(queue') /\ Abstract!LoseBlock(n)
  <2>1. n \in Nat
    BY <1>4, StreamAssumption DEF Shape
  <2>2. /\ Shape(queue') /\ queue'.pending = <<>>
        /\ queue'.currentFrameNumber = n + 1 /\ queue'.multiFecCurrentBlockNumber = 0
        /\ queue'.reportedLostFrame = TRUE
    BY <1>4, <2>1, GivenUpShape
  <2>3. CallsOf(calls')
          = IF queue.reportedLostFrame THEN <<>> ELSE << <<"lost", queue.currentFrameNumber>> >>
    BY <1>4, Reports DEF Makes
  <2> QED
    BY <1>4, <2>2, <2>3 DEF Abstract!LoseBlock, Abstract!At
<1>5. CASE LoseBlock(i)
  <2>1. p.frame = queue.currentFrameNumber
    BY <1>5 DEF LoseBlock, LosesBlock
  <2>2. Shape(queue') /\ Abstract!LoseBlock(p.frame)
    BY <1>2, <1>4, <1>5, <2>1 DEF LoseBlock
  <2> QED
    BY <1>2, <2>2 DEF Abstract!Next
<1>6. CASE LoseFirstBlock(i)
  <2>1. queue.currentFrameNumber <= p.frame
    BY <1>2, <1>6 DEF LoseFirstBlock, Rejects, Shape
  <2>2. Shape(queue') /\ Abstract!LoseBlock(p.frame)
    BY <1>2, <1>4, <1>6, <2>1 DEF LoseFirstBlock
  <2> QED
    BY <1>2, <2>2 DEF Abstract!Next
<1>7. ASSUME NEW cooled \in BOOLEAN, Accepted(i, cooled)
      PROVE  Shape(queue') /\ Abstract!Next
  <2> DEFINE r == Ready(queue, i)
             before == ReportBefore(queue, i)
  <2>1. Leaves(r, before) /\ IsSeq(before)
    BY <1>7, Effects
  <2>2. Shape(queue')
    BY <2>1 DEF Leaves
  <2>3. Abstract!Outcome(r.currentFrameNumber, r.multiFecCurrentBlockNumber,
                         r.reportedLostFrame, CallsOf(before))
    BY <2>1, Outcomes
  <2>4. Fits(queue, i)
    BY <1>7 DEF Accepted, QueuePacket, FailRecovery, CompleteBlock, CompleteFrame, Accepts
  <2>5. CASE NeedsRestart(queue, p)
    <3>1. /\ r.currentFrameNumber = p.frame /\ r.multiFecCurrentBlockNumber = p.block
          /\ r.reportedLostFrame = FALSE
      BY <2>5, RestartedShape DEF Ready
    <3>2. CallsOf(before) = Abstract!GapReport(p.frame)
      BY <2>5, Reports DEF ReportBefore
    <3>3. /\ queue.currentFrameNumber <= p.frame /\ p.block = ExpectedBlock(queue, p)
      BY <1>2, <2>4, <2>5 DEF Fits, Rejects, LosesFirstBlock, Shape
    <3>4. p.frame = queue.currentFrameNumber => queue.pending = <<>>
      BY <2>5, <3>3 DEF NeedsRestart, SameBlock, ExpectedBlock
    <3>5. Abstract!Begin(p.frame)
      BY <2>3, <3>1, <3>2, <3>3, <3>4 DEF Abstract!Begin, ExpectedBlock
    <3> QED
      BY <1>2, <2>2, <3>5 DEF Abstract!Next
  <2>6. CASE ~NeedsRestart(queue, p)
    <3>1. r = queue /\ queue.pending # <<>>
      BY <2>6 DEF Ready, NeedsRestart
    <3>2. CallsOf(before) = <<>>
      BY <2>6, Reports DEF ReportBefore
    <3>3. Abstract!Continue
      BY <2>3, <3>1, <3>2 DEF Abstract!Continue
    <3> QED
      BY <2>2, <3>3 DEF Abstract!Next
  <2> QED
    BY <2>5, <2>6
<1> QED
  BY <1>1, <1>3, <1>5, <1>6, <1>7 DEF RtpvAddPacket, Accepted

(* Initially the queue is empty, in both. *)
LEMMA InitShape == Init => Shape(queue) /\ Abstract!Init
<1>1. IsSeq(<<>>)
  BY DEF IsSeq
<1>2. CallsOf(<<>>) = <<>>
  BY DEF CallsOf
<1> QED
  BY <1>1, <1>2 DEF Init, Shape, Fields, Abstract!Init

-------------------------------------------------------------------------------

(* The frames that calls of one kind name, when one more call is made. *)
LEMMA NamedCalls ==
  ASSUME NEW s, IsSeq(s), NEW c, NEW kind
  PROVE  /\ Named(kind, <<>>) = {}
         /\ Named(kind, Append(s, c)) = Named(kind, s) \cup (IF c[1] = kind THEN {c[2]} ELSE {})
         /\ \A k \in DOMAIN Append(s, c) :
              \/ k \in DOMAIN s /\ Append(s, c)[k] = s[k]
              \/ Append(s, c)[k] = c
<1> DEFINE S == { s[k] : k \in 1 .. Len(s) } \cup {c}
           t == Append(s, c)
<1>1. s \in Seq(S) /\ c \in S
  BY DEF IsSeq
<1>2. /\ Len(s) \in Nat /\ DOMAIN s = 1 .. Len(s) /\ DOMAIN t = 1 .. Len(s) + 1
      /\ t[Len(s) + 1] = c /\ \A k \in 1 .. Len(s) : t[k] = s[k]
  BY <1>1, AppendProperties, LenProperties
<1>3. \A k : k \in DOMAIN t <=> k \in DOMAIN s \/ k = Len(s) + 1
  BY <1>2
<1>4. Named(kind, <<>>) = {}
  BY DEF Named
<1>5. Len(s) + 1 \notin DOMAIN s
  BY <1>2
<1> HIDE DEF t
<1>6. ASSUME NEW v
      PROVE  v \in Named(kind, t) <=> v \in Named(kind, s) \/ (c[1] = kind /\ v = c[2])
  BY <1>2, <1>3 DEF Named
<1>7. Named(kind, t) = Named(kind, s) \cup (IF c[1] = kind THEN {c[2]} ELSE {})
  BY <1>6
<1> QED
  BY <1>2, <1>3, <1>4, <1>7 DEF t

(* The highest of a number and at most two others. *)
LEMMA Highest ==
  ASSUME NEW old \in Nat, NEW a \in Nat, NEW b \in Nat, a <= b
  PROVE  /\ HighestOf(old, {}) = old
         /\ HighestOf(old, {a}) = IF old < a THEN a ELSE old
         /\ HighestOf(old, {a, b}) = IF old < b THEN b ELSE old
<1>1. HighestOf(old, {}) = old
  BY DEF HighestOf
<1>2. ASSUME NEW S \in SUBSET Nat, S # {}, NEW m \in S \cup {old}, \A x \in S \cup {old} : x <= m
      PROVE  HighestOf(old, S) = m
  <2> DEFINE h == HighestOf(old, S)
  <2>1. h = CHOOSE n \in S \cup {old} : \A x \in S \cup {old} : x <= n
    BY <1>2 DEF HighestOf
  <2>2. h \in S \cup {old} /\ \A x \in S \cup {old} : x <= h
    BY <1>2, <2>1
  <2>3. h \in Nat /\ m \in Nat /\ h <= m /\ m <= h
    BY <1>2, <2>2
  <2> SUFFICES h = m
    OBVIOUS
  <2> HIDE DEF h
  <2> QED
    BY <2>3
<1> QED
  BY <1>1, <1>2

(* What was submitted and reported, in relation to the current frame. *)
Past ==
  /\ done \in Nat /\ lost \in Nat /\ foretold \in Nat
  /\ done < queue.currentFrameNumber
  /\ foretold <= queue.currentFrameNumber /\ lost <= queue.currentFrameNumber
  /\ lost = queue.currentFrameNumber => foretold = lost

(* What a step may add to it. *)
Advances ==
  /\ \A k \in DOMAIN calls' : calls'[k][1] = "frame" => done < calls'[k][2]
  /\ \A k \in DOMAIN calls' : calls'[k][1] # "frame" =>
       done < calls'[k][2] /\ lost <= calls'[k][2]
  /\ done' # done /\ done' <= lost => done' <= foretold

(* At most one report of a gap, then nothing, a prediction or a frame: the calls go forward. *)
LEMMA PastGoesOn ==
  ASSUME Past, queue.currentFrameNumber \in Nat,
         NEW n \in Nat, queue.currentFrameNumber <= n,
         NEW b, \/ b = <<>>
                \/ \E m \in Nat : /\ b = << <<"lost", m>> >>
                                   /\ queue.currentFrameNumber <= m /\ m < n,
         \/ Makes(b) /\ queue'.currentFrameNumber = n
         \/ Makes(Append(b, <<"predicted", n>>)) /\ queue'.currentFrameNumber = n
         \/ (\E t : Makes(Append(b, <<"frame", n, t>>))) /\ queue'.currentFrameNumber = n + 1
  PROVE  Past' /\ Advances
<1> DEFINE L == Named("lost", b)
           cur == queue.currentFrameNumber
<1>1. \/ b = <<>> /\ L = {}
      \/ \E m \in Nat : L = {m} /\ b = << <<"lost", m>> >> /\ cur <= m /\ m < n
  <2>0. IsSeq(<<>>)
    BY DEF IsSeq
  <2>1. Named("lost", <<>>) = {}
    BY DEF Named
  <2>2. ASSUME NEW m \in Nat
        PROVE  Named("lost", << <<"lost", m>> >>) = {m}
    <3>1. Append(<<>>, <<"lost", m>>) = << <<"lost", m>> >>
      BY <2>0, CallsAppend
    <3>2. Named("lost", Append(<<>>, <<"lost", m>>)) = {} \cup {m}
      BY <2>0, <2>1, NamedCalls
    <3> QED
      BY <3>1, <3>2
  <2> QED
    BY <2>1, <2>2
<1>2. /\ IsSeq(b) /\ Named("frame", b) = {} /\ Named("predicted", b) = {}
      /\ \A k \in DOMAIN b : b[k][1] = "lost" /\ b[k][2] \in L
  <2>0. IsSeq(<<>>)
    BY DEF IsSeq
  <2>1. \A kind : Named(kind, <<>>) = {}
    BY DEF Named
  <2>2. CASE b = <<>>
    BY <2>0, <2>1, <2>2
  <2>3. ASSUME NEW m \in Nat, L = {m}, b = << <<"lost", m>> >>
        PROVE  /\ IsSeq(b) /\ Named("frame", b) = {} /\ Named("predicted", b) = {}
               /\ \A k \in DOMAIN b : b[k][1] = "lost" /\ b[k][2] \in L
    <3> DEFINE c == <<"lost", m>>
    <3>6. Append(<<>>, <<"lost", m>>) = << <<"lost", m>> >>
      BY <2>0, CallsAppend
    <3>7. IsSeq(Append(<<>>, c))
      BY <2>0, AppendIsSeq
    <3>1. Append(<<>>, c) = b /\ IsSeq(Append(<<>>, c))
      BY <2>3, <3>6, <3>7
    <3>2. c[1] = "lost" /\ c[2] = m
      OBVIOUS
    <3> HIDE DEF c
    <3>3. \A kind : Named(kind, Append(<<>>, c)) = {} \cup (IF c[1] = kind THEN {c[2]} ELSE {})
      <4>1. ASSUME NEW kind
            PROVE  Named(kind, Append(<<>>, c))
                     = Named(kind, <<>>) \cup (IF c[1] = kind THEN {c[2]} ELSE {})
        BY <2>0, NamedCalls
      <4> QED
        BY <2>1, <4>1
    <3>4. \A k \in DOMAIN b : b[k] = c
      BY <2>0, <3>1, NamedCalls
    <3>5. Named("frame", b) = {} /\ Named("predicted", b) = {}
      BY <3>1, <3>2, <3>3
    <3> QED
      BY <2>3, <3>1, <3>2, <3>4, <3>5
  <2> QED
    BY <1>1, <2>2, <2>3
<1>7. /\ \A o \in Nat : HighestOf(o, {}) = o
      /\ \A o, m \in Nat : HighestOf(o, {m}) = IF o < m THEN m ELSE o
      /\ \A o, l, m \in Nat : l <= m => HighestOf(o, {l, m}) = IF o < m THEN m ELSE o
  <2>1. ASSUME NEW o \in Nat, NEW m \in Nat
        PROVE  HighestOf(o, {}) = o /\ HighestOf(o, {m}) = IF o < m THEN m ELSE o
    <3>1. m <= m
      OBVIOUS
    <3> QED
      BY <3>1, Highest
  <2> QED
    BY <2>1, Highest
<1>3. ASSUME NEW c
      PROVE  LET x == Append(b, c) IN
             /\ \A kind : Named(kind, x) = Named(kind, b) \cup (IF c[1] = kind THEN {c[2]} ELSE {})
             /\ \A k \in DOMAIN x : x[k] = c \/ (x[k][1] = "lost" /\ x[k][2] \in L)
  BY <1>2, NamedCalls
<1> HIDE DEF L
<1>4. CASE Makes(b) /\ queue'.currentFrameNumber = n
  <2>1. /\ calls' = b /\ done' = HighestOf(done, {}) /\ foretold' = HighestOf(foretold, {})
        /\ lost' = HighestOf(lost, L)
    BY <1>2, <1>4 DEF Makes, L
  <2>2. /\ done' = done /\ foretold' = foretold
        /\ L = {} => lost' = lost
        /\ \A m \in Nat : L = {m} => lost' = IF lost < m THEN m ELSE lost
    BY <1>7, <2>1 DEF Past
  <2>3. Past'
    BY <1>1, <1>4, <2>2 DEF Past
  <2>4. Advances
    BY <1>1, <1>2, <2>1, <2>2 DEF Past, Advances
  <2> QED
    BY <2>3, <2>4
<1>5. CASE Makes(Append(b, <<"predicted", n>>)) /\ queue'.currentFrameNumber = n
  <2> DEFINE c == <<"predicted", n>>
  <2>0. c[1] = "predicted" /\ c[2] = n
    OBVIOUS
  <2>1. /\ calls' = Append(b, c) /\ done' = HighestOf(done, {})
        /\ foretold' = HighestOf(foretold, {n})
        /\ lost' = HighestOf(lost, L \cup {n})
    <3>1. \A kind : Named(kind, Append(b, c))
                       = Named(kind, b) \cup (IF kind = "predicted" THEN {n} ELSE {})
      BY <1>3, <2>0
    <3>2. /\ Named("frame", Append(b, c)) = {} /\ Named("predicted", Append(b, c)) = {n}
          /\ Named("lost", Append(b, c)) = L
      BY <1>2, <3>1 DEF L
    <3> QED
      BY <1>5, <3>2 DEF Makes
  <2>2. /\ done' = done /\ foretold' = IF foretold < n THEN n ELSE foretold
        /\ lost' = IF lost < n THEN n ELSE lost
    <3>1. /\ L = {} => L \cup {n} = {n}
          /\ \A m \in Nat : L = {m} => L \cup {n} = {m, n}
      OBVIOUS
    <3> QED
      BY <1>1, <1>7, <2>1, <3>1 DEF Past
  <2>3. Past'
    BY <1>5, <2>2 DEF Past
  <2>4. \A k \in DOMAIN calls' :
           calls'[k][1] # "frame" /\ calls'[k][2] \in L \cup {n}
    BY <1>3, <2>0, <2>1
  <2>5. Advances
    BY <1>1, <2>2, <2>4 DEF Past, Advances
  <2> QED
    BY <2>3, <2>5
<1>6. CASE (\E t : Makes(Append(b, <<"frame", n, t>>))) /\ queue'.currentFrameNumber = n + 1
  <2>1. PICK t : Makes(Append(b, <<"frame", n, t>>))
    BY <1>6
  <2> DEFINE c == <<"frame", n, t>>
  <2>2. c[1] = "frame" /\ c[2] = n
    OBVIOUS
  <2>3. /\ calls' = Append(b, c) /\ done' = HighestOf(done, {n})
        /\ foretold' = HighestOf(foretold, {})
        /\ lost' = HighestOf(lost, L)
    <3>1. \A kind : Named(kind, Append(b, c))
                       = Named(kind, b) \cup (IF kind = "frame" THEN {n} ELSE {})
      BY <1>3, <2>2
    <3>2. /\ Named("frame", Append(b, c)) = {n} /\ Named("predicted", Append(b, c)) = {}
          /\ Named("lost", Append(b, c)) \cup Named("predicted", Append(b, c)) = L
      BY <1>2, <3>1 DEF L
    <3> QED
      BY <2>1, <3>2 DEF Makes
  <2>4. /\ foretold' = foretold /\ done' = IF done < n THEN n ELSE done
        /\ L = {} => lost' = lost
        /\ \A m \in Nat : L = {m} => lost' = IF lost < m THEN m ELSE lost
    BY <1>7, <2>3 DEF Past
  <2>5. Past'
    BY <1>1, <1>6, <2>4 DEF Past
  <2>6. \A k \in DOMAIN calls' :
           \/ calls'[k][1] = "frame" /\ calls'[k][2] = n
           \/ calls'[k][1] = "lost" /\ calls'[k][2] \in L
    BY <1>3, <2>2, <2>3
  <2>7. Advances
    BY <1>1, <2>4, <2>6 DEF Past, Advances
  <2> QED
    BY <2>5, <2>7
<1> QED
  BY <1>4, <1>5, <1>6

(* So does every call of RtpvAddPacket. *)
LEMMA NextAdvances ==
  ASSUME Shape(queue), Past, Next
  PROVE  Past' /\ Advances
<1>1. PICK i \in Packets : RtpvAddPacket(i)
  BY DEF Next
<1> DEFINE p == Stream[i]
           cur == queue.currentFrameNumber
<1>2. p.frame \in Nat \ {0} /\ cur \in Nat \ {0}
  BY StreamAssumption DEF Shape
<1>3. CASE Reject(i) \/ RejectDuplicate(i)
  <2>1. Makes(<<>>) /\ queue'.currentFrameNumber = cur /\ cur <= cur
    BY <1>2, <1>3 DEF Reject, RejectDuplicate
  <2> QED
    BY <1>2, <2>1, PastGoesOn
<1>4. CASE LoseBlock(i) \/ LoseFirstBlock(i)
  <2>1. PICK n \in Nat : cur <= n /\ queue' = GivenUp(queue, n)
    <3>1. CASE LoseBlock(i)
      BY <1>2, <3>1 DEF LoseBlock
    <3>2. CASE LoseFirstBlock(i)
      BY <1>2, <3>2 DEF LoseFirstBlock, Rejects
    <3> QED
      BY <1>4, <3>1, <3>2
  <2> DEFINE b == ReportUnlessReported(queue)
  <2>2. Makes(b)
    BY <1>4 DEF LoseBlock, LoseFirstBlock
  <2>3. \/ b = <<>>
        \/ \E m \in Nat : b = << <<"lost", m>> >> /\ cur <= m /\ m < n + 1
    BY <1>2, <2>1 DEF ReportUnlessReported
  <2>4. queue'.currentFrameNumber = n + 1 /\ n + 1 \in Nat /\ cur <= n + 1
    <3>1. GivenUp(queue, n).currentFrameNumber = n + 1
      BY GivenUpShape
    <3> QED
      BY <1>2, <2>1, <3>1
  <2> HIDE DEF b
  <2> QED
    BY <1>2, <2>2, <2>3, <2>4, PastGoesOn
<1>5. ASSUME NEW cooled \in BOOLEAN, Accepted(i, cooled)
      PROVE  Past' /\ Advances
  <2> DEFINE r == Ready(queue, i)
             b == ReportBefore(queue, i)
             n == r.currentFrameNumber
  <2>1. Leaves(r, b)
    BY <1>5, Effects
  <2>2. Fits(queue, i)
    BY <1>5 DEF Accepted, QueuePacket, FailRecovery, CompleteBlock, CompleteFrame, Accepts
  <2>3. /\ n \in Nat /\ cur <= n
        /\ \/ b = <<>>
           \/ \E m \in Nat : b = << <<"lost", m>> >> /\ cur <= m /\ m < n
    <3>1. CASE NeedsRestart(queue, p)
      <4>1. n = p.frame /\ cur <= p.frame
        <5>1. n = p.frame
          BY <3>1, RestartedShape DEF Ready
        <5>2. ~(p.frame < cur)
          BY <2>2 DEF Fits, Rejects
        <5> QED
          BY <1>2, <5>1, <5>2
      <4>2. b = IF p.frame = cur \/ (p.frame = cur + 1 /\ queue.reportedLostFrame)
                THEN <<>> ELSE << <<"lost", p.frame - 1>> >>
        BY <3>1 DEF ReportBefore, ReportGap
      <4>3. CASE p.frame = cur
        BY <1>2, <4>1, <4>2, <4>3
      <4>4. CASE p.frame # cur
        <5>1. p.frame - 1 \in Nat /\ cur <= p.frame - 1 /\ p.frame - 1 < p.frame
          BY <1>2, <4>1, <4>4
        <5> QED
          BY <1>2, <4>1, <4>2, <5>1
      <4> QED
        BY <4>3, <4>4
    <3>2. CASE ~NeedsRestart(queue, p)
      BY <1>2, <3>2 DEF Ready, ReportBefore
    <3> QED
      BY <3>1, <3>2
  <2>4. \/ Makes(b) /\ queue'.currentFrameNumber = n
        \/ Makes(Append(b, <<"predicted", n>>)) /\ queue'.currentFrameNumber = n
        \/ (\E t : Makes(Append(b, <<"frame", n, t>>))) /\ queue'.currentFrameNumber = n + 1
    BY <2>1 DEF Leaves
  <2> HIDE DEF r, b, n
  <2> QED
    BY <1>2, <2>3, <2>4, PastGoesOn
<1> QED
  BY <1>1, <1>3, <1>4, <1>5 DEF RtpvAddPacket, Accepted

(* The inductive invariant of the queue and its history. *)
LEMMA QueueIsKept == Spec => [](Shape(queue) /\ Past)
<1>1. Init => Shape(queue) /\ Past
  <2>1. Init => Past
    BY DEF Init, Past
  <2> QED
    BY <2>1, InitShape
<1>2. Shape(queue) /\ Past /\ [Next]_vars => Shape(queue)' /\ Past'
  <2>1. ASSUME Past, UNCHANGED vars PROVE Past'
    BY <2>1 DEF vars, Past
  <2> QED
    BY <2>1, Steps, NextAdvances DEF vars
<1> QED
  BY <1>1, <1>2, PTL DEF Spec

(* The queue implements FrameDelivery: packet by packet, whatever is late,  *)
(* repeated, lost or recovered, a frame is submitted when its last block is *)
(* complete, and a loss is reported when a block or a frame is skipped, or  *)
(* predicted.                                                               *)
THEOREM Delivers == Spec => DeliversFrames
<1>1. Init => Abstract!Init
  BY InitShape
<1>2. Shape(queue) /\ [Next]_vars => [Abstract!Next]_(Abstract!vars)
  <2>1. ASSUME UNCHANGED vars PROVE UNCHANGED Abstract!vars
    BY <2>1 DEF vars, Abstract!vars, CallsOf
  <2> QED
    BY <2>1, Steps
<1> QED
  BY <1>1, <1>2, QueueIsKept, PTL DEF Spec, DeliversFrames, Abstract!Spec

(* submitCompletedFrame: a frame is submitted once and after every earlier one. *)
SubmittedOnce ==
  [][ \A k \in DOMAIN calls' : calls'[k][1] = "frame" => done < calls'[k][2] ]_vars

(* So it is, whatever the stream and the network do. *)
THEOREM SubmitsOnce == Spec => SubmittedOnce
<1>1. Shape(queue) /\ Past /\ [Next]_vars =>
        [\A k \in DOMAIN calls' : calls'[k][1] = "frame" => done < calls'[k][2]]_vars
  BY NextAdvances DEF Advances
<1> QED
  BY <1>1, QueueIsKept, PTL DEF Spec, SubmittedOnce

(* notifyFrameLost is never told of a frame that was submitted, nor of one *)
(* before a frame reported earlier.                                        *)
THEOREM ReportsInOrder == Spec => ReportsMoveForward
<1>1. Shape(queue) /\ Past /\ [Next]_vars =>
        [\A k \in DOMAIN calls' : calls'[k][1] # "frame" =>
           done < calls'[k][2] /\ lost <= calls'[k][2]]_vars
  BY NextAdvances DEF Advances
<1> QED
  BY <1>1, QueueIsKept, PTL DEF Spec, ReportsMoveForward

(* A frame that was given up is not submitted later, unless its loss was a *)
(* prediction.                                                             *)
THEOREM GivesUpForGood == Spec => GivenUpForGood
<1>1. Shape(queue) /\ Past /\ [Next]_vars =>
        [done' # done /\ done' <= lost => done' <= foretold]_vars
  BY NextAdvances DEF Advances
<1> QED
  BY <1>1, QueueIsKept, PTL DEF Spec, GivenUpForGood

-------------------------------------------------------------------------------
(* A number is a multiple of the modulus and its sequence number. *)
LEMMA Remainder ==
  ASSUME NEW x \in Int
  PROVE  U16(x) \in 0 .. SeqModulus - 1 /\ \E k \in Int : x = SeqModulus * k + U16(x)
<1> DEFINE M == SeqModulus
<1>1. M \in Int /\ M > 0
  BY NumbersAssumption
<1> HIDE DEF M
<1>2. \E k \in Int : M * k + (x % M) = x
  BY <1>1, Z3T(60)
<1>3. x % M \in 0 .. M - 1
  BY <1>1
<1> QED
  BY <1>2, <1>3 DEF M, U16

(* There is one remainder, ... *)
LEMMA RemainderOf ==
  ASSUME NEW M \in Nat \ {0}, NEW x \in Int, NEW k \in Int, NEW r \in 0 .. M - 1, x = k * M + r
  PROVE  x % M = r
OBVIOUS

(* ... so that this is the sequence number. *)
LEMMA RemainderIs ==
  ASSUME NEW x \in Int, NEW k \in Int, NEW r \in 0 .. SeqModulus - 1, x = SeqModulus * k + r
  PROVE  U16(x) = r
<1> DEFINE M == SeqModulus
<1>1. M \in Nat \ {0} /\ r \in 0 .. M - 1 /\ x = k * M + r
  BY NumbersAssumption
<1> HIDE DEF M
<1>2. x % M = r
  BY <1>1, RemainderOf
<1> QED
  BY <1>2 DEF M, U16

(* A difference of sequence numbers is that of the numbers, but for multiples of the modulus. *)
LEMMA NumberDifference ==
  ASSUME NEW a \in Int, NEW b \in Int, NEW c \in Int, NEW wraps \in Int,
         NEW r \in 0 .. SeqModulus - 1, a - b - c = SeqModulus * wraps + r
  PROVE  U16(U16(a) - U16(b) - c) = r
<1>1. PICK j \in Int : a = SeqModulus * j + U16(a)
  BY Remainder
<1>2. PICK k \in Int : b = SeqModulus * k + U16(b)
  BY Remainder
<1>3. U16(a) \in Int /\ U16(b) \in Int /\ SeqModulus \in Int
  BY Remainder, NumbersAssumption
<1> DEFINE x == U16(a) - U16(b) - c
           i == wraps - j + k
<1>4. x \in Int /\ i \in Int
  BY <1>3
<1>5. x = SeqModulus * i + r
  <2>1. SeqModulus * i = SeqModulus * wraps - SeqModulus * j + SeqModulus * k
    BY <1>3, Z3T(30)
  <2>2. /\ SeqModulus * wraps \in Int /\ SeqModulus * j \in Int /\ SeqModulus * k \in Int
    BY <1>3
  <2>3. r \in Int
    BY <1>3
  <2>4. SeqModulus * i = (a - b - c - r) - (a - U16(a)) + (b - U16(b))
    <3> DEFINE w == SeqModulus * wraps  y == SeqModulus * j  z == SeqModulus * k
    <3>1. w = a - b - c - r /\ y = a - U16(a) /\ z = b - U16(b)
      <4>1. w \in Int /\ y \in Int /\ z \in Int /\ a - b - c = w + r /\ a = y + U16(a) /\ b = z + U16(b)
        BY <1>1, <1>2, <2>2
      <4> HIDE DEF w, y, z
      <4> QED
        BY <1>3, <2>3, <4>1
    <3> QED
      BY <2>1, <3>1
  <2> QED
    <3> DEFINE v == SeqModulus * i
    <3>1. v = (a - b - c - r) - (a - U16(a)) + (b - U16(b))
      BY <2>4
    <3> HIDE DEF v
    <3>2. x = v + r
      BY <1>3, <2>3, <3>1
    <3> QED
      BY <3>2 DEF v
<1> HIDE DEF x, i
<1> QED
  BY <1>4, <1>5, RemainderIs DEF x

(* It does not matter when the modulus is taken. *)
LEMMA RemainderMinus ==
  ASSUME NEW a \in Int, NEW c \in Int
  PROVE  U16(U16(a) - c) = U16(a - c)
<1>1. U16(0) = 0
  <2>1. 0 = SeqModulus * 0 + 0 /\ 0 \in 0 .. SeqModulus - 1
    BY NumbersAssumption
  <2> QED
    BY <2>1, RemainderIs
<1>2. a - c \in Int
  OBVIOUS
<1>3. PICK k \in Int : a - c = SeqModulus * k + U16(a - c)
  BY <1>2, Remainder
<1> DEFINE r == U16(a - c)
<1>4. r \in 0 .. SeqModulus - 1
  BY <1>2, Remainder
<1>5. a - 0 - c = SeqModulus * k + r
  BY <1>3
<1>6. U16(U16(a) - U16(0) - c) = r
  <2> HIDE DEF r
  <2> QED
    BY <1>4, <1>5, NumberDifference
<1>7. U16(a) \in Int
  BY Remainder
<1> QED
  BY <1>1, <1>6, <1>7

(* The difference of two numbers, when the numbers they stand for are close. *)
LEMMA CloseNumbers ==
  ASSUME NEW a \in Int, NEW b \in Int, NEW c \in Int,
         - SeqModulus < a - b - c, a - b - c < SeqModulus
  PROVE  U16(U16(a) - U16(b) - c)
           = IF a - b - c < 0 THEN SeqModulus + (a - b - c) ELSE a - b - c
<1>1. SeqModulus \in Nat \ {0}
  BY NumbersAssumption
<1>2. CASE a - b - c >= 0
  <2>1. a - b - c = SeqModulus * 0 + (a - b - c) /\ a - b - c \in 0 .. SeqModulus - 1
    BY <1>1, <1>2
  <2> QED
    BY <1>2, <2>1, NumberDifference
<1>3. CASE a - b - c < 0
  <2> DEFINE r == SeqModulus + (a - b - c)
  <2>1. a - b - c = SeqModulus * (-1) + r /\ r \in 0 .. SeqModulus - 1
    BY <1>1, <1>3
  <2>2. U16(U16(a) - U16(b) - c) = r
    <3> HIDE DEF r
    <3> QED
      BY <2>1, NumberDifference
  <2> QED
    BY <1>3, <2>2
<1> QED
  BY <1>2, <1>3

(* Numbers at the same distance from another are equal. *)
LEMMA SameDistance ==
  ASSUME NEW x \in 0 .. SeqModulus - 1, NEW y \in 0 .. SeqModulus - 1, NEW l \in Int,
         U16(x - l) = U16(y - l)
  PROVE  x = y
<1>1. SeqModulus \in Nat \ {0} /\ x - l \in Int /\ y - l \in Int
  BY NumbersAssumption
<1>2. U16(U16(x - l) - U16(y - l) - 0)
        = IF (x - l) - (y - l) - 0 < 0
          THEN SeqModulus + ((x - l) - (y - l) - 0) ELSE (x - l) - (y - l) - 0
  <2>1. - SeqModulus < (x - l) - (y - l) - 0 /\ (x - l) - (y - l) - 0 < SeqModulus
    BY <1>1
  <2> QED
    BY <1>1, <2>1, CloseNumbers
<1>3. U16(0) = 0
  <2>1. 0 = SeqModulus * 0 + 0 /\ 0 \in 0 .. SeqModulus - 1
    BY NumbersAssumption
  <2> QED
    BY <2>1, RemainderIs
<1>4. U16(x - l) - U16(y - l) - 0 = 0
  BY <1>1, Remainder
<1>5. 0 = IF (x - l) - (y - l) - 0 < 0
          THEN SeqModulus + ((x - l) - (y - l) - 0) ELSE (x - l) - (y - l) - 0
  BY <1>2, <1>3, <1>4
<1> QED
  BY <1>1, <1>5

(* Packets of the same block, and the number of the first of them. *)
SameBlockAs(i, h) == Stream[i].frame = Stream[h].frame /\ Stream[i].block = Stream[h].block

FirstOf(i) == U16(SeqNumber(i) - Stream[i].index)

(* What the assumptions say of a packet. *)
LEMMA PacketFacts ==
  ASSUME NEW i \in Packets
  PROVE  /\ i \in Int /\ SeqNumber(i) \in 0 .. SeqModulus - 1 /\ FirstOf(i) \in Int
         /\ Stream[i].index \in Nat /\ Stream[i].frame \in Nat \ {0}
         /\ Stream[i].data \in Nat /\ Stream[i].parity \in Nat
         /\ Stream[i].index < Stream[i].data + Stream[i].parity
         /\ 2 * (Stream[i].data + Stream[i].parity) <= SeqModulus
<1>1. i \in Int /\ i - 1 \in Int
  BY DEF Packets
<1>2. /\ Stream[i].index \in Nat /\ Stream[i].frame \in Nat \ {0}
      /\ Stream[i].data \in Nat /\ Stream[i].parity \in Nat
  BY StreamAssumption
<1>3. SeqNumber(i) \in 0 .. SeqModulus - 1
  BY <1>1, Remainder DEF SeqNumber
<1>4. SeqNumber(i) - Stream[i].index \in Int
  BY <1>2, <1>3
<1>5. FirstOf(i) \in Int
  BY <1>4, Remainder DEF FirstOf
<1> QED
  BY <1>1, <1>2, <1>3, <1>5, BlocksAssumption

(* Packets of one block are at their index behind its first one, and their *)
(* sequence numbers compare as they do, also where the numbers wrap.       *)
LEMMA BlockNumbers ==
  ASSUME NEW i \in Packets, NEW h \in Packets, SameBlockAs(i, h)
  PROVE  /\ i - h = Stream[i].index - Stream[h].index
         /\ Stream[i].data = Stream[h].data /\ Stream[i].parity = Stream[h].parity
         /\ FirstOf(i) = FirstOf(h)
         /\ U16(SeqNumber(i) - FirstOf(h)) = Stream[i].index
         /\ isBefore16(SeqNumber(h), SeqNumber(i)) <=> h < i
         /\ h < i => U16(SeqNumber(i) - SeqNumber(h) - 1) = i - h - 1
         /\ SeqNumber(i) = U16(h) => i = h + 1
         /\ U16(SeqNumber(i) + 1) = U16(i)
<1> DEFINE x == Stream[i].index
           y == Stream[h].index
           size == Stream[i].data + Stream[i].parity
           M == SeqModulus
<1>1. /\ i \in Int /\ h \in Int /\ x \in Nat /\ y \in Nat /\ size \in Nat /\ M \in Nat \ {0}
      /\ x < size /\ y < size /\ 2 * size <= M
      /\ i - x = h - y
      /\ Stream[i].data = Stream[h].data /\ Stream[i].parity = Stream[h].parity
  BY PacketFacts, BlocksAssumption, NumbersAssumption DEF SameBlockAs
<1>2. i - h = x - y
  BY <1>1
<1>3. FirstOf(i) = U16((i - 1) - x) /\ FirstOf(h) = U16((h - 1) - y)
  <2>1. i - 1 \in Int /\ h - 1 \in Int
    BY <1>1
  <2> QED
    <3>1. x \in Int /\ y \in Int
      BY <1>1
    <3>2. U16(U16(i - 1) - x) = U16((i - 1) - x) /\ U16(U16(h - 1) - y) = U16((h - 1) - y)
      <4> HIDE DEF x, y
      <4> QED
        BY <2>1, <3>1, RemainderMinus
    <3> QED
      BY <3>2 DEF FirstOf, SeqNumber
<1>4. FirstOf(i) = FirstOf(h)
  <2>1. (i - 1) - x = (h - 1) - y
    BY <1>1
  <2> QED
    BY <1>3, <2>1
<1>5. ASSUME NEW a \in Int, NEW b \in Int, NEW c \in Int, - M < a - b - c, a - b - c < M
      PROVE  U16(U16(a) - U16(b) - c) = IF a - b - c < 0 THEN M + (a - b - c) ELSE a - b - c
  BY <1>5, CloseNumbers
<1>6. \A a \in Int : U16(a) \in Int
  BY Remainder
<1> HIDE DEF x, y, size, M
<1>7. U16(SeqNumber(i) - FirstOf(h)) = x
  <2> DEFINE a == i - 1  b == (i - 1) - x
  <2>1. a \in Int /\ b \in Int /\ a - b - 0 = x /\ - M < x /\ x < M /\ ~(x < 0)
    BY <1>1
  <2>2. U16(U16(a) - U16(b) - 0) = x
    <3> HIDE DEF a, b
    <3> QED
      BY <1>5, <2>1
  <2>3. U16(a) - U16(b) - 0 = U16(a) - U16(b)
    BY <1>6, <2>1
  <2>4. SeqNumber(i) = U16(a) /\ FirstOf(h) = U16(b)
    BY <1>3, <1>4 DEF SeqNumber, x
  <2> QED
    BY <2>2, <2>3, <2>4
<1>8. isBefore16(SeqNumber(h), SeqNumber(i)) <=> h < i
  <2> DEFINE a == h - 1  b == i - 1
  <2>1. a \in Int /\ b \in Int /\ a - b - 0 = h - i /\ - M < h - i /\ h - i < M
    BY <1>1
  <2>2. U16(U16(a) - U16(b) - 0) = IF h - i < 0 THEN M + (h - i) ELSE h - i
    <3> HIDE DEF a, b
    <3> QED
      BY <1>5, <2>1
  <2>3. U16(a) - U16(b) - 0 = U16(a) - U16(b)
    BY <1>6, <2>1
  <2>4. U16(SeqNumber(h) - SeqNumber(i)) = IF h - i < 0 THEN M + (h - i) ELSE h - i
    BY <2>2, <2>3 DEF SeqNumber
  <2>5. (IF h - i < 0 THEN M + (h - i) ELSE h - i) > (M - 1) \div 2 <=> h < i
    BY <1>1, <1>2
  <2> QED
    BY <2>4, <2>5 DEF isBefore16, M
<1>9. h < i => U16(SeqNumber(i) - SeqNumber(h) - 1) = i - h - 1
  <2> DEFINE a == i - 1  b == h - 1
  <2>0. SUFFICES ASSUME h < i PROVE U16(SeqNumber(i) - SeqNumber(h) - 1) = i - h - 1
    OBVIOUS
  <2>1. /\ a \in Int /\ b \in Int /\ a - b - 1 = i - h - 1
        /\ - M < i - h - 1 /\ i - h - 1 < M /\ ~(i - h - 1 < 0)
    BY <1>1, <2>0
  <2>2. U16(U16(a) - U16(b) - 1) = i - h - 1
    <3> HIDE DEF a, b
    <3> QED
      BY <1>5, <2>1
  <2> QED
    BY <2>2 DEF SeqNumber
<1>10. SeqNumber(i) = U16(h) => i = h + 1
  <2> DEFINE a == i - 1
  <2>0. SUFFICES ASSUME U16(a) = U16(h) PROVE i = h + 1
    BY DEF SeqNumber
  <2>1. a \in Int /\ h \in Int /\ a - h - 0 = i - 1 - h /\ - M < i - 1 - h /\ i - 1 - h < M
    BY <1>1
  <2>2. U16(U16(a) - U16(h) - 0) = IF i - 1 - h < 0 THEN M + (i - 1 - h) ELSE i - 1 - h
    <3> HIDE DEF a
    <3> QED
      BY <1>5, <2>1
  <2>3. U16(a) - U16(h) - 0 = 0
    BY <1>1, <1>6, <2>0, <2>1
  <2>4. U16(0) = 0
    <3>1. 0 = SeqModulus * 0 + 0 /\ 0 \in 0 .. SeqModulus - 1
      BY NumbersAssumption
    <3> QED
      BY <3>1, RemainderIs
  <2>5. 0 = IF i - 1 - h < 0 THEN M + (i - 1 - h) ELSE i - 1 - h
    BY <2>2, <2>3, <2>4
  <2> QED
    BY <1>1, <2>1, <2>5
<1>11. U16(SeqNumber(i) + 1) = U16(i)
  <2>1. i - 1 \in Int /\ -1 \in Int /\ (i - 1) - (-1) = i
    BY <1>1
  <2>2. U16(U16(i - 1) - (-1)) = U16((i - 1) - (-1))
    BY <2>1, RemainderMinus
  <2>3. U16(i - 1) - (-1) = U16(i - 1) + 1
    BY <1>6, <2>1
  <2> QED
    BY <2>1, <2>2, <2>3 DEF SeqNumber
<1> QED
  BY <1>1, <1>2, <1>4, <1>7, <1>8, <1>9, <1>10, <1>11 DEF x, y

-------------------------------------------------------------------------------
(* What an entry of the pending list is. *)
Entries(q) ==
  \A k \in 1 .. Len(q.pending) :
    /\ q.pending[k].frame = q.currentFrameNumber
    /\ q.pending[k].recovered \in BOOLEAN
    /\ ~q.pending[k].recovered => q.pending[k].seq \in 0 .. SeqModulus - 1

(* Packet h is the highest one received of the block that is assembled. *)
Heard(q, h) ==
  /\ Stream[h].frame = q.currentFrameNumber /\ Stream[h].block = q.multiFecCurrentBlockNumber
  /\ q.lowest = FirstOf(h) /\ q.receivedHighest = SeqNumber(h)
  /\ q.dataPackets = Stream[h].data /\ q.parityPackets = Stream[h].parity
  /\ q.useFastQueuePath => q.nextContiguous = U16(h)
  /\ Distances(q) \subseteq 0 .. Stream[h].index /\ Stream[h].index \in Distances(q)
  /\ q.missingPackets \in Int
  /\ q.missingPackets + Cardinality(Distances(q)) = Stream[h].index + 1

(* Until there are enough packets none was recovered; a prediction is wrong *)
(* only when data was out of sequence, and this is not forgotten before the *)
(* frame is done.                                                           *)
Justified(q) ==
  /\ Len(q.pending) < q.dataPackets => Len(q.pending) = Cardinality(Distances(q))
  /\ q.reportedLostFrame /\ ~q.receivedOosData
     => q.missingPackets > q.parityPackets /\ Len(q.pending) < q.dataPackets
  /\ q.reportedLostFrame /\ q.receivedOosData => q.lastOosFrame = q.currentFrameNumber

(* The count of missing packets and the prediction of a loss are right. *)
Exact(q) ==
  /\ q.useFastQueuePath \in BOOLEAN /\ q.receivedOosData \in BOOLEAN
  /\ q.pending # <<>> => Entries(q) /\ (\E h \in Packets : Heard(q, h)) /\ Justified(q)

(* What becomes of the parts of queue r when entry e is queued. *)
Queued(r, w, e, cooled) ==
  LET s == e.seq
      first == Len(Append(r.pending, e)) = 1
      higher == isBefore16(r.receivedHighest, s)
  IN
  /\ w.pending = Append(r.pending, e)
  /\ w.useFastQueuePath = IsFast(r, s)
  /\ w.nextContiguous = IF IsFast(r, s) THEN U16(r.nextContiguous + 1) ELSE r.nextContiguous
  /\ w.lowest = r.lowest /\ w.parityPackets = r.parityPackets
  /\ w.missingPackets = IF first THEN r.missingPackets + U16(s - r.lowest)
                        ELSE IF higher THEN r.missingPackets + U16(s - r.receivedHighest - 1)
                        ELSE r.missingPackets - 1
  /\ w.receivedHighest = IF first \/ higher THEN s ELSE r.receivedHighest
  /\ w.receivedOosData = IF IsOutOfSequence(r, s) THEN TRUE
                         ELSE r.receivedOosData /\ ~(cooled /\ r.lastOosFrame < e.frame)
  /\ w.lastOosFrame = IF IsOutOfSequence(r, s) THEN e.frame ELSE r.lastOosFrame
  /\ Same(r, w)

(* The packet queued is so. *)
LEMMA PacketParts ==
  ASSUME NEW r, Shape(r), NEW e, NEW cooled
  PROVE  Queued(r, Counted(Linked(Sequenced(r, e, cooled), e), e.seq), e, cooled)
<1> DEFINE s == e.seq
           q == Sequenced(r, e, cooled)
           l == Linked(q, e)
           w == Counted(l, s)
<1>1. /\ Shape(q) /\ Same(r, q)
      /\ q.pending = r.pending /\ q.useFastQueuePath = r.useFastQueuePath
      /\ q.nextContiguous = r.nextContiguous /\ q.lowest = r.lowest /\ q.parityPackets = r.parityPackets
      /\ q.missingPackets = r.missingPackets /\ q.receivedHighest = r.receivedHighest
      /\ q.receivedOosData = IF IsOutOfSequence(r, s) THEN TRUE
                             ELSE r.receivedOosData /\ ~(cooled /\ r.lastOosFrame < e.frame)
      /\ q.lastOosFrame = IF IsOutOfSequence(r, s) THEN e.frame ELSE r.lastOosFrame
  <2>1. Shape(q) /\ Same(r, q)
    BY SequencedShape
  <2> QED
    BY <2>1 DEF Shape, Sequenced, Fields
<1>2. IsFast(q, s) = IsFast(r, s)
  BY <1>1 DEF IsFast
<1> HIDE DEF q
<1>3. /\ Shape(l) /\ Same(q, l)
      /\ l.pending = Append(r.pending, e) /\ l.useFastQueuePath = IsFast(r, s)
      /\ l.nextContiguous = IF IsFast(r, s) THEN U16(r.nextContiguous + 1) ELSE r.nextContiguous
      /\ l.lowest = r.lowest /\ l.parityPackets = r.parityPackets
      /\ l.missingPackets = r.missingPackets /\ l.receivedHighest = r.receivedHighest
      /\ l.receivedOosData = q.receivedOosData /\ l.lastOosFrame = q.lastOosFrame
  <2>1. Shape(l) /\ Same(q, l)
    BY <1>1, LinkedShape
  <2> QED
    BY <1>1, <1>2, <2>1 DEF Shape, Linked, Fields
<1> HIDE DEF l
<1>4. /\ Same(l, w)
      /\ w.pending = l.pending /\ w.useFastQueuePath = l.useFastQueuePath
      /\ w.nextContiguous = l.nextContiguous /\ w.lowest = l.lowest /\ w.parityPackets = l.parityPackets
      /\ w.missingPackets = Missing(l, s)
      /\ w.receivedHighest = IF Len(l.pending) = 1 \/ isBefore16(l.receivedHighest, s)
                             THEN s ELSE l.receivedHighest
      /\ w.receivedOosData = l.receivedOosData /\ w.lastOosFrame = l.lastOosFrame
  <2>1. Same(l, w)
    BY <1>3, CountedShape
  <2> QED
    BY <1>3, <2>1 DEF Shape, Counted, Fields
<1> HIDE DEF w
<1>5. Missing(l, s) = IF Len(Append(r.pending, e)) = 1 THEN r.missingPackets + U16(s - r.lowest)
                      ELSE IF isBefore16(r.receivedHighest, s)
                      THEN r.missingPackets + U16(s - r.receivedHighest - 1)
                      ELSE r.missingPackets - 1
  BY <1>3 DEF Missing
<1>6. Same(r, w)
  BY <1>1, <1>3, <1>4 DEF Same
<1> QED
  BY <1>1, <1>3, <1>4, <1>5, <1>6 DEF w, l, q, Queued

(* The first packet of a block sets the counts back. *)
LEMMA RestartedParts ==
  ASSUME NEW q, Shape(q), NEW i \in Packets
  PROVE  LET r == Restarted(q, i) IN
         /\ r.pending = <<>> /\ r.lowest = FirstOf(i) /\ r.nextContiguous = FirstOf(i)
         /\ r.dataPackets = Stream[i].data /\ r.parityPackets = Stream[i].parity
         /\ r.missingPackets = 0 /\ r.useFastQueuePath = TRUE
         /\ r.receivedOosData = q.receivedOosData
<1>1. /\ Purged(q, Stream[i]) = [f \in Fields |-> Purged(q, Stream[i])[f]]
      /\ Purged(q, Stream[i]).pending = <<>>
      /\ Purged(q, Stream[i]).receivedOosData = q.receivedOosData
  BY DEF Shape, Purged, Fields
<1> QED
  BY <1>1 DEF Shape, Restarted, Fields, FirstOf

(* The entry appended to a list is its last one. *)
LEMMA Appended ==
  ASSUME NEW s, IsSeq(s), NEW e
  PROVE  /\ Len(s) \in Nat /\ Len(Append(s, e)) = Len(s) + 1
         /\ DOMAIN s = 1 .. Len(s) /\ DOMAIN Append(s, e) = 1 .. Len(s) + 1
         /\ Append(s, e)[Len(s) + 1] = e
         /\ \A k \in 1 .. Len(s) : Append(s, e)[k] = s[k]
         /\ s # <<>> => Len(s) # 0
<1> DEFINE S == { s[k] : k \in 1 .. Len(s) } \cup {e}
<1>1. s \in Seq(S) /\ e \in S
  BY DEF IsSeq
<1>2. /\ Len(s) \in Nat /\ DOMAIN s = 1 .. Len(s)
  BY <1>1, LenProperties
<1>3. /\ Append(s, e) \in Seq(S) /\ Len(Append(s, e)) = Len(s) + 1
      /\ Append(s, e)[Len(s) + 1] = e
      /\ \A k \in 1 .. Len(s) : Append(s, e)[k] = s[k]
  BY <1>1, AppendProperties
<1>4. DOMAIN Append(s, e) = 1 .. Len(s) + 1
  BY <1>3, LenProperties
<1>5. s # <<>> => Len(s) # 0
  BY <1>1, EmptySeq
<1> QED
  BY <1>2, <1>3, <1>4, <1>5

(* An entry that was received adds its distance from the first packet. *)
LEMMA AppendedDistances ==
  ASSUME NEW r, NEW w, IsSeq(r.pending), NEW e, ~e.recovered,
         w.pending = Append(r.pending, e), w.lowest = r.lowest
  PROVE  Distances(w) = Distances(r) \cup {U16(e.seq - r.lowest)}
<1> DEFINE s == r.pending  t == w.pending  D(x) == U16(x.seq - r.lowest)
<1>1. /\ Len(s) \in Nat /\ DOMAIN s = 1 .. Len(s) /\ DOMAIN t = 1 .. Len(s) + 1
      /\ t[Len(s) + 1] = e /\ \A k \in 1 .. Len(s) : t[k] = s[k]
  BY Appended
<1>2. Distances(r) = { D(s[k]) : k \in { j \in DOMAIN s : ~s[j].recovered } }
  BY DEF Distances
<1>3. Distances(w) = { D(t[k]) : k \in { j \in DOMAIN t : ~t[j].recovered } }
  BY DEF Distances
<1> HIDE DEF s, t, D
<1>4. Distances(w) \subseteq Distances(r) \cup {D(e)}
  <2>1. SUFFICES ASSUME NEW k \in DOMAIN t, ~t[k].recovered
                 PROVE  D(t[k]) \in Distances(r) \cup {D(e)}
    BY <1>3
  <2>2. k = Len(s) + 1 \/ k \in 1 .. Len(s)
    BY <1>1
  <2> QED
    BY <1>1, <1>2, <2>1, <2>2
<1>5. D(e) \in Distances(w)
  <2>1. Len(s) + 1 \in DOMAIN t
    BY <1>1
  <2> QED
    BY <1>1, <1>3, <2>1
<1>6. Distances(r) \subseteq Distances(w)
  <2>1. SUFFICES ASSUME NEW k \in DOMAIN s, ~s[k].recovered
                 PROVE  D(s[k]) \in Distances(w)
    BY <1>2
  <2>2. k \in DOMAIN t /\ t[k] = s[k]
    BY <1>1
  <2> QED
    BY <1>3, <2>1, <2>2
<1>7. Distances(w) = Distances(r) \cup {D(e)}
  BY <1>4, <1>5, <1>6
<1> QED
  BY <1>7 DEF D

(* One more distance. *)
LEMMA OneMore ==
  ASSUME NEW n \in Nat, NEW D, D \subseteq 0 .. n, NEW d, d \notin D
  PROVE  Cardinality(D) \in Nat /\ Cardinality(D \cup {d}) = Cardinality(D) + 1
<1>1. IsFiniteSet(0 .. n)
  BY FS_Interval
<1>2. IsFiniteSet(D)
  BY <1>1, FS_Subset
<1> QED
  BY <1>2, FS_CardinalityType, FS_AddElement

(* A packet of the block that was not received before is counted. *)
LEMMA HeardNext ==
  ASSUME NEW r, Shape(r), r.pending # <<>>, NEW h \in Packets, Heard(r, h),
         NEW i \in Packets, SameBlockAs(i, h), Stream[i].index \notin Distances(r),
         NEW cooled
  PROVE  LET w == Counted(Linked(Sequenced(r, Entry(i), cooled), Entry(i)), SeqNumber(i))
             top == IF h < i THEN i ELSE h
         IN /\ Heard(w, top) /\ SameBlockAs(top, h)
            /\ Cardinality(Distances(w)) = Cardinality(Distances(r)) + 1
            /\ Cardinality(Distances(w)) \in Nat
            /\ h < i => w.missingPackets >= r.missingPackets
<1> DEFINE e == Entry(i)
           s == SeqNumber(i)
           w == Counted(Linked(Sequenced(r, e, cooled), e), s)
           top == IF h < i THEN i ELSE h
           x == Stream[i].index
           y == Stream[h].index
           D == Distances(r)
<1>1. e.seq = s /\ e.recovered = FALSE
  BY DEF Entry
<1>2. /\ w.pending = Append(r.pending, e)
      /\ w.useFastQueuePath = IsFast(r, s)
      /\ w.nextContiguous = IF IsFast(r, s) THEN U16(r.nextContiguous + 1) ELSE r.nextContiguous
      /\ w.lowest = r.lowest /\ w.parityPackets = r.parityPackets
      /\ w.missingPackets = IF isBefore16(r.receivedHighest, s)
                            THEN r.missingPackets + U16(s - r.receivedHighest - 1)
                            ELSE r.missingPackets - 1
      /\ w.receivedHighest = IF isBefore16(r.receivedHighest, s) THEN s ELSE r.receivedHighest
      /\ Same(r, w)
  <2>1. IsSeq(r.pending)
    BY DEF Shape
  <2>2. Len(Append(r.pending, e)) # 1
    <3>1. Len(r.pending) \in Nat /\ Len(r.pending) # 0 /\ Len(Append(r.pending, e)) = Len(r.pending) + 1
      BY <2>1, Appended
    <3> QED
      BY <3>1
  <2>3. Queued(r, w, e, cooled)
    <3>1. Queued(r, Counted(Linked(Sequenced(r, e, cooled), e), e.seq), e, cooled)
      <4> HIDE DEF e
      <4> QED
        BY PacketParts
    <3> QED
      BY <1>1, <3>1
  <2> HIDE DEF w
  <2> QED
    BY <1>1, <2>2, <2>3 DEF Queued
<1>3. /\ i - h = x - y /\ i \in Int /\ h \in Int /\ x \in Nat /\ y \in Nat
      /\ Stream[i].data = Stream[h].data /\ Stream[i].parity = Stream[h].parity
      /\ FirstOf(i) = FirstOf(h)
      /\ U16(s - FirstOf(h)) = x
      /\ isBefore16(SeqNumber(h), s) <=> h < i
      /\ h < i => U16(s - SeqNumber(h) - 1) = i - h - 1
      /\ s = U16(h) => i = h + 1
      /\ U16(s + 1) = U16(i)
  BY BlockNumbers, PacketFacts
<1>4. Distances(w) = D \cup {x}
  <2>1. IsSeq(r.pending) /\ r.lowest = FirstOf(h)
    BY DEF Shape, Heard
  <2>2. Distances(w) = D \cup {U16(e.seq - r.lowest)}
    BY <1>1, <1>2, <2>1, AppendedDistances
  <2> QED
    BY <1>1, <1>3, <2>1, <2>2
<1>5. D \subseteq 0 .. y /\ y \in D /\ x \notin D
  BY DEF Heard
<1>6. x # y /\ i # h
  BY <1>3, <1>5
<1>7. Cardinality(D) \in Nat /\ Cardinality(D \cup {x}) = Cardinality(D) + 1
  BY <1>3, <1>5, OneMore
<1>8. r.receivedHighest = SeqNumber(h) /\ r.missingPackets \in Int
      /\ r.missingPackets + Cardinality(D) = y + 1
  BY DEF Heard
<1>9. SameBlockAs(top, h) /\ top \in Packets /\ Stream[top].data = Stream[h].data
      /\ Stream[top].parity = Stream[h].parity /\ FirstOf(top) = FirstOf(h)
  BY <1>3 DEF SameBlockAs
<1>10. /\ w.receivedHighest = SeqNumber(top)
       /\ w.missingPackets \in Int
       /\ w.missingPackets + Cardinality(D) + 1 = Stream[top].index + 1
       /\ D \cup {x} \subseteq 0 .. Stream[top].index /\ Stream[top].index \in D \cup {x}
       /\ h < i => w.missingPackets >= r.missingPackets
  <2> HIDE DEF w, D, x, y, s, e
  <2>1. CASE h < i
    <3>1. w.receivedHighest = s /\ w.missingPackets = r.missingPackets + (i - h - 1)
      BY <1>2, <1>3, <1>8, <2>1
    <3>2. D \cup {x} \subseteq 0 .. x
      BY <1>3, <1>5, <2>1
    <3>3. top = i /\ Stream[top].index = x
      BY <2>1 DEF x
    <3>4. w.missingPackets \in Int /\ w.missingPackets + Cardinality(D) + 1 = x + 1
          /\ w.missingPackets >= r.missingPackets
      BY <1>3, <1>7, <1>8, <2>1, <3>1
    <3> QED
      BY <3>1, <3>2, <3>3, <3>4 DEF s
  <2>2. CASE ~(h < i)
    <3>1. w.receivedHighest = SeqNumber(h) /\ w.missingPackets = r.missingPackets - 1
      BY <1>2, <1>3, <1>8, <2>2
    <3>2. D \cup {x} \subseteq 0 .. y /\ y \in D \cup {x}
      BY <1>3, <1>5, <2>2
    <3>3. top = h /\ Stream[top].index = y
      BY <2>2 DEF y
    <3>4. w.missingPackets \in Int /\ w.missingPackets + Cardinality(D) + 1 = y + 1
      BY <1>7, <1>8, <3>1, <1>3
    <3> QED
      BY <2>2, <3>1, <3>2, <3>3, <3>4
  <2> QED
    BY <2>1, <2>2
<1>11. w.useFastQueuePath => w.nextContiguous = U16(top)
  <2>1. SUFFICES ASSUME IsFast(r, s) PROVE w.nextContiguous = U16(top)
    BY <1>2
  <2>2. s = r.nextContiguous /\ r.nextContiguous = U16(h)
    BY <2>1 DEF IsFast, Heard
  <2>3. i = h + 1 /\ top = i
    BY <1>3, <2>2
  <2> QED
    BY <1>2, <1>3, <2>1, <2>2, <2>3
<1>12. Heard(w, top)
  <2>1. /\ w.currentFrameNumber = r.currentFrameNumber
        /\ w.multiFecCurrentBlockNumber = r.multiFecCurrentBlockNumber
        /\ w.dataPackets = r.dataPackets
    BY <1>2 DEF Same
  <2>2. /\ Stream[h].frame = r.currentFrameNumber /\ Stream[h].block = r.multiFecCurrentBlockNumber
        /\ r.lowest = FirstOf(h) /\ r.dataPackets = Stream[h].data /\ r.parityPackets = Stream[h].parity
    BY DEF Heard
  <2>3. Stream[top].frame = Stream[h].frame /\ Stream[top].block = Stream[h].block
    BY <1>9 DEF SameBlockAs
  <2>4. w.missingPackets + Cardinality(D \cup {x}) = Stream[top].index + 1
    <3> DEFINE c == Cardinality(D)  z == Stream[top].index
    <3>1. c \in Nat /\ w.missingPackets \in Int /\ w.missingPackets + c + 1 = z + 1
          /\ Cardinality(D \cup {x}) = c + 1
      BY <1>7, <1>10
    <3> HIDE DEF c, z, w, D, x, top
    <3> QED
      BY <3>1 DEF z
  <2>5. Distances(w) \subseteq 0 .. Stream[top].index /\ Stream[top].index \in Distances(w)
    BY <1>4, <1>10
  <2>6. w.missingPackets + Cardinality(Distances(w)) = Stream[top].index + 1
    BY <1>4, <2>4
  <2> HIDE DEF w, top, D, x
  <2> QED
    BY <1>2, <1>9, <1>10, <1>11, <2>1, <2>2, <2>3, <2>5, <2>6 DEF Heard
<1>13. Cardinality(Distances(w)) = Cardinality(Distances(r)) + 1 /\ Cardinality(Distances(w)) \in Nat
  BY <1>4, <1>7
<1> QED
  BY <1>9, <1>10, <1>12, <1>13

(* The first packet of a block begins the count. *)
LEMMA FirstIsExact ==
  ASSUME Shape(queue), Exact(queue), NEW i \in Packets, NEW cooled \in BOOLEAN,
         NeedsRestart(queue, Stream[i])
  PROVE  Exact(WithPacket(queue, i, cooled))
<1> DEFINE r == Restarted(queue, i)
           e == Entry(i)
           w == WithPacket(queue, i, cooled)
           x == Stream[i].index
<1>1. /\ e.seq = SeqNumber(i) /\ e.recovered = FALSE /\ e.frame = Stream[i].frame
      /\ x \in Nat /\ SeqNumber(i) \in 0 .. SeqModulus - 1
      /\ SameBlockAs(i, i)
  BY PacketFacts DEF Entry, SameBlockAs
<1>2. U16(SeqNumber(i) - FirstOf(i)) = x /\ U16(SeqNumber(i) + 1) = U16(i)
  BY <1>1, BlockNumbers
<1>3. /\ Shape(r)
      /\ r.currentFrameNumber = Stream[i].frame /\ r.multiFecCurrentBlockNumber = Stream[i].block
      /\ r.reportedLostFrame = FALSE
  BY RestartedShape
<1>4. /\ r.pending = <<>> /\ r.lowest = FirstOf(i) /\ r.nextContiguous = FirstOf(i)
      /\ r.dataPackets = Stream[i].data /\ r.parityPackets = Stream[i].parity
      /\ r.missingPackets = 0 /\ r.useFastQueuePath = TRUE
      /\ r.receivedOosData \in BOOLEAN
  BY RestartedParts DEF Exact
<1>5. Queued(r, w, e, cooled)
  <2>1. Queued(r, Counted(Linked(Sequenced(r, e, cooled), e), e.seq), e, cooled)
    <3> HIDE DEF e, r
    <3> QED
      BY <1>3, PacketParts
  <2> QED
    BY <1>1, <2>1 DEF WithPacket, Ready
<1> HIDE DEF w, r, e
<1>6. /\ IsSeq(r.pending) /\ Len(Append(r.pending, e)) = 1
      /\ Append(r.pending, e)[1] = e
  <2>1. IsSeq(r.pending) /\ Len(r.pending) = 0
    BY <1>3, <1>4 DEF Shape
  <2> QED
    BY <2>1, Appended
<1>7. Distances(w) = {x} /\ Cardinality(Distances(w)) = 1
  <2>1. Distances(w) = Distances(r) \cup {U16(e.seq - r.lowest)}
    BY <1>1, <1>5, <1>6, AppendedDistances DEF Queued
  <2>2. Distances(r) = {}
    BY <1>4 DEF Distances
  <2>3. {} \subseteq 0 .. x /\ x \notin {}
    OBVIOUS
  <2>4. Cardinality({} \cup {x}) = Cardinality({}) + 1
    BY <1>1, <2>3, OneMore
  <2>5. Cardinality({}) = 0
    BY FS_EmptySet
  <2>6. Cardinality({x}) = 1
    <3>1. {} \cup {x} = {x}
      OBVIOUS
    <3> HIDE DEF x
    <3> QED
      BY <2>4, <2>5, <3>1
  <2>7. Distances(w) = {x}
    <3>1. U16(e.seq - r.lowest) = x
      BY <1>1, <1>2, <1>4
    <3> HIDE DEF x
    <3> QED
      BY <2>1, <2>2, <3>1
  <2> QED
    BY <2>6, <2>7
<1>8. Entries(w)
  <2>1. w.pending = Append(r.pending, e) /\ w.currentFrameNumber = Stream[i].frame
    BY <1>3, <1>5 DEF Queued, Same
  <2>2. SUFFICES ASSUME NEW k \in 1 .. Len(w.pending)
                 PROVE  /\ w.pending[k].frame = w.currentFrameNumber
                        /\ w.pending[k].recovered \in BOOLEAN
                        /\ ~w.pending[k].recovered => w.pending[k].seq \in 0 .. SeqModulus - 1
    BY DEF Entries
  <2>3. Len(w.pending) = 1 /\ w.pending[1] = e
    BY <1>6, <2>1
  <2>4. k = 1
    BY <2>3
  <2> QED
    BY <1>1, <2>1, <2>3, <2>4
<1>9. Heard(w, i)
  <2>1. w.missingPackets = x
    BY <1>1, <1>2, <1>4, <1>5, <1>6 DEF Queued
  <2>2. w.receivedHighest = SeqNumber(i)
    BY <1>1, <1>5, <1>6 DEF Queued
  <2>3. w.useFastQueuePath => w.nextContiguous = U16(i)
    BY <1>1, <1>2, <1>4, <1>5 DEF Queued, IsFast
  <2>4. w.missingPackets + Cardinality(Distances(w)) = Stream[i].index + 1
    BY <1>1, <1>7, <2>1
  <2> QED
    BY <1>1, <1>3, <1>4, <1>5, <1>7, <2>1, <2>2, <2>3, <2>4 DEF Queued, Same, Heard
<1>10. Justified(w)
  BY <1>3, <1>5, <1>6, <1>7 DEF Justified, Queued, Same
<1>11. w.useFastQueuePath \in BOOLEAN /\ w.receivedOosData \in BOOLEAN
  BY <1>4, <1>5 DEF Queued, IsFast
<1> QED
  BY <1>8, <1>9, <1>10, <1>11 DEF Exact, w

(* A packet that is not a duplicate is at a new distance. *)
LEMMA NewDistance ==
  ASSUME NEW q, Shape(q), Entries(q), NEW h \in Packets, Heard(q, h),
         NEW i \in Packets, SameBlockAs(i, h), ~IsDuplicate(q, SeqNumber(i))
  PROVE  Stream[i].index \notin Distances(q)
<1> DEFINE s == SeqNumber(i)
           x == Stream[i].index
<1>1. /\ U16(s - FirstOf(h)) = x /\ (s = U16(h) => i = h + 1)
      /\ i - h = x - Stream[h].index
  BY BlockNumbers
<1>2. q.lowest = FirstOf(h) /\ FirstOf(h) \in Int /\ s \in 0 .. SeqModulus - 1 /\ h \in Int
      /\ x \in Nat /\ Stream[h].index \in Nat
  BY PacketFacts DEF Heard
<1>3. CASE IsFast(q, s)
  <2>1. i = h + 1
    BY <1>1, <1>3 DEF IsFast, Heard
  <2>2. x = Stream[h].index + 1
    BY <1>1, <1>2, <2>1
  <2>3. Distances(q) \subseteq 0 .. Stream[h].index
    BY DEF Heard
  <2> QED
    BY <1>2, <2>2, <2>3
<1>4. CASE ~IsFast(q, s)
  <2>1. SUFFICES ASSUME NEW k \in DOMAIN q.pending, ~q.pending[k].recovered,
                        x = U16(q.pending[k].seq - q.lowest)
                 PROVE  FALSE
    BY DEF Distances
  <2>2. k \in 1 .. Len(q.pending)
    BY Appended DEF Shape
  <2>3. q.pending[k].seq \in 0 .. SeqModulus - 1
    BY <2>1, <2>2 DEF Entries
  <2>4. q.pending[k].seq = s
    BY <1>1, <1>2, <2>1, <2>3, SameDistance
  <2> QED
    BY <1>4, <2>4 DEF IsDuplicate
<1> QED
  BY <1>3, <1>4

(* A packet that is in sequence is beyond the highest one. *)
LEMMA InSequence ==
  ASSUME NEW q, Shape(q), Entries(q), NEW h \in Packets, Heard(q, h),
         NEW i \in Packets, SameBlockAs(i, h), Stream[i].index \notin Distances(q),
         ~IsOutOfSequence(q, SeqNumber(i))
  PROVE  h < i
<1> DEFINE s == SeqNumber(i)
<1>1. /\ (s = U16(h) => i = h + 1)
      /\ i - h = Stream[i].index - Stream[h].index
  BY BlockNumbers
<1>2. /\ q.lowest = FirstOf(h) /\ FirstOf(h) \in Int
      /\ i \in Int /\ h \in Int /\ Stream[i].index \in Nat /\ Stream[h].index \in Nat
      /\ SeqNumber(h) \in 0 .. SeqModulus - 1
  BY PacketFacts DEF Heard
<1>3. CASE IsFast(q, s)
  <2>1. i = h + 1
    BY <1>1, <1>3 DEF IsFast, Heard
  <2> QED
    BY <1>2, <2>1
<1>4. CASE ~IsFast(q, s)
  <2>1. Stream[h].index \in Distances(q)
    BY DEF Heard
  <2>2. PICK k \in DOMAIN q.pending :
          ~q.pending[k].recovered /\ Stream[h].index = U16(q.pending[k].seq - q.lowest)
    BY <2>1 DEF Distances
  <2>3. k \in 1 .. Len(q.pending)
    BY Appended DEF Shape
  <2>4. q.pending[k].seq \in 0 .. SeqModulus - 1
    BY <2>2, <2>3 DEF Entries
  <2>5. SameBlockAs(h, h) /\ SameBlockAs(h, i)
    BY DEF SameBlockAs
  <2>6. U16(SeqNumber(h) - FirstOf(h)) = Stream[h].index
    BY <2>5, BlockNumbers
  <2>7. q.pending[k].seq = SeqNumber(h)
    BY <1>2, <2>2, <2>4, <2>6, SameDistance
  <2>8. ~isBefore16(s, SeqNumber(h))
    BY <1>4, <2>7 DEF IsOutOfSequence
  <2>9. isBefore16(s, SeqNumber(h)) <=> i < h
    BY <2>5, BlockNumbers
  <2>10. Stream[i].index # Stream[h].index
    BY <2>1
  <2> QED
    BY <1>1, <1>2, <2>8, <2>9, <2>10
<1> QED
  BY <1>3, <1>4

(* Nor does another packet of the block spoil it. *)
LEMMA NextIsExact ==
  ASSUME Shape(queue), Exact(queue), NEW i \in Packets, NEW cooled \in BOOLEAN,
         Accepts(i), ~NeedsRestart(queue, Stream[i])
  PROVE  Exact(WithPacket(queue, i, cooled))
<1> DEFINE q == queue
           e == Entry(i)
           s == SeqNumber(i)
           w == WithPacket(queue, i, cooled)
           D == Distances(q)
<1>1. /\ e.seq = s /\ e.recovered = FALSE /\ e.frame = Stream[i].frame
      /\ s \in 0 .. SeqModulus - 1
  BY PacketFacts DEF Entry
<1>2. /\ q.pending # <<>> /\ SameBlock(q, Stream[i]) /\ ~IsDuplicate(q, s)
  BY DEF Accepts, NeedsRestart, Ready
<1>3. Entries(q) /\ Justified(q) /\ q.useFastQueuePath \in BOOLEAN /\ q.receivedOosData \in BOOLEAN
  BY <1>2 DEF Exact
<1>4. PICK h \in Packets : Heard(q, h)
  BY <1>2 DEF Exact
<1>5. SameBlockAs(i, h) /\ Stream[i].frame = q.currentFrameNumber
  BY <1>2, <1>4 DEF SameBlock, SameBlockAs, Heard
<1>6. Stream[i].index \notin D
  BY <1>2, <1>3, <1>4, <1>5, NewDistance
<1> DEFINE top == IF h < i THEN i ELSE h
<1>7. w = Counted(Linked(Sequenced(q, e, cooled), e), s)
  BY <1>2 DEF WithPacket, Ready, NeedsRestart
<1>8. Queued(q, w, e, cooled)
  <2>1. Queued(q, Counted(Linked(Sequenced(q, e, cooled), e), e.seq), e, cooled)
    <3> HIDE DEF e
    <3> QED
      BY PacketParts
  <2> QED
    BY <1>1, <1>7, <2>1
<1>9. /\ Heard(w, top) /\ SameBlockAs(top, h) /\ top \in Packets
      /\ Cardinality(Distances(w)) = Cardinality(D) + 1
      /\ Cardinality(Distances(w)) \in Nat
      /\ h < i => w.missingPackets >= q.missingPackets
  <2>1. /\ Heard(Counted(Linked(Sequenced(q, e, cooled), e), s), top) /\ SameBlockAs(top, h)
        /\ Cardinality(Distances(Counted(Linked(Sequenced(q, e, cooled), e), s))) = Cardinality(D) + 1
        /\ Cardinality(Distances(Counted(Linked(Sequenced(q, e, cooled), e), s))) \in Nat
        /\ h < i => Counted(Linked(Sequenced(q, e, cooled), e), s).missingPackets >= q.missingPackets
    BY <1>2, <1>4, <1>5, <1>6, HeardNext
  <2> HIDE DEF w
  <2> QED
    BY <1>7, <2>1
<1>10. /\ IsSeq(q.pending) /\ Len(q.pending) \in Nat /\ Len(w.pending) = Len(q.pending) + 1
       /\ w.pending[Len(q.pending) + 1] = e
       /\ \A k \in 1 .. Len(q.pending) : w.pending[k] = q.pending[k]
  <2>1. IsSeq(q.pending) /\ w.pending = Append(q.pending, e)
    BY <1>8 DEF Shape, Queued
  <2> QED
    BY <2>1, Appended
<1> HIDE DEF w, e, q
<1>11. Entries(w)
  <2>1. SUFFICES ASSUME NEW k \in 1 .. Len(w.pending)
                 PROVE  /\ w.pending[k].frame = w.currentFrameNumber
                        /\ w.pending[k].recovered \in BOOLEAN
                        /\ ~w.pending[k].recovered => w.pending[k].seq \in 0 .. SeqModulus - 1
    BY DEF Entries
  <2>2. w.currentFrameNumber = q.currentFrameNumber
    BY <1>8 DEF Queued, Same
  <2>3. k \in 1 .. Len(q.pending) \/ k = Len(q.pending) + 1
    BY <1>10
  <2>4. CASE k \in 1 .. Len(q.pending)
    BY <1>3, <1>10, <2>2, <2>4 DEF Entries
  <2>5. CASE k = Len(q.pending) + 1
    BY <1>1, <1>5, <1>10, <2>2, <2>5
  <2> QED
    BY <2>3, <2>4, <2>5
<1>12. Justified(w)
  <2>1. /\ w.dataPackets = q.dataPackets /\ w.parityPackets = q.parityPackets
        /\ w.reportedLostFrame = q.reportedLostFrame
        /\ w.currentFrameNumber = q.currentFrameNumber
    BY <1>8 DEF Queued, Same
  <2>2. /\ q.dataPackets \in Nat /\ q.parityPackets \in Nat /\ q.missingPackets \in Int
        /\ q.reportedLostFrame \in BOOLEAN /\ q.currentFrameNumber \in Nat
        /\ q.dataPackets = Stream[h].data /\ q.parityPackets = Stream[h].parity
    BY <1>4, PacketFacts DEF Heard, Shape, q
  <2>3. Cardinality(D) \in Nat
    <3>1. D \subseteq 0 .. Stream[h].index /\ Stream[h].index \in Nat
      BY <1>4, PacketFacts DEF Heard
    <3> HIDE DEF D
    <3> QED
      BY <1>6, <3>1, OneMore
  <2>4. Len(w.pending) < w.dataPackets => Len(w.pending) = Cardinality(Distances(w))
    <3> DEFINE c == Cardinality(D)  cw == Cardinality(Distances(w))  n == Len(q.pending)  m == Len(w.pending)
    <3>1. n < q.dataPackets => n = c
      BY <1>3 DEF Justified
    <3>2. cw = c + 1 /\ m = n + 1 /\ c \in Nat /\ n \in Nat
      BY <1>9, <1>10, <2>3
    <3> HIDE DEF c, cw, n, m
    <3>3. m < w.dataPackets => m = cw
      BY <2>1, <2>2, <3>1, <3>2
    <3> QED
      BY <3>3 DEF c, cw, n, m
  <2>5. ASSUME w.reportedLostFrame, w.receivedOosData
        PROVE  w.lastOosFrame = w.currentFrameNumber
    <3>1. CASE IsOutOfSequence(q, s)
      BY <1>1, <1>5, <1>8, <2>1, <3>1 DEF Queued
    <3>2. CASE ~IsOutOfSequence(q, s)
      <4>1. q.receivedOosData /\ w.lastOosFrame = q.lastOosFrame
        BY <1>1, <1>8, <2>5, <3>2 DEF Queued
      <4> QED
        BY <1>3, <2>1, <2>5, <4>1 DEF Justified
    <3> QED
      BY <3>1, <3>2
  <2>6. ASSUME w.reportedLostFrame, ~w.receivedOosData
        PROVE  w.missingPackets > w.parityPackets /\ Len(w.pending) < w.dataPackets
    <3>1. ~IsOutOfSequence(q, s)
      BY <1>1, <1>8, <2>6 DEF Queued
    <3>2. ~q.receivedOosData
      <4>1. SUFFICES ASSUME q.receivedOosData PROVE FALSE
        OBVIOUS
      <4>2. q.lastOosFrame = q.currentFrameNumber
        BY <1>3, <2>1, <2>6, <4>1 DEF Justified
      <4>3. ~(q.lastOosFrame < e.frame)
        BY <1>1, <1>5, <2>2, <4>2
      <4> QED
        BY <1>1, <1>8, <2>6, <3>1, <4>1, <4>3 DEF Queued
    <3>3. q.missingPackets > q.parityPackets /\ Len(q.pending) < q.dataPackets
      BY <1>3, <2>1, <2>6, <3>2 DEF Justified
    <3>4. h < i
      BY <1>3, <1>4, <1>5, <1>6, <3>1, InSequence DEF q
    <3>5. w.missingPackets >= q.missingPackets /\ w.missingPackets \in Int
      BY <1>9, <3>4 DEF Heard
    <3>6. w.missingPackets > w.parityPackets
      BY <2>1, <2>2, <3>3, <3>5
    <3>7. /\ w.missingPackets + Cardinality(Distances(w)) = Stream[top].index + 1
          /\ Stream[top].index < q.dataPackets + q.parityPackets
          /\ Stream[top].index \in Nat
      <4>1. /\ Stream[top].data = Stream[h].data /\ Stream[top].parity = Stream[h].parity
        BY <1>9, BlockNumbers
      <4>2. Stream[top].index \in Nat /\ Stream[top].index < Stream[top].data + Stream[top].parity
        BY <1>9, PacketFacts
      <4> QED
        BY <1>9, <2>2, <4>1, <4>2 DEF Heard
    <3>8. Len(w.pending) = Cardinality(Distances(w))
      <4> DEFINE c == Cardinality(D)  cw == Cardinality(Distances(w))  n == Len(q.pending)  m == Len(w.pending)
      <4>1. n = c /\ cw = c + 1 /\ m = n + 1
        BY <1>3, <1>9, <1>10, <3>3 DEF Justified
      <4> HIDE DEF c, cw, n, m
      <4>2. m = cw
        BY <4>1
      <4> QED
        BY <4>2 DEF cw, m
    <3>9. Len(w.pending) < w.dataPackets
      <4> DEFINE cw == Cardinality(Distances(w))  y == Stream[top].index  m == Len(w.pending)
      <4>1. /\ w.missingPackets + cw = y + 1 /\ y < q.dataPackets + q.parityPackets /\ y \in Nat
            /\ m = cw /\ cw \in Nat
        BY <1>9, <3>7, <3>8
      <4> HIDE DEF cw, y, m, top
      <4>2. m < w.dataPackets
        BY <2>1, <2>2, <3>5, <3>6, <4>1
      <4> QED
        BY <4>2 DEF m
    <3> QED
      BY <3>6, <3>9
  <2> QED
    BY <2>4, <2>5, <2>6 DEF Justified
<1>13. w.useFastQueuePath \in BOOLEAN /\ w.receivedOosData \in BOOLEAN
  BY <1>3, <1>8 DEF Queued, IsFast
<1> QED
  BY <1>9, <1>11, <1>12, <1>13 DEF Exact, w

(* So the queue with packet i in it. *)
LEMMA PacketIsExact ==
  ASSUME Shape(queue), Exact(queue), NEW i \in Packets, NEW cooled \in BOOLEAN, Accepts(i)
  PROVE  LET w == WithPacket(queue, i, cooled) IN
         Exact(w) /\ Shape(w) /\ w.pending # <<>>
<1>1. Exact(WithPacket(queue, i, cooled))
  BY FirstIsExact, NextIsExact
<1>2. Shape(WithPacket(queue, i, cooled)) /\ WithPacket(queue, i, cooled).pending # <<>>
  BY PacketQueued
<1> QED
  BY <1>1, <1>2

(* Admitting that a prediction was wrong, and a recovery that failed, do not matter. *)
LEMMA FailedIsExact ==
  ASSUME NEW w, Shape(w), Exact(w), w.pending # <<>>, HasEnough(w), NEW upTo
  PROVE  Exact(WithRecovered(Admitted(w), upTo))
<1> DEFINE a == Admitted(w)
           more == { i \in Lacking(a) : i < upTo }
           inOrder == SetToSortSeq(more, <)
           t == [k \in 1 .. Cardinality(more) |-> Recovered(a, inOrder[k])]
           v == WithRecovered(a, upTo)
<1>1. /\ Shape(a) /\ Same(w, a) /\ a.pending = w.pending
      /\ a.lowest = w.lowest /\ a.receivedHighest = w.receivedHighest
      /\ a.parityPackets = w.parityPackets /\ a.nextContiguous = w.nextContiguous
      /\ a.missingPackets = w.missingPackets /\ a.useFastQueuePath = w.useFastQueuePath
      /\ a.receivedOosData = IF w.reportedLostFrame /\ ~w.receivedOosData THEN TRUE ELSE w.receivedOosData
      /\ a.lastOosFrame = IF w.reportedLostFrame /\ ~w.receivedOosData
                          THEN Head(w.pending).frame ELSE w.lastOosFrame
  <2>1. Shape(a) /\ Same(w, a) /\ a.pending = w.pending
    BY AdmittedShape
  <2> QED
    BY <2>1 DEF Shape, Admitted, Fields
<1>2. Cardinality(more) \in Nat
  <2>1. more \subseteq 0 .. a.dataPackets - 1
    BY DEF Lacking
  <2>2. a.dataPackets - 1 \in Int
    BY <1>1 DEF Shape
  <2>3. IsFiniteSet(0 .. a.dataPackets - 1)
    BY <2>2, FS_Interval
  <2> QED
    BY <2>1, <2>3, FS_Subset, FS_CardinalityType
<1> HIDE DEF a
<1>3. /\ Shape(v) /\ Same(a, v) /\ v.pending = a.pending \o t
      /\ v.lowest = a.lowest /\ v.receivedHighest = a.receivedHighest
      /\ v.parityPackets = a.parityPackets /\ v.nextContiguous = a.nextContiguous
      /\ v.missingPackets = a.missingPackets
      /\ v.useFastQueuePath = (a.useFastQueuePath /\ more = {})
      /\ v.receivedOosData = a.receivedOosData /\ v.lastOosFrame = a.lastOosFrame
  <2>1. Shape(v) /\ Same(a, v)
    BY <1>1, RecoveredShape
  <2>2. v = [a EXCEPT !.pending = @ \o t, !.useFastQueuePath = @ /\ more = {}]
    BY DEF WithRecovered
  <2> HIDE DEF v, t, more
  <2> QED
    BY <1>1, <2>1, <2>2 DEF Shape, Fields
<1>4. /\ Len(t) = Cardinality(more) /\ IsSeq(t)
      /\ \A k \in 1 .. Len(t) : t[k].recovered = TRUE /\ t[k].frame = a.currentFrameNumber
  <2>1. /\ t \in Seq({ t[k] : k \in 1 .. Cardinality(more) }) /\ Len(t) = Cardinality(more)
    <3> HIDE DEF more, inOrder
    <3> QED
      BY <1>2
  <2>2. IsSeq(t)
    <3> HIDE DEF t
    <3> QED
      BY <2>1, SeqIsSeq
  <2>3. ASSUME NEW k \in 1 .. Len(t) PROVE t[k].recovered = TRUE /\ t[k].frame = a.currentFrameNumber
    <3>1. k \in 1 .. Cardinality(more)
      BY <2>1, <2>3
    <3>2. t[k] = Recovered(a, inOrder[k])
      BY <3>1
    <3>3. \A x : Recovered(a, x).recovered = TRUE /\ Recovered(a, x).frame = a.currentFrameNumber
      BY DEF Recovered
    <3> HIDE DEF t, inOrder
    <3> QED
      BY <3>2, <3>3
  <2> QED
    BY <2>1, <2>2, <2>3
<1> HIDE DEF t, more, inOrder, v
<1>5. /\ Len(w.pending) \in Nat /\ Len(v.pending) = Len(w.pending) + Len(t) /\ Len(t) \in Nat
      /\ DOMAIN w.pending = 1 .. Len(w.pending) /\ DOMAIN v.pending = 1 .. Len(w.pending) + Len(t)
      /\ \A k \in 1 .. Len(w.pending) : v.pending[k] = w.pending[k]
      /\ \A k \in 1 .. Len(v.pending) : k \notin 1 .. Len(w.pending) =>
           v.pending[k].recovered = TRUE /\ v.pending[k].frame = a.currentFrameNumber
  <2> DEFINE s == w.pending
             S == { s[k] : k \in 1 .. Len(s) } \cup { t[k] : k \in 1 .. Len(t) }
  <2>1. s \in Seq(S) /\ t \in Seq(S) /\ v.pending = s \o t
    <3>1. IsSeq(s) /\ v.pending = s \o t
      BY <1>1, <1>3 DEF Shape
    <3>2. \A A, B, x : x \in Seq(A) => x \in Seq(A \cup B) /\ x \in Seq(B \cup A)
      OBVIOUS
    <3> HIDE DEF s
    <3> QED
      BY <1>4, <3>1, <3>2 DEF IsSeq
  <2> HIDE DEF s, S
  <2>2. /\ s \o t \in Seq(S) /\ Len(s \o t) = Len(s) + Len(t)
        /\ \A k \in 1 .. Len(s) + Len(t) : (s \o t)[k] = IF k <= Len(s) THEN s[k] ELSE t[k - Len(s)]
    BY <2>1, ConcatProperties
  <2>3. Len(s) \in Nat /\ Len(t) \in Nat /\ DOMAIN s = 1 .. Len(s) /\ DOMAIN (s \o t) = 1 .. Len(s) + Len(t)
    BY <2>1, <2>2, LenProperties
  <2>4. ASSUME NEW k \in 1 .. Len(s) PROVE (s \o t)[k] = s[k]
    BY <2>2, <2>3, <2>4
  <2>5. ASSUME NEW k \in 1 .. Len(s) + Len(t), k \notin 1 .. Len(s)
        PROVE  (s \o t)[k].recovered = TRUE /\ (s \o t)[k].frame = a.currentFrameNumber
    <3>1. k - Len(s) \in 1 .. Len(t) /\ ~(k <= Len(s))
      BY <2>3, <2>5
    <3> QED
      BY <1>4, <2>2, <2>5, <3>1
  <2> QED
    BY <2>1, <2>2, <2>3, <2>4, <2>5 DEF s
<1>6. Distances(v) = Distances(w)
  <2> DEFINE D(x) == U16(x.seq - w.lowest)
             s == w.pending
             u == v.pending
  <2>1. Distances(w) = { D(s[k]) : k \in { j \in DOMAIN s : ~s[j].recovered } }
    BY DEF Distances
  <2>2. Distances(v) = { D(u[k]) : k \in { j \in DOMAIN u : ~u[j].recovered } }
    BY <1>1, <1>3 DEF Distances
  <2>3. { j \in DOMAIN u : ~u[j].recovered } = { j \in DOMAIN s : ~s[j].recovered }
    BY <1>5
  <2>4. \A k \in DOMAIN s : u[k] = s[k]
    BY <1>5
  <2> HIDE DEF D, u, s
  <2> QED
    BY <2>1, <2>2, <2>3, <2>4
<1>7. Entries(w) /\ Justified(w)
  BY DEF Exact
<1>8. Entries(v)
  BY <1>1, <1>3, <1>5, <1>7 DEF Entries, Same
<1>9. ASSUME NEW h \in Packets, Heard(w, h) PROVE Heard(v, h)
  BY <1>1, <1>3, <1>6, <1>9 DEF Heard, Same
<1>10. Justified(v)
  <2>1. w.dataPackets \in Nat /\ v.dataPackets = w.dataPackets /\ Len(w.pending) >= w.dataPackets
        /\ v.reportedLostFrame = w.reportedLostFrame /\ v.currentFrameNumber = w.currentFrameNumber
    BY <1>1, <1>3 DEF Shape, Same, HasEnough
  <2>2. ~(Len(v.pending) < v.dataPackets)
    BY <1>5, <2>1
  <2>3. v.reportedLostFrame => v.receivedOosData
    BY <1>1, <1>3, <2>1
  <2>4. v.reportedLostFrame => v.lastOosFrame = v.currentFrameNumber
    <3>1. Head(w.pending).frame = w.currentFrameNumber
      <4>1. IsSeq(w.pending) /\ Len(w.pending) # 0
        BY Appended DEF Shape
      <4>2. Head(w.pending) = w.pending[1] /\ 1 \in 1 .. Len(w.pending)
        BY <1>5, <4>1 
      <4> QED
        BY <1>7, <4>2 DEF Entries
    <3> QED
      BY <1>1, <1>3, <1>7, <2>1, <3>1 DEF Justified
  <2> QED
    BY <2>2, <2>3, <2>4 DEF Justified
<1>11. v.useFastQueuePath \in BOOLEAN /\ v.receivedOosData \in BOOLEAN
  BY <1>1, <1>3 DEF Exact
<1>12. Exact(v)
  BY <1>8, <1>9, <1>10, <1>11 DEF Exact
<1> QED
  BY <1>12 DEF v, a

(* Every call of RtpvAddPacket keeps the count exact. *)
LEMMA StaysExact ==
  ASSUME Shape(queue), Exact(queue), Next
  PROVE  Exact(queue')
<1>1. PICK i \in Packets : RtpvAddPacket(i)
  BY DEF Next
<1>2. CASE Reject(i) \/ RejectDuplicate(i)
  BY <1>2 DEF Reject, RejectDuplicate
<1>3. CASE LoseBlock(i) \/ LoseFirstBlock(i)
  <2>1. PICK n : queue' = GivenUp(queue, n)
    BY <1>3 DEF LoseBlock, LoseFirstBlock
  <2>2. /\ queue'.pending = <<>> /\ queue'.useFastQueuePath = queue.useFastQueuePath
        /\ queue'.receivedOosData = queue.receivedOosData
    BY <2>1 DEF GivenUp, Shape, Fields
  <2> QED
    BY <2>2 DEF Exact
<1>4. ASSUME NEW cooled \in BOOLEAN, Accepted(i, cooled)
      PROVE  Exact(queue')
  <2> DEFINE w == WithPacket(queue, i, cooled)
  <2>1. Accepts(i)
    BY <1>4 DEF Accepted, QueuePacket, FailRecovery, CompleteBlock, CompleteFrame
  <2>2. Exact(w) /\ Shape(w) /\ w.pending # <<>>
    BY <2>1, PacketIsExact
  <2>3. CASE QueuePacket(i, cooled)
    <3>1. ~HasEnough(w) /\ queue' = [w EXCEPT !.reportedLostFrame = @ \/ PredictsLoss(w)]
      BY <2>3 DEF QueuePacket
    <3> HIDE DEF w
    <3> DEFINE v == queue'
    <3>2. /\ v = [f \in Fields |-> v[f]]
          /\ \A f \in Fields \ {"reportedLostFrame"} : v[f] = w[f]
          /\ v.reportedLostFrame = (w.reportedLostFrame \/ PredictsLoss(w))
      BY <2>2, <3>1 DEF Shape, Fields
    <3> HIDE DEF v
    <3>3. /\ v.pending = w.pending /\ v.lowest = w.lowest /\ v.receivedHighest = w.receivedHighest
          /\ v.dataPackets = w.dataPackets /\ v.parityPackets = w.parityPackets
          /\ v.nextContiguous = w.nextContiguous /\ v.missingPackets = w.missingPackets
          /\ v.useFastQueuePath = w.useFastQueuePath /\ v.receivedOosData = w.receivedOosData
          /\ v.lastOosFrame = w.lastOosFrame /\ v.currentFrameNumber = w.currentFrameNumber
          /\ v.multiFecCurrentBlockNumber = w.multiFecCurrentBlockNumber
      BY <3>2 DEF Fields
    <3>4. Distances(v) = Distances(w)
      BY <3>3 DEF Distances
    <3>5. Entries(w) /\ Justified(w) /\ \E h \in Packets : Heard(w, h)
      BY <2>2 DEF Exact
    <3>6. Entries(v)
      BY <3>3, <3>5 DEF Entries
    <3>7. \E h \in Packets : Heard(v, h)
      BY <3>3, <3>4, <3>5 DEF Heard
    <3>8. Len(w.pending) \in Nat /\ w.dataPackets \in Nat
      BY <2>2, Appended DEF Shape
    <3>9. Len(w.pending) < w.dataPackets
      BY <3>1, <3>8 DEF HasEnough
    <3>10. Justified(v)
      BY <3>2, <3>3, <3>4, <3>5, <3>9 DEF Justified, PredictsLoss
    <3>11. Exact(v)
      BY <2>2, <3>3, <3>6, <3>7, <3>10 DEF Exact
    <3> QED
      BY <3>11 DEF v
  <2>4. CASE FailRecovery(i, cooled)
    <3>1. HasEnough(w) /\ \E upTo : queue' = WithRecovered(Admitted(w), upTo)
      BY <2>4 DEF FailRecovery
    <3> HIDE DEF w
    <3> QED
      BY <2>2, <3>1, FailedIsExact
  <2>5. CASE CompleteBlock(i, cooled) \/ CompleteFrame(i, cooled)
    <3> DEFINE v == WithRecovered(Admitted(w), w.dataPackets)
               r == Staged(v)
    <3>1. HasEnough(w)
      BY <2>5 DEF CompleteBlock, CompleteFrame
    <3>2. \/ queue' = [r EXCEPT !.multiFecCurrentBlockNumber = @ + 1]
          \/ queue' = [r EXCEPT !.completed = <<>>, !.currentFrameNumber = @ + 1,
                                !.multiFecCurrentBlockNumber = 0]
      BY <2>5 DEF CompleteBlock, CompleteFrame
    <3> HIDE DEF w
    <3>3. Exact(v) /\ Shape(v)
      BY <2>2, <3>1, FailedIsExact, AdmittedShape, RecoveredShape
    <3> HIDE DEF v
    <3>4. /\ r.pending = <<>> /\ r.useFastQueuePath = v.useFastQueuePath
          /\ r.receivedOosData = v.receivedOosData /\ Shape(r)
      <4>1. Shape(r)
        BY <3>3, StagedShape
      <4> QED
        BY <3>3, <4>1 DEF Staged, Shape, Fields
    <3> HIDE DEF r
    <3>5. /\ queue'.pending = <<>> /\ queue'.useFastQueuePath = v.useFastQueuePath
          /\ queue'.receivedOosData = v.receivedOosData
      BY <3>2, <3>4 DEF Shape, Fields
    <3> QED
      BY <3>3, <3>5 DEF Exact
  <2> QED
    BY <1>4, <2>3, <2>4, <2>5 DEF Accepted
<1> QED
  BY <1>1, <1>2, <1>3, <1>4 DEF RtpvAddPacket, Accepted

(* So the count stays exact, whatever is late, repeated, lost or recovered. *)
LEMMA CountIsKept == Spec => [](Shape(queue) /\ Exact(queue))
<1>1. Init => Shape(queue) /\ Exact(queue)
  <2>1. Init => Exact(queue)
    BY DEF Init, Exact
  <2> QED
    BY <2>1, InitShape
<1>2. Shape(queue) /\ Exact(queue) /\ [Next]_vars => Shape(queue)' /\ Exact(queue)'
  <2>1. ASSUME UNCHANGED vars PROVE queue' = queue
    BY <2>1 DEF vars
  <2>2. ASSUME Shape(queue), Exact(queue), Next
        PROVE  Shape(queue)' /\ Exact(queue)'
    <3>1. Shape(queue') /\ Exact(queue')
      BY <2>2, Steps, StaysExact
    <3> QED
      BY <3>1
  <2> QED
    BY <2>1, <2>2
<1> QED
  BY <1>1, <1>2, PTL DEF Spec

(* RtpvAddPacket: missingPackets is exactly the number of packets below the *)
(* highest one of the block that were not received, also where the sequence *)
(* numbers wrap; it never goes below zero (its assertion).                  *)
THEOREM CountsMissing == Spec => []MissingIsExact
<1>1. Shape(queue) /\ Exact(queue) => MissingIsExact
  <2>1. SUFFICES ASSUME Shape(queue), Exact(queue), queue.pending # <<>>
                 PROVE  LET got == Distances(queue)
                            highest == U16(queue.receivedHighest - queue.lowest)
                        IN /\ \A d \in got : d <= highest
                           /\ queue.missingPackets = highest + 1 - Cardinality(got)
    BY DEF MissingIsExact
  <2>2. PICK h \in Packets : Heard(queue, h)
    BY <2>1 DEF Exact
  <2> DEFINE got == Distances(queue)  y == Stream[h].index
  <2>3. U16(queue.receivedHighest - queue.lowest) = y
    <3>1. SameBlockAs(h, h)
      BY DEF SameBlockAs
    <3> QED
      BY <2>2, <3>1, BlockNumbers DEF Heard
  <2>4. y \in Nat /\ got \subseteq 0 .. y /\ queue.missingPackets \in Int
        /\ queue.missingPackets + Cardinality(got) = y + 1
    BY <2>2, PacketFacts DEF Heard
  <2>5. Cardinality(got) \in Nat
    <3> HIDE DEF got, y
    <3>1. IsFiniteSet(0 .. y)
      BY <2>4, FS_Interval
    <3> QED
      BY <2>4, <3>1, FS_Subset, FS_CardinalityType
  <2>6. queue.missingPackets = y + 1 - Cardinality(got) /\ \A d \in got : d <= y
    <3> DEFINE c == Cardinality(got)
    <3>1. c \in Nat /\ queue.missingPackets + c = y + 1
      BY <2>4, <2>5
    <3> HIDE DEF c, got, y
    <3>2. queue.missingPackets = y + 1 - c
      BY <2>4, <3>1
    <3> QED
      BY <2>4, <3>2 DEF c
  <2> QED
    BY <2>3, <2>6
<1> QED
  BY <1>1, CountIsKept, PTL

(* reconstructFrame: when a block of a frame that was reported lost completes, *)
(* there was data out of sequence (its assertion).                             *)
THEOREM MisjudgesOnlyLate == Spec => []PredictionsFailOnlyLate
<1>1. Shape(queue) /\ Exact(queue) => PredictionsFailOnlyLate
  <2>1. SUFFICES ASSUME Shape(queue), Exact(queue), NEW i \in Packets, Accepts(i)
                 PROVE  LET q == WithPacket(queue, i, FALSE) IN
                        HasEnough(q) /\ q.reportedLostFrame => q.receivedOosData
    BY DEF PredictionsFailOnlyLate
  <2> DEFINE q == WithPacket(queue, i, FALSE)
  <2>2. Exact(q) /\ Shape(q) /\ q.pending # <<>>
    BY <2>1, PacketIsExact
  <2> HIDE DEF q
  <2>3. Len(q.pending) \in Nat /\ q.dataPackets \in Nat
    BY <2>2, Appended DEF Shape
  <2>4. HasEnough(q) /\ q.reportedLostFrame => q.receivedOosData
    BY <2>2, <2>3 DEF Exact, Justified, HasEnough
  <2> QED
    BY <2>4 DEF q
<1> QED
  BY <1>1, CountIsKept, PTL
===============================================================================
