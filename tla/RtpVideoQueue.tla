----------------------------- MODULE RtpVideoQueue -----------------------------
(***************************************************************************)
(* The RTP video queue (RtpVideoQueue.c): FEC blocks are assembled from    *)
(* packets that the network loses, repeats and reorders, missing data is   *)
(* recovered from parity, and frames are submitted to the depacketizer     *)
(* when their last block is complete.                                      *)
(*                                                                         *)
(* Stream is what the host sent: packet i has the sequence number i - 1,   *)
(* counted modulo SeqModulus (2^16 in the code).  A packet is its header: the  *)
(* frame, the block of the frame, the number of the frame's last block,    *)
(* its index in the block, and how many data and parity packets the block  *)
(* has.  The model is of hosts whose packets agree with their stream (the  *)
(* code rejects packets outside of their block) and whose FEC the client   *)
(* can use (generation 5 on).                                              *)
(***************************************************************************)
EXTENDS Integers, FiniteSets, SequencesExt

CONSTANTS
  Stream,           \* the packets the host sent, in order
  SeqModulus,           \* sequence numbers are counted modulo this
  MaxLate,          \* how far behind the newest packet one may arrive
  MaxOutage,        \* how many packets in a row may be lost
  RecoveryMayFail   \* recovered packets may fail their sanity checks

Packets == 1 .. Len(Stream)

ASSUME StreamAssumption ==
  \A i \in Packets : Stream[i] \in [frame: Nat \ {0}, block: 0 .. 3, lastBlock: 0 .. 3,
                                    index: Nat, data: Nat \ {0}, parity: Nat]
(* The packets of a block are numbered in a row, and its size, a header field of *)
(* ten bits, is far less than the numbers there are.  The code relies on both:   *)
(* it asserts that a packet tells the first number its block began with, and     *)
(* rejects a packet beyond the last one.                                         *)
ASSUME BlocksAssumption ==
  /\ \A i \in Packets : LET size == Stream[i].data + Stream[i].parity IN
       Stream[i].index < size /\ 2 * size <= SeqModulus
  /\ \A i, j \in Packets :
       Stream[i].frame = Stream[j].frame /\ Stream[i].block = Stream[j].block
       => /\ i - Stream[i].index = j - Stream[j].index
          /\ Stream[i].data = Stream[j].data /\ Stream[i].parity = Stream[j].parity
ASSUME NumbersAssumption ==
  SeqModulus \in Nat \ {0} /\ MaxLate \in Nat /\ MaxOutage \in Nat /\ RecoveryMayFail \in BOOLEAN

VARIABLES
  queue,    \* RTP_VIDEO_QUEUE
  calls,    \* the calls into the depacketizer made for the last packet
  newest,   \* the network: the newest packet that arrived
  done,     \* history: the last frame submitted,
  lost,     \* the last one reported as lost,
  foretold  \* and the last one whose loss was only predicted

vars == <<queue, calls, newest, done, lost, foretold>>

U16(x) == x % SeqModulus
isBefore16(x, y) == U16(x - y) > (SeqModulus - 1) \div 2
SeqNumber(i) == U16(i - 1)

(* An entry of a list: the packet, or the data recovered in its place. *)
Entry(i) == [seq |-> SeqNumber(i), frame |-> Stream[i].frame, block |-> Stream[i].block,
             index |-> Stream[i].index, recovered |-> FALSE]

(* RtpvInitializeQueue. *)
Init ==
  /\ queue = [currentFrameNumber |-> 1, multiFecCurrentBlockNumber |-> 0,
              multiFecLastBlockNumber |-> 0, pending |-> <<>>, completed |-> <<>>,
              lowest |-> 0, nextContiguous |-> 0, receivedHighest |-> 0,
              dataPackets |-> 0, parityPackets |-> 0,
              receivedData |-> 0, receivedParity |-> 0, missingPackets |-> 0,
              useFastQueuePath |-> FALSE, reportedLostFrame |-> FALSE,
              receivedOosData |-> FALSE, lastOosFrame |-> 0]
  /\ calls = <<>>
  /\ newest = 0
  /\ done = 0 /\ lost = 0 /\ foretold = 0

-------------------------------------------------------------------------------
(* Faulty variants of the definitions below. *)

PurgedPendingOnly(q, p) == [q EXCEPT !.pending = <<>>]

GapReportedUpToHere(q, n) ==
  IF n = q.currentFrameNumber \/ (n = q.currentFrameNumber + 1 /\ q.reportedLostFrame)
  THEN <<>> ELSE << <<"lost", n>> >>

MissingOnlyAtStart(q, s) ==
  IF Len(q.pending) = 1 THEN U16(s - q.lowest) ELSE q.missingPackets

-------------------------------------------------------------------------------
(* queuePacket. *)

IsFast(q, s) == q.useFastQueuePath /\ s = q.nextContiguous

IsDuplicate(q, s) ==
  ~IsFast(q, s) /\ \E k \in DOMAIN q.pending : q.pending[k].seq = s

IsOutOfSequence(q, s) ==
  ~IsFast(q, s) /\ \E k \in DOMAIN q.pending : isBefore16(s, q.pending[k].seq)

Linked(q, e) ==
  [q EXCEPT !.pending = Append(@, e),
            !.useFastQueuePath = IsFast(q, e.seq),
            !.nextContiguous = IF IsFast(q, e.seq) THEN U16(@ + 1) ELSE @]

(* A packet out of sequence ends speculative RFI; one in sequence, more than a *)
(* cooldown period later and so of a later frame, may begin it again.          *)
Sequenced(q, e, cooled) ==
  IF IsOutOfSequence(q, e.seq)
  THEN [q EXCEPT !.receivedOosData = TRUE, !.lastOosFrame = e.frame]
  ELSE [q EXCEPT !.receivedOosData = @ /\ ~(cooled /\ q.lastOosFrame < e.frame)]

(* RtpvAddPacket: how many packets below the highest one are still missing. *)
Missing(q, s) ==
  IF Len(q.pending) = 1 THEN q.missingPackets + U16(s - q.lowest)
  ELSE IF isBefore16(q.receivedHighest, s)
  THEN q.missingPackets + U16(s - q.receivedHighest - 1)
  ELSE q.missingPackets - 1

FirstParity(q) == U16(q.lowest + q.dataPackets)

IsParity(q, s) == ~isBefore16(s, FirstParity(q))

Counted(q, s) ==
  [q EXCEPT !.missingPackets = Missing(q, s),
            !.receivedHighest = IF Len(q.pending) = 1 \/ isBefore16(@, s) THEN s ELSE @,
            !.receivedData = @ + (IF IsParity(q, s) THEN 0 ELSE 1),
            !.receivedParity = @ + (IF IsParity(q, s) THEN 1 ELSE 0)]

-------------------------------------------------------------------------------
(* reconstructFrame and stageCompleteFecBlock. *)

HasEnough(q) == Len(q.pending) >= q.dataPackets

(* No hope for the frame unless packets are late, and none were recently. *)
PredictsLoss(q) ==
  /\ ~q.reportedLostFrame /\ ~q.receivedOosData
  /\ q.missingPackets > q.parityPackets

(* A loss was predicted for a frame that is complete after all. *)
Admitted(q) ==
  IF q.reportedLostFrame /\ ~q.receivedOosData
  THEN [q EXCEPT !.receivedOosData = TRUE, !.lastOosFrame = Head(q.pending).frame]
  ELSE q

Lacking(q) == { i \in 0 .. q.dataPackets - 1 :
                  \A k \in DOMAIN q.pending : q.pending[k].seq # U16(q.lowest + i) }

Recovered(q, i) == [seq |-> U16(q.lowest + i), frame |-> q.currentFrameNumber,
                    block |-> q.multiFecCurrentBlockNumber, index |-> i, recovered |-> TRUE]

(* The data packets that are lacking are queued in order, those before "upTo". *)
(* None is a duplicate, and the fast path was left when the first was missed.  *)
WithRecovered(q, upTo) ==
  LET more == { i \in Lacking(q) : i < upTo }
      inOrder == SetToSortSeq(more, <)
  IN [q EXCEPT !.pending = @ \o [k \in 1 .. Cardinality(more) |-> Recovered(q, inOrder[k])],
               !.useFastQueuePath = @ /\ more = {}]

(* The data packets in the order of their sequence numbers. *)
Staged(q) ==
  LET data == { q.pending[k] : k \in { j \in DOMAIN q.pending : ~IsParity(q, q.pending[j].seq) } }
      sooner(a, b) == U16(a.seq - q.lowest) < U16(b.seq - q.lowest)
  IN [q EXCEPT !.pending = <<>>, !.completed = @ \o SetToSortSeq(data, sooner)]

-------------------------------------------------------------------------------
(* RtpvAddPacket. *)

SameBlock(q, p) ==
  p.frame = q.currentFrameNumber /\ p.block = q.multiFecCurrentBlockNumber

NeedsRestart(q, p) == q.pending = <<>> \/ ~SameBlock(q, p)

ExpectedBlock(q, p) ==
  IF p.frame = q.currentFrameNumber THEN q.multiFecCurrentBlockNumber ELSE 0

(* A block of the current frame is skipped, by one of its later blocks while *)
(* one was pending, or by a block that is not the first one expected.        *)
LosesBlock(q, p) ==
  /\ q.pending # <<>> /\ q.multiFecLastBlockNumber # 0
  /\ p.frame = q.currentFrameNumber /\ ~SameBlock(q, p)

LosesFirstBlock(q, p) == NeedsRestart(q, p) /\ p.block # ExpectedBlock(q, p)

(* The frame is given up, up to frame n, and what there is of it discarded. *)
GivenUp(q, n) ==
  [q EXCEPT !.pending = <<>>, !.completed = <<>>, !.reportedLostFrame = TRUE,
            !.currentFrameNumber = n + 1, !.multiFecCurrentBlockNumber = 0]

ReportUnlessReported(q) ==
  IF q.reportedLostFrame THEN <<>> ELSE << <<"lost", q.currentFrameNumber>> >>

(* Whole frames are missing before frame n. *)
ReportGap(q, n) ==
  IF n = q.currentFrameNumber \/ (n = q.currentFrameNumber + 1 /\ q.reportedLostFrame)
  THEN <<>> ELSE << <<"lost", n - 1>> >>

(* What is kept when a block of another frame or another block begins. *)
Purged(q, p) ==
  [q EXCEPT !.pending = <<>>,
            !.completed = IF p.frame = q.currentFrameNumber THEN @ ELSE <<>>]

Restarted(q, i) ==
  LET p == Stream[i]
      first == U16(SeqNumber(i) - p.index)
  IN [Purged(q, p) EXCEPT
        !.currentFrameNumber = p.frame, !.multiFecCurrentBlockNumber = p.block,
        !.multiFecLastBlockNumber = p.lastBlock, !.lowest = first,
        !.nextContiguous = first, !.dataPackets = p.data, !.parityPackets = p.parity,
        !.receivedData = 0, !.receivedParity = 0, !.receivedHighest = 0,
        !.missingPackets = 0, !.useFastQueuePath = TRUE, !.reportedLostFrame = FALSE]

IsBehind(i, q) == isBefore16(SeqNumber(i), q.nextContiguous)

Rejects(q, i) ==
  LET p == Stream[i] IN
  \/ IsBehind(i, q)
  \/ p.frame < q.currentFrameNumber
  \/ p.frame = q.currentFrameNumber /\ p.block < q.multiFecCurrentBlockNumber

(* The packet belongs to the block that is assembled, or begins it. *)
Fits(q, i) ==
  ~Rejects(q, i) /\ ~LosesBlock(q, Stream[i]) /\ ~LosesFirstBlock(q, Stream[i])

Ready(q, i) == IF NeedsRestart(q, Stream[i]) THEN Restarted(q, i) ELSE q

ReportBefore(q, i) ==
  IF NeedsRestart(q, Stream[i]) THEN ReportGap(q, Stream[i].frame) ELSE <<>>

(* The queue with packet i in it. *)
WithPacket(q, i, cooled) ==
  Counted(Linked(Sequenced(Ready(q, i), Entry(i), cooled), Entry(i)), SeqNumber(i))

-------------------------------------------------------------------------------
(* What the network may deliver next, late or again, or after an outage. *)
Arrives(i) ==
  /\ newest - MaxLate <= i /\ i <= newest + MaxOutage + 1
  /\ newest' = IF newest < i THEN i ELSE newest

Named(kind, s) == { s[k][2] : k \in { j \in DOMAIN s : s[j][1] = kind } }

HighestOf(old, S) == IF S = {} THEN old ELSE CHOOSE n \in S \cup {old} : \A m \in S \cup {old} : m <= n

(* The step ends with these calls made. *)
Makes(s) ==
  /\ calls' = s
  /\ done' = HighestOf(done, Named("frame", s))
  /\ lost' = HighestOf(lost, Named("lost", s) \cup Named("predicted", s))
  /\ foretold' = HighestOf(foretold, Named("predicted", s))

Reject(i) ==
  /\ Rejects(queue, i)
  /\ Makes(<<>>)
  /\ UNCHANGED queue

(* A later block of the current frame arrives while one was pending. *)
LoseBlock(i) ==
  /\ ~Rejects(queue, i) /\ LosesBlock(queue, Stream[i])
  /\ Makes(ReportUnlessReported(queue))
  /\ queue' = GivenUp(queue, queue.currentFrameNumber)

(* The first block of this frame was lost. *)
LoseFirstBlock(i) ==
  /\ ~Rejects(queue, i) /\ ~LosesBlock(queue, Stream[i])
  /\ LosesFirstBlock(queue, Stream[i])
  /\ Makes(ReportUnlessReported(queue))
  /\ queue' = GivenUp(queue, Stream[i].frame)

RejectDuplicate(i) ==
  /\ Fits(queue, i)
  /\ IsDuplicate(Ready(queue, i), SeqNumber(i))
  /\ Makes(<<>>)
  /\ UNCHANGED queue

Accepts(i) == Fits(queue, i) /\ ~IsDuplicate(Ready(queue, i), SeqNumber(i))

(* The packet is queued and its block is not complete yet. *)
QueuePacket(i, cooled) ==
  LET q == WithPacket(queue, i, cooled) IN
  /\ Accepts(i)
  /\ ~HasEnough(q)
  /\ Makes(ReportBefore(queue, i) \o
             IF PredictsLoss(q) THEN << <<"predicted", q.currentFrameNumber>> >> ELSE <<>>)
  /\ queue' = [q EXCEPT !.reportedLostFrame = @ \/ PredictsLoss(q)]

(* A recovered packet is not sane: those before it were queued. *)
FailRecovery(i, cooled) ==
  LET q == WithPacket(queue, i, cooled) IN
  /\ RecoveryMayFail
  /\ Accepts(i)
  /\ HasEnough(q)
  /\ q.receivedData # q.dataPackets
  /\ Makes(ReportBefore(queue, i))
  /\ \E upTo \in Lacking(q) : queue' = WithRecovered(Admitted(q), upTo)

(* Every data packet of the block is there or was recovered. *)
CompleteBlock(i, cooled) ==
  LET q == WithPacket(queue, i, cooled)
      r == Staged(WithRecovered(Admitted(q), q.dataPackets))
  IN
  /\ Accepts(i)
  /\ HasEnough(q)
  /\ r.multiFecCurrentBlockNumber < r.multiFecLastBlockNumber
  /\ Makes(ReportBefore(queue, i))
  /\ queue' = [r EXCEPT !.multiFecCurrentBlockNumber = @ + 1]

(* And it was the last one of its frame. *)
CompleteFrame(i, cooled) ==
  LET q == WithPacket(queue, i, cooled)
      r == Staged(WithRecovered(Admitted(q), q.dataPackets))
  IN
  /\ Accepts(i)
  /\ HasEnough(q)
  /\ r.multiFecCurrentBlockNumber >= r.multiFecLastBlockNumber
  /\ Makes(Append(ReportBefore(queue, i), <<"frame", r.currentFrameNumber, r.completed>>))
  /\ queue' = [r EXCEPT !.completed = <<>>, !.currentFrameNumber = @ + 1,
                        !.multiFecCurrentBlockNumber = 0]

RtpvAddPacket(i) ==
  \/ Reject(i) \/ LoseBlock(i) \/ LoseFirstBlock(i) \/ RejectDuplicate(i)
  \/ \E cooled \in BOOLEAN : QueuePacket(i, cooled) \/ FailRecovery(i, cooled)
                               \/ CompleteBlock(i, cooled) \/ CompleteFrame(i, cooled)

Next == \E i \in Packets : Arrives(i) /\ RtpvAddPacket(i)

Spec == Init /\ [][Next]_vars

-------------------------------------------------------------------------------
(* The packets of the Stream that make up frame n, without parity. *)
DataOf(n) ==
  LET mine == { i \in Packets : Stream[i].frame = n /\ Stream[i].index < Stream[i].data }
  IN SetToSortSeq(mine, <)

Contents(s) == [k \in DOMAIN s |-> <<s[k].frame, s[k].block, s[k].index>>]

TypeOK ==
  /\ queue.currentFrameNumber \in Nat \ {0}
  /\ queue.multiFecCurrentBlockNumber \in 0 .. 3 /\ queue.multiFecLastBlockNumber \in 0 .. 3
  /\ { queue.lowest, queue.nextContiguous, queue.receivedHighest } \subseteq 0 .. SeqModulus - 1
  /\ queue.missingPackets \in Nat
  /\ queue.receivedData \in 0 .. queue.dataPackets
  /\ queue.receivedParity \in 0 .. queue.parityPackets
  /\ Len(queue.pending) <= queue.dataPackets + queue.parityPackets
  /\ \A k \in DOMAIN calls : calls[k][1] \in {"frame", "lost", "predicted"}

(* submitCompletedFrame: a frame is submitted once, after every earlier one, *)
(* and is exactly its data packets in the order the host sent them, whatever *)
(* was lost, late, repeated or recovered, of this frame and of others.       *)
FramesSubmittedWhole ==
  [][ \A k \in DOMAIN calls' : calls'[k][1] = "frame" =>
        LET n == calls'[k][2]  want == DataOf(n) IN
        /\ done < n
        /\ Contents(calls'[k][3]) =
             [j \in DOMAIN want |-> <<n, Stream[want[j]].block, Stream[want[j]].index>>] ]_vars

(* notifyFrameLost: a frame that was given up is never submitted later, unless *)
(* its loss was a prediction.                                                  *)
GivenUpForGood ==
  [][ done' # done /\ done' <= lost => done' <= foretold ]_vars

(* notifyFrameLost: "We may not invalidate frames that we've already received", *)
(* and reports never go back to a frame before one reported earlier.            *)
ReportsMoveForward ==
  [][ \A k \in DOMAIN calls' : calls'[k][1] # "frame" =>
        done < calls'[k][2] /\ lost <= calls'[k][2] ]_vars

(* "If the frame immediately preceding this one was lost, we may have already *)
(* reported it": when a frame begins, and until it is submitted, every frame  *)
(* before it was submitted or is covered by a report.                         *)
LossIsReported ==
  [][ LET n == IF done' # done THEN done' ELSE queue'.currentFrameNumber IN
      queue'.pending # <<>> \/ done' # done => n <= done + 1 \/ n <= lost' + 1 ]_vars

Distances(q) == { U16(q.pending[k].seq - q.lowest) : k \in { j \in DOMAIN q.pending : ~q.pending[j].recovered } }

(* missingPackets counts exactly the packets below the highest one received   *)
(* that were not received, so it is positive whenever a late one is accepted  *)
(* and the prediction of a loss is sound (the assertions of RtpvAddPacket and *)
(* reconstructFrame).                                                         *)
MissingIsExact ==
  queue.pending # <<>> =>
    LET got == Distances(queue)
        highest == U16(queue.receivedHighest - queue.lowest)
    IN /\ \A d \in got : d <= highest
       /\ queue.missingPackets = highest + 1 - Cardinality(got)

(* The assertion of reconstructFrame, for whatever packet comes next: if the *)
(* block of a frame that was reported lost completes, there was late data.   *)
PredictionsFailOnlyLate ==
  \A i \in Packets :
    /\ newest - MaxLate <= i /\ i <= newest + MaxOutage + 1
    /\ Accepts(i)
    => LET q == WithPacket(queue, i, FALSE) IN
       HasEnough(q) /\ q.reportedLostFrame => q.receivedOosData

(* Frame by frame, the queue is what FrameDelivery says. *)
CallsOf(s) == [k \in DOMAIN s |-> <<s[k][1], s[k][2]>>]

Abstract == INSTANCE FrameDelivery WITH
  FrameNumbers <- { Stream[i].frame : i \in Packets },
  LastBlock <- 3,
  currentFrameNumber <- queue.currentFrameNumber,
  multiFecCurrentBlockNumber <- queue.multiFecCurrentBlockNumber,
  assembling <- queue.pending # <<>>,
  reportedLostFrame <- queue.reportedLostFrame,
  calls <- CallsOf(calls)

DeliversFrames == Abstract!Spec
===============================================================================
