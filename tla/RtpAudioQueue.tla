----------------------------- MODULE RtpAudioQueue -----------------------------
(***************************************************************************)
(* The queue that puts audio packets in order and recovers lost ones       *)
(* (RtpAudioQueue.c), with the receive thread that feeds and drains it     *)
(* (AudioStream.c).  The host sends blocks of data packets, each followed  *)
(* by the parity packets of the block; sequence numbers wrap.              *)
(*                                                                         *)
(* The build is a release build: completeFecBlock does not drop a packet   *)
(* to validate the recovery.  Packets are not too small and of one of the  *)
(* two types, and memory suffices.                                         *)
(***************************************************************************)
EXTENDS Integers, FiniteSets, Sequences, SequencesExt

CONSTANTS
  DataShards,    \* RTPA_DATA_SHARDS (4 in the code)
  FecShards,     \* RTPA_FEC_SHARDS (2 in the code)
  Blocks,        \* blocks until the sequence numbers wrap (16384 in the code)
  FirstBase,     \* the block that the host sends first when the queue is created
  MaxAhead,      \* how many blocks the newest one may be ahead of the oldest one awaited
  MaxReorder,    \* how many blocks a packet may be late
  MaxWait,       \* a block is waited for no longer than this many blocks
  WrapsEarly     \* block 0 may come before the first block is complete

(* The blocks that are in use at one time are at most half of those that the *)
(* numbers tell apart.                                                       *)
ASSUME ShardsAssumption ==
  /\ DataShards \in Nat \ {0, 1} /\ FecShards \in Nat /\ Blocks \in Nat \ {0}
  /\ Blocks % 2 = 0 /\ FirstBase \in 0 .. DataShards * Blocks - 1 /\ FirstBase % DataShards = 0
  /\ MaxAhead \in Nat \ {0} /\ MaxReorder \in 0 .. MaxAhead /\ MaxWait \in Nat
  /\ 2 * (MaxReorder + MaxAhead + 3) <= Blocks
  /\ WrapsEarly \in BOOLEAN

VARIABLES
  blocks,                       \* the FEC blocks, from blockHead to blockTail
  nextRtpSequenceNumber,        \* what the decoder gets next
  oldestRtpBaseSequenceNumber,  \* the block it is in
  lastOosSequenceNumber,
  receivedOosData,
  synchronizing,
  incompatibleServer,
  pc,                           \* the receive thread: "receive" or "drain"
  newest,                       \* the network: the newest block it delivered
  played                        \* the packet that the decoder got last

numbers == <<nextRtpSequenceNumber, oldestRtpBaseSequenceNumber>>
oos     == <<lastOosSequenceNumber, receivedOosData>>
vars    == <<blocks, numbers, oos, synchronizing, incompatibleServer, pc, newest, played>>

SeqModulus == DataShards * Blocks
U16(x) == x % SeqModulus
isBefore16(x, y) == U16(x - y) > (SeqModulus - 1) \div 2

SeqNumbers == 0 .. SeqModulus - 1
Bases  == {x \in SeqNumbers : x % DataShards = 0}
Data   == 0 .. DataShards - 1
Shards == 0 .. DataShards + FecShards - 1
Packets == [base : Bases, shard : Shards]

IsData(p) == p.shard \in Data
Seq16(p)  == p.base + p.shard       \* of a data packet
Nothing   == -1

Init ==
  /\ blocks = <<>>
  /\ nextRtpSequenceNumber = 0 /\ oldestRtpBaseSequenceNumber = 0
  /\ lastOosSequenceNumber = 0 /\ receivedOosData = FALSE
  /\ synchronizing = TRUE /\ incompatibleServer = FALSE
  /\ pc = "receive"
  /\ newest = FirstBase
  /\ played = Nothing

-------------------------------------------------------------------------------
(* Faulty variants of the definitions below. *)

NothingIsOld(p) == FALSE

ResynchronizesToNewest(bs) == Last(bs).base

-------------------------------------------------------------------------------
(* The list of blocks.  "got" holds the shards whose mark is clear: received   *)
(* or recovered.                                                               *)

NewBlock(b) ==
  [base |-> b, got |-> {}, fullyReassembled |-> FALSE, nextDataPacketIndex |-> 0,
   allowDiscontinuity |-> FALSE]

(* Where the walk along the list for the block of base b stops. *)
Stops(b, k) ==
  k > Len(blocks) \/ blocks[k].base = b \/ isBefore16(b, blocks[k].base)

Place(b) ==
  CHOOSE k \in 1 .. Len(blocks) + 1 : Stops(b, k) /\ \A j \in 1 .. k - 1 : ~Stops(b, j)

Exists(b) == Place(b) <= Len(blocks) /\ blocks[Place(b)].base = b

(* A block may be played: the packet that is next is there, or gaps are allowed. *)
Ready(bs, next) ==
  /\ bs # <<>>
  /\ LET head == Head(bs) IN
     \/ head.nextDataPacketIndex \in head.got /\ head.base + head.nextDataPacketIndex = next
     \/ head.allowDiscontinuity

(* The head is freed, and with it the queue is synchronized with the host. *)
FreeFecBlockHead(bs) ==
  /\ blocks' = Tail(bs)
  /\ oldestRtpBaseSequenceNumber' = U16(Head(bs).base + DataShards)
  /\ synchronizing' = FALSE

-------------------------------------------------------------------------------
(* The network: which packets arrive, and after which time.  The host goes on  *)
(* for ever, and its numbers wrap.  It does not get so far ahead of the oldest *)
(* block that the queue awaits that the order of the numbers is lost; and      *)
(* unless WrapsEarly, block 0 comes before the queue is synchronized, or too   *)
(* late, or after the first block is complete.                                 *)

Ahead(b, c) == U16(b - c) \div DataShards         \* blocks from c to b

Advances(p) == Ahead(p.base, newest) \in 1 .. MaxAhead

MustSynchronize == synchronizing /\ oldestRtpBaseSequenceNumber = 0

IsOld(p) == isBefore16(p.base, oldestRtpBaseSequenceNumber)

InReach(p)   == MustSynchronize \/ Ahead(p.base, oldestRtpBaseSequenceNumber) <= MaxAhead
EarlyWrap(p) == synchronizing /\ ~MustSynchronize /\ p.base = 0 /\ ~IsOld(p)

MayArrive(p) ==
  /\ Ahead(newest, p.base) \in 0 .. MaxReorder \/ (Advances(p) /\ InReach(p))
  /\ EarlyWrap(p) => WrapsEarly

(* The first block waits at most as long as MaxWait blocks take to arrive. *)
HasWaited(p) ==
  LET latest == IF Advances(p) THEN p.base ELSE newest IN
  blocks # <<>> /\ Ahead(latest, Head(blocks).base) \in MaxWait .. Blocks \div 2 - 1

-------------------------------------------------------------------------------
(* RtpaAddPacket. *)

(* Data that is older than the oldest block, and how it is forgotten (with its *)
(* number, which is not used any more).                                        *)
IsOutOfSequence(p) ==
  IsData(p) /\ ~synchronizing /\ isBefore16(Seq16(p), oldestRtpBaseSequenceNumber)

Forgets(p) == IsData(p) /\ isBefore16(oldestRtpBaseSequenceNumber, lastOosSequenceNumber)

NoteOutOfSequence(p) ==
  IF IsOutOfSequence(p)
  THEN lastOosSequenceNumber' = Seq16(p) /\ receivedOosData' = TRUE
  ELSE IF receivedOosData /\ Forgets(p)
  THEN lastOosSequenceNumber' = 0 /\ receivedOosData' = FALSE
  ELSE UNCHANGED oos

Synchronize(p) ==
  /\ MustSynchronize
  /\ nextRtpSequenceNumber' = U16(p.base + DataShards)
  /\ oldestRtpBaseSequenceNumber' = U16(p.base + DataShards)
  /\ UNCHANGED <<blocks, synchronizing, incompatibleServer, pc, played>>

IsDuplicate(k, p) == blocks[k].fullyReassembled \/ p.shard \in blocks[k].got

Reject(p) ==
  /\ ~MustSynchronize
  /\ IsOld(p) \/ (Exists(p.base) /\ IsDuplicate(Place(p.base), p))
  /\ UNCHANGED <<blocks, numbers, synchronizing, incompatibleServer, pc, played>>

(* A packet whose size differs from its block's turns the queue off. *)
Mismatch(p) ==
  /\ ~MustSynchronize /\ ~IsOld(p) /\ Exists(p.base)
  /\ incompatibleServer' = TRUE
  /\ UNCHANGED <<blocks, numbers, synchronizing, pc, played>>

(* The list with the packet in its block. *)
WithPacket(p) ==
  LET k    == Place(p.base)
      list == IF Exists(p.base) THEN blocks ELSE InsertAt(blocks, k, NewBlock(p.base))
  IN [list EXCEPT ![k].got = @ \cup {p.shard}]

Accepts(p) ==
  ~MustSynchronize /\ ~IsOld(p) /\ ~(Exists(p.base) /\ IsDuplicate(Place(p.base), p))

IsNext(p) == IsData(p) /\ Seq16(p) = nextRtpSequenceNumber

(* The packet that is next is played at once. *)
HandleNow(p) ==
  /\ Accepts(p) /\ IsNext(p)
  /\ LET list == [WithPacket(p) EXCEPT ![Place(p.base)].nextDataPacketIndex = @ + 1]
         next == U16(Seq16(p) + 1) IN
     /\ nextRtpSequenceNumber' = next
     /\ IF next = U16(p.base + DataShards)
        THEN FreeFecBlockHead(list)
        ELSE blocks' = list /\ UNCHANGED <<oldestRtpBaseSequenceNumber, synchronizing>>
  /\ played' = Seq16(p)
  /\ UNCHANGED <<incompatibleServer, pc>>

HasEnough(blk) == Cardinality(blk.got) >= DataShards

Completed(blk) ==
  IF HasEnough(blk)
  THEN [blk EXCEPT !.got = @ \cup Data, !.fullyReassembled = TRUE] ELSE blk

(* handleMissingPackets: an entire block was lost, ... *)
LostBlocksBefore(bs, next) == isBefore16(next, Head(bs).base)

ResynchronizesTo(bs) == Head(bs).base

(* ... or the first block is given up when there is a second, at the latest   *)
(* when it has waited long enough; out-of-sequence data makes it wait.         *)
GivesUp(bs) == Len(bs) > 1

Waits(bs, p) == Len(bs) > 1 => receivedOosData' /\ ~HasWaited(p)

(* Any other packet is kept, and what is ready then is drained. *)
Keep(p) ==
  /\ Accepts(p) /\ ~IsNext(p)
  /\ LET list == [WithPacket(p) EXCEPT ![Place(p.base)] = Completed(@)]
         next == nextRtpSequenceNumber
         base == ResynchronizesTo(list) IN
     IF Ready(list, next)
     THEN blocks' = list /\ pc' = "drain" /\ UNCHANGED numbers
     ELSE IF LostBlocksBefore(list, next)
     THEN /\ blocks' = list
          /\ nextRtpSequenceNumber' = base /\ oldestRtpBaseSequenceNumber' = base
          /\ pc' = IF Ready(list, base) THEN "drain" ELSE pc
     ELSE /\ \/ /\ GivesUp(list)
                /\ blocks' = [list EXCEPT ![1].allowDiscontinuity = TRUE] /\ pc' = "drain"
             \/ Waits(list, p) /\ blocks' = list /\ UNCHANGED pc
          /\ UNCHANGED numbers
  /\ UNCHANGED <<synchronizing, incompatibleServer, played>>

AddPacket(p) ==
  /\ ~incompatibleServer
  /\ NoteOutOfSequence(p)
  /\ Synchronize(p) \/ Reject(p) \/ Mismatch(p) \/ HandleNow(p) \/ Keep(p)

(* Parity that does not start at a block turns the queue off before all that. *)
Misaligned(p) ==
  /\ ~incompatibleServer /\ ~IsData(p) /\ incompatibleServer' = TRUE
  /\ UNCHANGED <<blocks, numbers, oos, synchronizing, pc, played>>

(* When the queue is off, data goes to the decoder as it comes, past the queue. *)
PassThrough == incompatibleServer /\ UNCHANGED vars

-------------------------------------------------------------------------------
Receive(p) ==
  /\ pc = "receive" /\ MayArrive(p)
  /\ newest' = IF Advances(p) THEN p.base ELSE newest
  /\ AddPacket(p) \/ Misaligned(p)

(* RtpaGetQueuedPacket, until it returns nothing.  A packet that is missing is *)
(* replaced by a placeholder without data, which the decoder conceals.         *)
GetQueuedPacket ==
  /\ pc = "drain"
  /\ IF Ready(blocks, nextRtpSequenceNumber)
     THEN LET head == Head(blocks)
              list == [blocks EXCEPT ![1].nextDataPacketIndex = @ + 1] IN
          /\ played' = U16(head.base + head.nextDataPacketIndex)
          /\ nextRtpSequenceNumber' = U16(nextRtpSequenceNumber + 1)
          /\ IF head.nextDataPacketIndex + 1 = DataShards
             THEN FreeFecBlockHead(list)
             ELSE blocks' = list /\ UNCHANGED <<oldestRtpBaseSequenceNumber, synchronizing>>
          /\ UNCHANGED pc
     ELSE /\ pc' = "receive"
          /\ UNCHANGED <<blocks, numbers, synchronizing, played>>
  /\ UNCHANGED <<oos, incompatibleServer, newest>>

Next == GetQueuedPacket \/ PassThrough \/ \E p \in Packets : Receive(p)

Spec == Init /\ [][Next]_vars

-------------------------------------------------------------------------------
TypeOK ==
  /\ blocks \in Seq([base : Bases, got : SUBSET Shards, fullyReassembled : BOOLEAN,
                     nextDataPacketIndex : 0 .. DataShards, allowDiscontinuity : BOOLEAN])
  /\ nextRtpSequenceNumber \in SeqNumbers /\ oldestRtpBaseSequenceNumber \in Bases
  /\ lastOosSequenceNumber \in SeqNumbers
  /\ receivedOosData \in BOOLEAN /\ synchronizing \in BOOLEAN
  /\ incompatibleServer \in BOOLEAN
  /\ pc \in {"receive", "drain"} /\ newest \in Bases
  /\ played \in SeqNumbers \cup {Nothing}

(* "The next sequence number must not exceed the first FEC block (otherwise it *)
(* should have been dequeued and freed)": an assertion of                      *)
(* validateFecBlockState.                                                      *)
NextIsInFirstBlockOrBefore ==
  blocks # <<>> => isBefore16(nextRtpSequenceNumber, U16(Head(blocks).base + DataShards))

(* What else validateFecBlockState asserts, and what RtpaGetQueuedPacket relies *)
(* on: the list is sorted and starts at or after the oldest block, which is the *)
(* one that the next packet is in, and a head that was played in part is the    *)
(* block of the next packet, at the right index.                                *)
QueueIsConsistent ==
  /\ NextIsInFirstBlockOrBefore
  /\ oldestRtpBaseSequenceNumber = nextRtpSequenceNumber - (nextRtpSequenceNumber % DataShards)
  /\ \A k \in DOMAIN blocks : ~isBefore16(blocks[k].base, oldestRtpBaseSequenceNumber)
  /\ \A k \in DOMAIN blocks : k > 1 => isBefore16(blocks[k - 1].base, blocks[k].base)
  /\ \A k \in DOMAIN blocks :
       blocks[k].nextDataPacketIndex =
         IF oldestRtpBaseSequenceNumber = blocks[k].base
         THEN nextRtpSequenceNumber % DataShards ELSE 0

(* The decoder gets every packet once, and in order, whatever was reordered or *)
(* duplicated; and a block of which it got something it gets to the end, as    *)
(* data or as placeholders: only entire blocks are skipped.                    *)
Plays == nextRtpSequenceNumber' = U16(nextRtpSequenceNumber + 1) \/ played' # played

PlayedInOrder ==
  [][ Plays /\ played # Nothing =>
        \/ played' = U16(played + 1)
        \/ /\ isBefore16(played, played')
           /\ played' % DataShards = 0 /\ U16(played + 1) % DataShards = 0 ]_vars

(* A packet that has arrived is not skipped: only blocks of which nothing is   *)
(* in the queue are.                                                           *)
SkipsOnlyTheUnseen ==
  [][ numbers' # numbers /\ played' = played /\ ~MustSynchronize =>
        \A k \in DOMAIN blocks' : ~isBefore16(blocks'[k].base, nextRtpSequenceNumber') ]_vars

(* "Blank entries for packets that were lost and could not be recovered": a    *)
(* packet is concealed only if fewer shards of its block arrived than the      *)
(* recovery needs (RtpaGetQueuedPacket, handleMissingPackets).                 *)
ConcealsOnlyTheLost ==
  pc = "drain" /\ Ready(blocks, nextRtpSequenceNumber) =>
    LET head == Head(blocks) IN
    head.nextDataPacketIndex \notin head.got => ~HasEnough(head)
===============================================================================
