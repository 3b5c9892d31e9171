---------------------------- MODULE ConnectionProofs ---------------------------
(***************************************************************************)
(* What the linked blocking queue guarantees for every number of callers,  *)
(* every set of items and every bound, and what a connection, whose        *)
(* threads wait on such queues, guarantees for every set of capabilities   *)
(* of its sessions, however often it is started and whatever its threads   *)
(* meet.                                                                   *)
(*                                                                         *)
(* The queue: its type and bound, that no wake-up is lost, that items      *)
(* leave once and in order, that a drain loses nothing, and that it        *)
(* implements the bounded FIFO.                                            *)
(*                                                                         *)
(* The connection: a start is a sequence of instructions in ascending      *)
(* places (Rank), and what is there is what stands before the next of      *)
(* them; a stop, and what a failed start undoes, is put together of parts  *)
(* that each join the threads and release the resources of one stage       *)
(* (Clears), and no part releases what a later one still needs.            *)
(***************************************************************************)
EXTENDS Connection, LinkedBlockingQueue, SequenceTheorems, TLAPS

-------------------------------------------------------------------------------
(* Sequences. *)

(* Taking the head of the second part and appending it to the first. *)
LEMMA MoveHead ==
  ASSUME NEW S, NEW r \in Seq(S), NEW s \in Seq(S), s # <<>>
  PROVE  /\ Head(s) \in S
         /\ Tail(s) \in Seq(S)
         /\ Len(Tail(s)) = Len(s) - 1
         /\ Append(r, Head(s)) \in Seq(S)
         /\ Append(r, Head(s)) \o Tail(s) = r \o s
<1>1. /\ Head(s) \in S
      /\ Tail(s) \in Seq(S)
      /\ Len(Tail(s)) = Len(s) - 1
  BY HeadTailProperties
<1>2. Append(r, Head(s)) = r \o <<Head(s)>>
  BY <1>1, AppendIsConcat
<1>3. <<Head(s)>> \in Seq(S) /\ <<Head(s)>> \o Tail(s) = s
  BY <1>1, HeadTailProperties
<1>4. Append(r, Head(s)) \o Tail(s) = r \o s
  BY <1>1, <1>2, <1>3, ConcatAssociative
<1> QED
  BY <1>1, <1>4, AppendProperties

(* Appending to the second part appends to the whole. *)
LEMMA AppendToConcat ==
  ASSUME NEW r \in Seq(Items), NEW s \in Seq(Items), NEW x \in Items
  PROVE  Append(r \o s, x) = r \o Append(s, x)
<1>1. <<x>> \in Seq(Items) /\ r \o s \in Seq(Items)
  BY ConcatProperties
<1>2. Append(r \o s, x) = (r \o s) \o <<x>> /\ Append(s, x) = s \o <<x>>
  BY <1>1, AppendIsConcat
<1> QED
  BY <1>1, <1>2, ConcatAssociative

-------------------------------------------------------------------------------
(* The operators of the queue. *)

(* An accepted offer puts the item behind the ones that wait. *)
LEMMA OfferedProperties ==
  ASSUME NEW u \in QueueOf(Items), NEW x \in Items, Len(u.items) <= SizeBound,
         OfferStatus(u, SizeBound) = LBQ_SUCCESS
  PROVE  /\ Offered(u, SizeBound, x) \in QueueOf(Items)
         /\ Offered(u, SizeBound, x).items = Append(u.items, x)
         /\ Offered(u, SizeBound, x).shutdown = u.shutdown
         /\ Offered(u, SizeBound, x).draining = u.draining
         /\ ~u.shutdown /\ ~u.draining
         /\ Len(u.items) < SizeBound
         /\ Len(Append(u.items, x)) <= SizeBound
         /\ Append(u.items, x) # <<>>
         /\ u.items # <<>> => Head(Append(u.items, x)) = Head(u.items)
<1>1. ~u.shutdown /\ ~u.draining /\ Len(u.items) # SizeBound
  BY DEF OfferStatus, LBQ_SUCCESS, LBQ_INTERRUPTED, LBQ_BOUND_EXCEEDED
<1>2. u.items \in Seq(Items) /\ Len(u.items) \in Nat
  BY LenProperties DEF QueueOf
<1>3. /\ Append(u.items, x) \in Seq(Items)
      /\ Len(Append(u.items, x)) = Len(u.items) + 1
  BY <1>2, AppendProperties
<1>4. Append(u.items, x) # <<>>
  BY <1>2, <1>3, EmptySeq
<1>5. u.items # <<>> => Head(Append(u.items, x)) = Head(u.items)
  BY <1>2, <1>3
<1>6. Offered(u, SizeBound, x) = [u EXCEPT !.items = Append(u.items, x), !.used = TRUE]
  BY DEF Offered, Link
<1>7. /\ Offered(u, SizeBound, x) \in QueueOf(Items)
      /\ Offered(u, SizeBound, x).items = Append(u.items, x)
      /\ Offered(u, SizeBound, x).shutdown = u.shutdown
      /\ Offered(u, SizeBound, x).draining = u.draining
  BY <1>3, <1>6 DEF QueueOf
<1>8. Len(u.items) < SizeBound /\ Len(Append(u.items, x)) <= SizeBound
  BY <1>1, <1>2, <1>3, SizeBoundAssumption
<1> QED
  BY <1>1, <1>4, <1>5, <1>7, <1>8

(* A poll that succeeds unlinks the head of a queue that is not shut down. *)
LEMMA PolledProperties ==
  ASSUME NEW u \in QueueOf(Items), PollStatus(u) = LBQ_SUCCESS
  PROVE  /\ Polled(u) \in QueueOf(Items)
         /\ Polled(u).items = Tail(u.items)
         /\ Polled(u).shutdown = u.shutdown
         /\ Polled(u).draining = u.draining
         /\ ~u.shutdown
         /\ u.items # <<>>
<1>1. ~u.shutdown /\ u.items # <<>>
  BY DEF PollStatus, IsEmpty, LBQ_SUCCESS, LBQ_INTERRUPTED, LBQ_NO_ELEMENT
<1>2. Polled(u) = [u EXCEPT !.items = Tail(u.items)]
  BY DEF Polled, Unlink
<1>3. Tail(u.items) \in Seq(Items)
  BY <1>1, HeadTailProperties DEF QueueOf
<1> QED
  BY <1>1, <1>2, <1>3 DEF QueueOf

(* The three ways a wait returns. *)
LEMMA WaitedProperties ==
  ASSUME NEW u \in QueueOf(Items), ~WaitBlocks(u)
  PROVE  /\ Waited(u) \in QueueOf(Items)
         /\ Waited(u).shutdown = u.shutdown
         /\ Waited(u).draining = u.draining
         /\ WaitStatus(u) = LBQ_SUCCESS =>
              ~u.shutdown /\ u.items # <<>> /\ Waited(u).items = Tail(u.items)
         /\ WaitStatus(u) # LBQ_SUCCESS => Waited(u).items = u.items
         /\ WaitStatus(u) = LBQ_INTERRUPTED =>
              u.shutdown \/ (u.draining /\ u.items = <<>>)
<1>1. CASE u.shutdown
  BY <1>1 DEF Waited, WaitStatus, LBQ_SUCCESS, LBQ_INTERRUPTED, LBQ_USER_WAKE
<1>2. CASE ~u.shutdown /\ u.pendingUserWake
  <2>1. WaitStatus(u) = LBQ_USER_WAKE
    BY <1>2 DEF WaitStatus
  <2>2. Waited(u) = [u EXCEPT !.pendingUserWake = FALSE]
    BY <2>1 DEF Waited, LBQ_SUCCESS, LBQ_USER_WAKE
  <2> QED
    BY <2>1, <2>2 DEF QueueOf, LBQ_SUCCESS, LBQ_INTERRUPTED, LBQ_USER_WAKE
<1>3. CASE ~u.shutdown /\ ~u.pendingUserWake /\ u.items = <<>>
  <2>1. u.draining
    BY <1>3 DEF WaitBlocks, IsEmpty
  <2> QED
    BY <1>3, <2>1 DEF Waited, WaitStatus, IsEmpty, LBQ_SUCCESS, LBQ_INTERRUPTED, LBQ_USER_WAKE
<1>4. CASE ~u.shutdown /\ ~u.pendingUserWake /\ u.items # <<>>
  <2>1. WaitStatus(u) = LBQ_SUCCESS
    BY <1>4 DEF WaitStatus, IsEmpty
  <2>2. Waited(u) = [u EXCEPT !.items = Tail(u.items)]
    BY <2>1 DEF Waited, Unlink, LBQ_SUCCESS, LBQ_USER_WAKE
  <2>3. Tail(u.items) \in Seq(Items)
    BY <1>4, HeadTailProperties DEF QueueOf
  <2> QED
    BY <1>4, <2>1, <2>2, <2>3 DEF QueueOf, LBQ_SUCCESS, LBQ_INTERRUPTED
<1> QED
  BY <1>1, <1>2, <1>3, <1>4

-------------------------------------------------------------------------------
(* The inductive invariant.  A consumer leaves its loop only for good: of a   *)
(* queue that is shut down, or that is draining and empty, and neither can be *)
(* undone by any operation.                                                   *)
DoneIsSettled ==
  consumer = "done" => q.shutdown \/ (q.draining /\ q.items = <<>>)

LbqInv == LbqTypeOK /\ NoLostWakeup /\ FifoConservation /\ PeekStable /\ DoneIsSettled

(* The initial state has it. *)
LEMMA InitLbqInv == LbqInit => LbqInv
<1> SUFFICES ASSUME LbqInit PROVE LbqInv
  OBVIOUS
<1> USE DEF LbqInit, NewQueue
<1>1. LbqTypeOK
  BY SizeBoundAssumption, EmptySeq DEF LbqTypeOK, QueueOf
<1>2. FifoConservation
  <2>1. <<>> \in Seq(Items)
    OBVIOUS
  <2> QED
    BY <2>1, ConcatEmptySeq DEF FifoConservation
<1> QED
  BY <1>1, <1>2 DEF LbqInv, NoLostWakeup, PeekStable, DoneIsSettled

(* Taking the head of the queue, by a wait or by a poll. *)
LEMMA TakeHeadLbqInv ==
  ASSUME LbqInv, TakeHead, q.items # <<>>, ~q.shutdown,
         q' \in QueueOf(Items), q'.items = Tail(q.items),
         q'.shutdown = q.shutdown, q'.draining = q.draining,
         consumer \in {"out", "woken"}, consumer' = "out",
         UNCHANGED <<pc, wakes, accepted>>
  PROVE  LbqInv'
<1> USE DEF TakeHead
<1>1. /\ Head(q.items) \in Items
      /\ Len(Tail(q.items)) = Len(q.items) - 1
      /\ removed' \in Seq(Items)
      /\ removed' \o q'.items = removed \o q.items
  BY MoveHead DEF LbqInv, LbqTypeOK, QueueOf
<1>2. LbqTypeOK'
  <2>1. Len(q.items) \in Nat /\ Len(q'.items) = Len(q.items) - 1
    BY <1>1, LenProperties DEF LbqInv, LbqTypeOK, QueueOf
  <2>2. Len(q'.items) <= SizeBound
    BY <2>1, SizeBoundAssumption DEF LbqInv, LbqTypeOK
  <2> QED
    BY <1>1, <2>2 DEF LbqInv, LbqTypeOK
<1>3. FifoConservation'
  BY <1>1 DEF LbqInv, FifoConservation
<1> QED
  BY <1>2, <1>3 DEF LbqInv, NoLostWakeup, PeekStable, DoneIsSettled

(* Every step keeps it. *)
LEMMA NextLbqInv == LbqInv /\ [LbqNext]_lbqVars => LbqInv'
<1> SUFFICES ASSUME LbqInv, [LbqNext]_lbqVars PROVE LbqInv'
  OBVIOUS
<1>0. /\ LbqTypeOK /\ NoLostWakeup /\ FifoConservation /\ PeekStable /\ DoneIsSettled
      /\ q \in QueueOf(Items) /\ q.items \in Seq(Items) /\ Len(q.items) \in Nat
  BY LenProperties DEF LbqInv, LbqTypeOK, QueueOf
<1>1. ASSUME NEW t \in Callers, NEW x \in Items, Offer(t, x) PROVE LbqInv'
  <2>1. /\ q' \in QueueOf(Items) /\ q'.items = Append(q.items, x)
        /\ q'.shutdown = q.shutdown /\ q'.draining = q.draining
        /\ ~q.shutdown /\ ~q.draining
        /\ Len(q'.items) <= SizeBound /\ q'.items # <<>>
        /\ q.items # <<>> => Head(q'.items) = Head(q.items)
    BY <1>0, <1>1, OfferedProperties DEF Offer, LbqTypeOK
  <2>2. accepted' \in Seq(Items)
    BY <1>0, <1>1, AppendProperties DEF Offer, LbqTypeOK
  <2>3. pc' \in [Callers -> {"idle", "signal"}]
    BY <1>0, <1>1 DEF Offer, LbqTypeOK
  <2>4. LbqTypeOK'
    BY <1>0, <1>1, <2>1, <2>2, <2>3 DEF Offer, LbqTypeOK
  <2>5. NoLostWakeup'
    <3>1. CASE q.items = <<>>
      BY <1>0, <1>1, <3>1 DEF Offer, OfferSignals, IsEmpty, NoLostWakeup, LbqTypeOK
    <3>2. CASE q.items # <<>>
      BY <1>0, <1>1, <3>2 DEF Offer, OfferSignals, IsEmpty, NoLostWakeup, WaitBlocks
    <3> QED
      BY <3>1, <3>2
  <2>6. FifoConservation'
    <3>1. Append(removed \o q.items, x) = removed \o Append(q.items, x)
      <4>1. removed \in Seq(Items) /\ q.items \in Seq(Items) /\ x \in Items
        BY <1>0 DEF LbqTypeOK
      <4> QED
        BY <4>1, AppendToConcat
    <3> QED
      BY <1>0, <1>1, <2>1, <3>1 DEF Offer, FifoConservation
  <2>7. PeekStable' /\ DoneIsSettled'
    BY <1>0, <1>1, <2>1 DEF Offer, PeekStable, DoneIsSettled, IsEmpty
  <2> QED
    BY <2>4, <2>5, <2>6, <2>7 DEF LbqInv
<1>2. ASSUME NEW t \in Callers, Flush(t) PROVE LbqInv'
  <2>1. /\ q' \in QueueOf(Items) /\ q'.items = <<>>
        /\ q'.shutdown = q.shutdown /\ q'.draining = q.draining
        /\ q'.pendingUserWake = q.pendingUserWake
    <3>1. <<>> \in Seq(Items)
      OBVIOUS
    <3> QED
      BY <1>0, <1>2, <3>1 DEF Flush, Flushed, QueueOf
  <2>2. removed' \in Seq(Items) /\ Len(q'.items) = 0
    BY <1>0, <1>2, <2>1, ConcatProperties DEF Flush, LbqTypeOK
  <2>3. LbqTypeOK'
    BY <1>0, <1>2, <2>1, <2>2, SizeBoundAssumption DEF Flush, LbqTypeOK
  <2>4. NoLostWakeup'
    BY <1>0, <1>2, <2>1 DEF Flush, NoLostWakeup, WaitBlocks, IsEmpty
  <2>5. FifoConservation'
    BY <1>0, <1>2, <2>1, <2>2, ConcatEmptySeq DEF Flush, FifoConservation
  <2>6. PeekStable'
    <3> SUFFICES ASSUME peeked # NoItem PROVE peeked \in Elements(removed')
      BY <1>2 DEF Flush, PeekStable
    <3>1. CASE peeked \in Elements(removed)
      <4>1. PICK i \in DOMAIN removed : removed[i] = peeked
        BY <3>1 DEF Elements
      <4>2. i \in DOMAIN removed' /\ removed'[i] = removed[i]
        BY <1>0, <1>2, <2>2, <4>1, ConcatProperties, LenProperties DEF Flush, LbqTypeOK
      <4> QED
        BY <4>1, <4>2 DEF Elements
    <3>2. CASE q.items # <<>> /\ Head(q.items) = peeked
      <4>1. Len(q.items) > 0 /\ q.items[1] = peeked /\ Len(removed) \in Nat
        BY <1>0, <3>2, LenProperties, EmptySeq DEF LbqTypeOK
      <4>2. /\ Len(removed) + 1 \in DOMAIN removed'
            /\ removed'[Len(removed) + 1] = q.items[1]
        BY <1>0, <1>2, <2>2, <4>1, ConcatProperties, LenProperties DEF Flush, LbqTypeOK
      <4> QED
        BY <4>1, <4>2 DEF Elements
    <3> QED
      BY <1>0, <3>1, <3>2 DEF PeekStable, IsEmpty
  <2>7. DoneIsSettled'
    BY <1>0, <1>2, <2>1 DEF Flush, DoneIsSettled
  <2> QED
    BY <2>3, <2>4, <2>5, <2>6, <2>7 DEF LbqInv
<1>3. ASSUME NEW t \in Callers,
             SignalQueueShutdown(t) \/ SignalQueueDrain(t) \/ SignalQueueUserWake(t)
      PROVE  LbqInv'
  <2> USE DEF SignalQueueShutdown, SignalQueueDrain, SignalQueueUserWake
  <2>1. /\ q' \in QueueOf(Items) /\ q'.items = q.items
        /\ q.shutdown => q'.shutdown
        /\ q.draining => q'.draining
    BY <1>0, <1>3 DEF QueueOf, ShutDown, Drained, UserWoken
  <2>2. pc' \in [Callers -> {"idle", "signal"}] /\ pc'[t] = "signal"
    BY <1>0, <1>3 DEF LbqTypeOK, UnlockThenSignal
  <2>3. LbqTypeOK'
    BY <1>0, <1>3, <2>1, <2>2 DEF LbqTypeOK
  <2>4. NoLostWakeup'
    BY <2>2 DEF NoLostWakeup
  <2> QED
    BY <1>0, <1>3, <2>1, <2>3, <2>4
       DEF LbqInv, FifoConservation, PeekStable, DoneIsSettled, IsEmpty
<1>4. ASSUME NEW t \in Callers, SignalCond(t) PROVE LbqInv'
  <2>1. consumer' # "asleep"
    BY <1>4 DEF SignalCond
  <2>2. consumer' = "done" => consumer = "done"
    BY <1>4 DEF SignalCond
  <2> QED
    BY <1>0, <1>4, <2>1, <2>2
       DEF LbqInv, SignalCond, LbqTypeOK, NoLostWakeup, FifoConservation, PeekStable, DoneIsSettled
<1>5. CASE WaitSleep
  BY <1>0, <1>5
     DEF LbqInv, WaitSleep, LbqTypeOK, NoLostWakeup, FifoConservation, PeekStable, DoneIsSettled
<1>6. CASE WaitReturn
  <2>1. CASE WaitStatus(q) = LBQ_SUCCESS
    <3>1. /\ q' \in QueueOf(Items) /\ q'.items = Tail(q.items)
          /\ q'.shutdown = q.shutdown /\ q'.draining = q.draining
          /\ ~q.shutdown /\ q.items # <<>>
      BY <1>0, <1>6, <2>1, WaitedProperties DEF WaitReturn
    <3>2. TakeHead /\ consumer' = "out"
      BY <1>6, <2>1 DEF WaitReturn, LBQ_SUCCESS, LBQ_INTERRUPTED
    <3> QED
      BY <1>6, <3>1, <3>2, TakeHeadLbqInv DEF WaitReturn
  <2>2. CASE WaitStatus(q) # LBQ_SUCCESS
    <3>1. /\ q' \in QueueOf(Items) /\ q'.items = q.items
          /\ q'.shutdown = q.shutdown /\ q'.draining = q.draining
          /\ consumer' = "done" => q.shutdown \/ (q.draining /\ q.items = <<>>)
          /\ consumer' \in {"out", "done"}
          /\ UNCHANGED <<removed, delivered, peeked>>
      BY <1>0, <1>6, <2>2, WaitedProperties DEF WaitReturn
    <3> QED
      BY <1>0, <1>6, <3>1
         DEF WaitReturn, LbqInv, LbqTypeOK, NoLostWakeup, FifoConservation, PeekStable,
             DoneIsSettled, IsEmpty
  <2> QED
    BY <2>1, <2>2
<1>7. CASE PollQueueElement
  <2>1. /\ q' \in QueueOf(Items) /\ q'.items = Tail(q.items)
        /\ q'.shutdown = q.shutdown /\ q'.draining = q.draining
        /\ ~q.shutdown /\ q.items # <<>>
    BY <1>0, <1>7, PolledProperties DEF PollQueueElement
  <2> QED
    BY <1>7, <2>1, TakeHeadLbqInv DEF PollQueueElement
<1>8. CASE PeekQueueElement
  <2>1. q.items # <<>>
    BY <1>8 DEF PeekQueueElement, PeekStatus, PollStatus, IsEmpty, LBQ_SUCCESS, LBQ_INTERRUPTED, LBQ_NO_ELEMENT
  <2>2. Head(q.items) \in Items
    BY <1>0, <2>1, HeadTailProperties
  <2> QED
    BY <1>0, <1>8, <2>1, <2>2
       DEF PeekQueueElement, LbqInv, LbqTypeOK, NoLostWakeup, FifoConservation, PeekStable, DoneIsSettled, IsEmpty
<1>9. CASE SpuriousWakeup
  BY <1>0, <1>9
     DEF LbqInv, SpuriousWakeup, LbqTypeOK, NoLostWakeup, FifoConservation, PeekStable, DoneIsSettled
<1>10. CASE UNCHANGED lbqVars
  BY <1>0, <1>10
     DEF LbqInv, lbqVars, LbqTypeOK, NoLostWakeup, FifoConservation, PeekStable, DoneIsSettled, WaitBlocks
<1> QED
  BY <1>1, <1>2, <1>3, <1>4, <1>5, <1>6, <1>7, <1>8, <1>9, <1>10 DEF LbqNext, ThreadStep

(* The invariant holds in every behaviour. *)
THEOREM LbqInvariance == LbqSpec => []LbqInv
<1>1. LbqInit => LbqInv
  BY InitLbqInv
<1>2. LbqInv /\ [LbqNext]_lbqVars => LbqInv'
  BY NextLbqInv
<1> QED
  BY <1>1, <1>2, PTL DEF LbqSpec

-------------------------------------------------------------------------------
(* The properties the invariant carries. *)

(* Every variable keeps its type and the queue its bound. *)
THEOREM QueueTyped == LbqSpec => []LbqTypeOK
<1>1. LbqInv => LbqTypeOK
  BY DEF LbqInv
<1> QED
  BY <1>1, LbqInvariance, PTL

(* No wake-up is lost: a consumer asleep on a queue that has something for it *)
(* is about to be signalled.                                                  *)
THEOREM WakeupsAreKept == LbqSpec => []NoLostWakeup
<1>1. LbqInv => NoLostWakeup
  BY DEF LbqInv
<1> QED
  BY <1>1, LbqInvariance, PTL

(* Items leave once, in the order they were accepted, and none is lost. *)
THEOREM ItemsLeaveInOrder == LbqSpec => []FifoConservation
<1>1. LbqInv => FifoConservation
  BY DEF LbqInv
<1> QED
  BY <1>1, LbqInvariance, PTL

(* A peeked pointer stays at the head until the item is removed. *)
THEOREM PeeksAreStable == LbqSpec => []PeekStable
<1>1. LbqInv => PeekStable
  BY DEF LbqInv
<1> QED
  BY <1>1, LbqInvariance, PTL

(* A consumer that left a drained queue left nothing behind. *)
THEOREM DrainIsComplete == LbqSpec => []DrainLosesNothing
<1>1. LbqInv => DrainLosesNothing
  <2> SUFFICES ASSUME LbqInv, consumer = "done", ~q.shutdown PROVE removed = accepted
    BY DEF DrainLosesNothing
  <2>1. q.items = <<>> /\ removed \in Seq(Items) /\ accepted = removed \o q.items
    BY DEF LbqInv, DoneIsSettled, FifoConservation, LbqTypeOK
  <2> QED
    BY <2>1, ConcatEmptySeq
<1> QED
  BY <1>1, LbqInvariance, PTL

(* Nothing is accepted or handed out after a shutdown. *)
THEOREM ShutdownStops == LbqSpec => ShutdownIsFinal
<1>1. LbqInv /\ [LbqNext]_lbqVars =>
        [q.shutdown => q'.shutdown /\ delivered' = delivered /\ accepted' = accepted]_lbqVars
  <2> SUFFICES ASSUME LbqInv, [LbqNext]_lbqVars, q.shutdown
               PROVE  q'.shutdown /\ delivered' = delivered /\ accepted' = accepted
    OBVIOUS
  <2>0. q \in QueueOf(Items)
    BY DEF LbqInv, LbqTypeOK
  <2>1. ASSUME NEW t \in Callers, NEW x \in Items, Offer(t, x) PROVE FALSE
    BY <2>1 DEF Offer, OfferStatus, LBQ_SUCCESS, LBQ_INTERRUPTED
  <2>2. CASE PollQueueElement
    BY <2>2 DEF PollQueueElement, PollStatus, LBQ_SUCCESS, LBQ_INTERRUPTED
  <2>3. CASE WaitReturn
    BY <2>0, <2>3, WaitedProperties DEF WaitReturn
  <2>4. ASSUME NEW t \in Callers,
               Flush(t) \/ SignalQueueShutdown(t) \/ SignalQueueDrain(t)
                 \/ SignalQueueUserWake(t) \/ SignalCond(t)
        PROVE  q'.shutdown /\ delivered' = delivered /\ accepted' = accepted
    BY <2>0, <2>4
       DEF Flush, SignalQueueShutdown, SignalQueueDrain, SignalQueueUserWake, SignalCond,
           Flushed, ShutDown, Drained, UserWoken, QueueOf
  <2>5. CASE WaitSleep \/ PeekQueueElement \/ SpuriousWakeup \/ UNCHANGED lbqVars
    BY <2>5 DEF WaitSleep, PeekQueueElement, SpuriousWakeup, lbqVars
  <2> QED
    BY <2>1, <2>2, <2>3, <2>4, <2>5 DEF LbqNext, ThreadStep
<1> QED
  BY <1>1, LbqInvariance, PTL DEF LbqSpec, ShutdownIsFinal

-------------------------------------------------------------------------------
(* The queue implements the bounded FIFO. *)

(* Taking the head is the abstract Take. *)
LEMMA TakeHeadRefines ==
  ASSUME LbqInv, TakeHead, q.items # <<>>, ~q.shutdown,
         q'.shutdown = q.shutdown, q'.draining = q.draining, accepted' = accepted
  PROVE  Fifo!Take
<1>1. /\ removed \in Seq(Items) /\ q.items \in Seq(Items)
      /\ Len(accepted) = Len(removed) + Len(q.items)
  BY ConcatProperties DEF LbqInv, LbqTypeOK, QueueOf, FifoConservation
<1>2. Len(q.items) \in Nat \ {0} /\ Len(removed) \in Nat
  BY <1>1, EmptySeq, LenProperties
<1>3. Len(removed') = Len(removed) + 1
  BY <1>1, MoveHead, AppendProperties DEF TakeHead
<1> QED
  BY <1>1, <1>2, <1>3 DEF Fifo!Take, Mode

(* Every step of the queue is a step of the bounded FIFO or leaves it alone. *)
LEMMA StepRefines == LbqInv /\ [LbqNext]_lbqVars => [Fifo!Next]_(Fifo!vars)
<1> SUFFICES ASSUME LbqInv, [LbqNext]_lbqVars PROVE [Fifo!Next]_(Fifo!vars)
  OBVIOUS
<1>0. /\ q \in QueueOf(Items) /\ removed \in Seq(Items) /\ q.items \in Seq(Items)
      /\ Len(accepted) = Len(removed) + Len(q.items) /\ Len(q.items) <= SizeBound
      /\ Len(removed) \in Nat /\ Len(q.items) \in Nat
  BY ConcatProperties, LenProperties DEF LbqInv, LbqTypeOK, QueueOf, FifoConservation
<1> USE DEF Fifo!vars, Mode
<1>1. ASSUME NEW t \in Callers, NEW x \in Items, Offer(t, x) PROVE Fifo!Put(x)
  <2>1. /\ ~q.shutdown /\ ~q.draining /\ Len(q.items) < SizeBound
        /\ q'.shutdown = q.shutdown /\ q'.draining = q.draining
    BY <1>0, <1>1, OfferedProperties DEF Offer
  <2> QED
    BY <1>0, <1>1, <2>1, SizeBoundAssumption DEF Offer, Fifo!Put
<1>2. ASSUME NEW t \in Callers, Flush(t) PROVE Fifo!Clear
  <2>1. q'.shutdown = q.shutdown /\ q'.draining = q.draining
    BY <1>0, <1>2 DEF Flush, Flushed, QueueOf
  <2>2. Len(removed') = Len(accepted)
    BY <1>0, <1>2, ConcatProperties DEF Flush
  <2> QED
    BY <1>2, <2>1, <2>2 DEF Flush, Fifo!Clear
<1>3. ASSUME NEW t \in Callers, SignalQueueShutdown(t) PROVE Fifo!Close
  BY <1>0, <1>3 DEF SignalQueueShutdown, ShutDown, QueueOf, Fifo!Close
<1>4. ASSUME NEW t \in Callers, SignalQueueDrain(t)
      PROVE  Fifo!Drain \/ UNCHANGED Fifo!vars
  BY <1>0, <1>4 DEF SignalQueueDrain, Drained, QueueOf, Fifo!Drain
<1>5. ASSUME NEW t \in Callers, SignalQueueUserWake(t) \/ SignalCond(t)
      PROVE  UNCHANGED Fifo!vars
  BY <1>0, <1>5 DEF SignalQueueUserWake, SignalCond, UserWoken, QueueOf
<1>6. CASE WaitReturn
  <2>1. q'.shutdown = q.shutdown /\ q'.draining = q.draining
    BY <1>0, <1>6, WaitedProperties DEF WaitReturn
  <2>2. CASE WaitStatus(q) = LBQ_SUCCESS
    <3>1. ~q.shutdown /\ q.items # <<>>
      BY <1>0, <1>6, <2>2, WaitedProperties DEF WaitReturn
    <3>2. TakeHead /\ accepted' = accepted
      BY <1>6, <2>2 DEF WaitReturn
    <3>3. Fifo!Take
      BY <2>1, <3>1, <3>2, TakeHeadRefines
    <3> QED
      BY <3>3 DEF Fifo!Next
  <2>3. CASE WaitStatus(q) # LBQ_SUCCESS
    BY <1>6, <2>1, <2>3 DEF WaitReturn
  <2> QED
    BY <2>2, <2>3
<1>7. CASE PollQueueElement
  <2>1. /\ ~q.shutdown /\ q.items # <<>>
        /\ q'.shutdown = q.shutdown /\ q'.draining = q.draining
    BY <1>0, <1>7, PolledProperties DEF PollQueueElement
  <2>2. Fifo!Take
    BY <1>7, <2>1, TakeHeadRefines DEF PollQueueElement
  <2> QED
    BY <2>2 DEF Fifo!Next
<1>8. CASE WaitSleep \/ PeekQueueElement \/ SpuriousWakeup \/ UNCHANGED lbqVars
  BY <1>8 DEF WaitSleep, PeekQueueElement, SpuriousWakeup, lbqVars
<1> QED
  BY <1>1, <1>2, <1>3, <1>4, <1>5, <1>6, <1>7, <1>8 DEF LbqNext, ThreadStep, Fifo!Next

(* The initial states agree, and so do all steps: whatever the threads do, the *)
(* queue behaves as the bounded FIFO.                                          *)
THEOREM QueueImplementsFifo == LbqSpec => ImplementsFifo
<1>1. LbqInit => Fifo!Init
  BY DEF LbqInit, NewQueue, Fifo!Init, Mode
<1> QED
  BY <1>1, StepRefines, LbqInvariance, PTL DEF LbqSpec, ImplementsFifo, Fifo!Spec

-------------------------------------------------------------------------------
(* The scripts of a connection. *)

(* The subjects of "try". *)
Tries == {"platform", "name", "RTSP", "enet", "StartA", "StartB", "video", "audio"}

(* The instructions of all scripts. *)
Instructions ==
  ({"try"} \X Tries)
  \cup ({"create", "attempt", "interrupt", "join"} \X Threads)
  \cup ({"initialize", "shutdown", "drain", "destroy"} \X Queues)
  \cup ({"alreadyTerminated", "ConnectionInterrupted", "stopping", "initialized", "peer",
         "event"} \X BOOLEAN)
  \cup ({"stage"} \X (0 .. 11))

(* The threads that are there: created, and not joined yet. *)
Created == {t \in Threads : thread[t] # "none"}

(* The threads that the session of this setup has when it is established. *)
Has(t) ==
  CASE t = "InvRef" -> rfiEnabled [] t = "VideoDec" -> ~directVideo
    [] t = "AudioDec" -> ~directAudio [] OTHER -> TRUE

(* The stage to which a step of the start that may fail leads; the ping of the *)
(* audio stream, which is not missed when it fails, is stopped with stage 3.   *)
StageOf(x) ==
  CASE x = "platform" -> 1 [] x = "name" -> 2 [] x = "AudioPing" -> 3 [] x = "RTSP" -> 4
    [] x \in {"enet", "ControlRecv", "StartA", "StartB", "LossStats", "ReqIdr", "AsyncCb",
              "InvRef"} -> 8
    [] x \in {"video", "VideoRecv", "VideoDec", "VideoPing"} -> 9
    [] x \in {"audio", "AudioRecv", "AudioDec"} -> 10
    [] x = "InputSend" -> 11

(* Where an instruction stands in the start, twenty places for each stage. *)
StepRank(x) ==
  CASE x = "platform" -> 20 [] x = "name" -> 40 [] x = "AudioPing" -> 80 [] x = "RTSP" -> 81
    [] x = "enet" -> 160 [] x = "ControlRecv" -> 162 [] x = "StartA" -> 163
    [] x = "StartB" -> 164 [] x = "LossStats" -> 165 [] x = "ReqIdr" -> 166
    [] x = "AsyncCb" -> 167 [] x = "InvRef" -> 168
    [] x = "video" -> 180 [] x = "VideoRecv" -> 181 [] x = "VideoDec" -> 182
    [] x = "VideoPing" -> 183
    [] x = "audio" -> 200 [] x = "AudioRecv" -> 201 [] x = "AudioDec" -> 202
    [] x = "InputSend" -> 220

(* Where the initialization of a queue stands. *)
QueueRank(w) ==
  CASE w = "audio" -> 60 [] w = "rfi" -> 102 [] w = "async" -> 103 [] w = "video" -> 120
    [] w = "input" -> 140

(* The place of an instruction of the start. *)
Rank(a) ==
  CASE a[1] \in {"try", "create", "attempt"} -> StepRank(a[2])
    [] a[1] = "initialize" -> QueueRank(a[2])
    [] a[1] = "stage" -> 20 * a[2] + 19
    [] a[1] = "stopping" -> 100 [] a[1] = "event" -> 101
    [] a[1] = "peer" -> 161 [] a[1] = "initialized" -> 221

(* No two instructions have the same place, and the earlier comes first. *)
Ascending(s) == \A i, j \in DOMAIN s : i < j => Rank(s[i]) < Rank(s[j])

(* The instructions of the start. *)
Plan ==
  ({"try"} \X Tries)
  \cup {<<"create", t>> : t \in {u \in Threads \ {"AudioPing"} : Has(u)}}
  \cup ({"initialize"} \X Queues)
  \cup ({"stage"} \X (1 .. 11))
  \cup {<<"attempt", "AudioPing">>, <<"peer", TRUE>>, <<"stopping", FALSE>>, <<"event", FALSE>>,
        <<"initialized", TRUE>>}

(* s is a piece of the start between two ranks, with the instructions E. *)
Piece(s, lo, hi, E) ==
  /\ s \in Seq(Instructions)
  /\ Elements(s) = E
  /\ Ascending(s)
  /\ \A a \in E : lo <= Rank(a) /\ Rank(a) < hi /\ Rank(a) \in Nat

(* A concatenation has the elements of both parts. *)
LEMMA ConcatElements ==
  ASSUME NEW S, NEW r \in Seq(S), NEW s \in Seq(S)
  PROVE  r \o s \in Seq(S) /\ Elements(r \o s) = Elements(r) \cup Elements(s)
<1>1. /\ r \o s \in Seq(S) /\ Len(r \o s) = Len(r) + Len(s)
      /\ \A i \in 1 .. Len(r) + Len(s) :
           (r \o s)[i] = IF i <= Len(r) THEN r[i] ELSE s[i - Len(r)]
  BY ConcatProperties
<1>2. Len(r) \in Nat /\ Len(s) \in Nat /\ DOMAIN r = 1 .. Len(r) /\ DOMAIN s = 1 .. Len(s)
      /\ DOMAIN (r \o s) = 1 .. Len(r) + Len(s)
  BY <1>1, LenProperties
<1>3. ASSUME NEW i \in DOMAIN s PROVE i + Len(r) \in DOMAIN (r \o s) /\ (r \o s)[i + Len(r)] = s[i]
  BY <1>1, <1>2
<1>4. ASSUME NEW i \in DOMAIN r PROVE i \in DOMAIN (r \o s) /\ (r \o s)[i] = r[i]
  BY <1>1, <1>2
<1>5. ASSUME NEW i \in DOMAIN (r \o s)
      PROVE  (r \o s)[i] \in Elements(r) \cup Elements(s)
  <2>1. CASE i <= Len(r)
    BY <1>1, <1>2, <2>1 DEF Elements
  <2>2. CASE ~(i <= Len(r))
    <3>1. i - Len(r) \in DOMAIN s /\ (r \o s)[i] = s[i - Len(r)]
      BY <1>1, <1>2, <2>2
    <3> QED
      BY <3>1 DEF Elements
  <2> QED
    BY <2>1, <2>2
<1>6. Elements(r) \subseteq Elements(r \o s) /\ Elements(s) \subseteq Elements(r \o s)
  BY <1>3, <1>4 DEF Elements
<1>7. Elements(r \o s) \subseteq Elements(r) \cup Elements(s)
  BY <1>5 DEF Elements
<1> QED
  BY <1>1, <1>6, <1>7

(* The elements of a script are its head and those of its tail. *)
LEMMA TailElements ==
  ASSUME NEW S, NEW s \in Seq(S), s # <<>>
  PROVE  /\ Head(s) \in S /\ Tail(s) \in Seq(S)
         /\ Elements(s) = {Head(s)} \cup Elements(Tail(s))
<1> DEFINE r == <<Head(s)>>
           u == Tail(s)
<1>1. Head(s) \in S /\ u \in Seq(S) /\ r \o u = s
  BY HeadTailProperties
<1>2. r \in Seq(S) /\ Elements(r) = {Head(s)}
  BY <1>1 DEF Elements
<1>3. Elements(r \o u) = Elements(r) \cup Elements(u)
  <2> HIDE DEF r, u
  <2> QED
    BY <1>1, <1>2, ConcatElements
<1> QED
  BY <1>1, <1>2, <1>3

(* A relation that holds of every element of a script and every later one. *)
LEMMA ConcatIndices ==
  ASSUME NEW S, NEW r \in Seq(S), NEW s \in Seq(S),
         NEW i \in DOMAIN (r \o s), NEW j \in DOMAIN (r \o s), i < j
  PROVE  \/ /\ i \in DOMAIN r /\ j \in DOMAIN r
            /\ (r \o s)[i] = r[i] /\ (r \o s)[j] = r[j]
         \/ (r \o s)[i] \in Elements(r) /\ (r \o s)[j] \in Elements(s)
         \/ \E k, l \in DOMAIN s : k < l /\ (r \o s)[i] = s[k] /\ (r \o s)[j] = s[l]
<1>1. /\ Len(r \o s) = Len(r) + Len(s) /\ r \o s \in Seq(S)
      /\ \A k \in 1 .. Len(r) + Len(s) :
           (r \o s)[k] = IF k <= Len(r) THEN r[k] ELSE s[k - Len(r)]
  BY ConcatProperties
<1>2. Len(r) \in Nat /\ Len(s) \in Nat /\ DOMAIN r = 1 .. Len(r) /\ DOMAIN s = 1 .. Len(s)
      /\ DOMAIN (r \o s) = 1 .. Len(r) + Len(s)
  BY <1>1, LenProperties
<1>3. CASE j <= Len(r)
  BY <1>1, <1>2, <1>3
<1>4. CASE i <= Len(r) /\ ~(j <= Len(r))
  <2>1. i \in DOMAIN r /\ (r \o s)[i] = r[i]
    BY <1>1, <1>2, <1>4
  <2>2. j - Len(r) \in DOMAIN s /\ (r \o s)[j] = s[j - Len(r)]
    BY <1>1, <1>2, <1>4
  <2> QED
    BY <2>1, <2>2 DEF Elements
<1>5. CASE ~(i <= Len(r))
  <2>1. i - Len(r) \in DOMAIN s /\ (r \o s)[i] = s[i - Len(r)]
    BY <1>1, <1>2, <1>5
  <2>2. j - Len(r) \in DOMAIN s /\ (r \o s)[j] = s[j - Len(r)]
    BY <1>1, <1>2, <1>5
  <2>3. i - Len(r) < j - Len(r)
    BY <1>2
  <2> QED
    BY <2>1, <2>2, <2>3
<1> QED
  BY <1>2, <1>3, <1>4, <1>5

(* The tail is the script from its second place on. *)
LEMMA TailIndices ==
  ASSUME NEW S, NEW s \in Seq(S), s # <<>>
  PROVE  /\ \A i \in DOMAIN Tail(s) : i + 1 \in DOMAIN s /\ Tail(s)[i] = s[i + 1]
         /\ \A a \in Elements(Tail(s)) : \E j \in DOMAIN s : 1 < j /\ s[j] = a
         /\ \A i, j \in DOMAIN Tail(s) : i < j => i + 1 < j + 1
         /\ 1 \in DOMAIN s /\ Head(s) = s[1]
<1>1. /\ Tail(s) \in Seq(S) /\ Len(Tail(s)) = Len(s) - 1 /\ Len(s) \in Nat \ {0}
      /\ DOMAIN s = 1 .. Len(s) /\ DOMAIN Tail(s) = 1 .. Len(s) - 1
  BY HeadTailProperties, LenProperties, EmptySeq
<1>2. \A i \in DOMAIN Tail(s) : i + 1 \in DOMAIN s /\ Tail(s)[i] = s[i + 1] /\ 1 < i + 1
  BY <1>1, HeadTailProperties
<1>3. \A a \in Elements(Tail(s)) : \E j \in DOMAIN s : 1 < j /\ s[j] = a
  BY <1>2 DEF Elements
<1> QED
  BY <1>1, <1>2, <1>3

(* Two pieces of the start, one after the other, are a piece of it. *)
LEMMA PieceConcat ==
  ASSUME NEW r, NEW s, NEW lo \in Nat, NEW mid \in Nat, NEW mid2 \in Nat, NEW hi \in Nat, NEW D, NEW E,
         Piece(r, lo, mid, D), Piece(s, mid2, hi, E), lo <= mid, mid <= mid2, mid2 <= hi
  PROVE  Piece(r \o s, lo, hi, D \cup E)
<1>1. /\ r \in Seq(Instructions) /\ s \in Seq(Instructions)
      /\ Elements(r) = D /\ Elements(s) = E
      /\ Ascending(r) /\ Ascending(s)
  BY DEF Piece
<1>2. \A a \in D : lo <= Rank(a) /\ Rank(a) < mid /\ Rank(a) \in Nat
  BY DEF Piece
<1>3. \A a \in E : mid2 <= Rank(a) /\ Rank(a) < hi /\ Rank(a) \in Nat
  BY DEF Piece
<1>4. r \o s \in Seq(Instructions) /\ Elements(r \o s) = D \cup E
  BY <1>1, ConcatElements
<1>5. ASSUME NEW a \in D \cup E
      PROVE  lo <= Rank(a) /\ Rank(a) < hi /\ Rank(a) \in Nat
  BY <1>2, <1>3
<1>6. ASSUME NEW i \in DOMAIN (r \o s), NEW j \in DOMAIN (r \o s), i < j
      PROVE  Rank((r \o s)[i]) < Rank((r \o s)[j])
  <2> DEFINE a == (r \o s)[i]
             b == (r \o s)[j]
  <2>1. \/ i \in DOMAIN r /\ j \in DOMAIN r /\ a = r[i] /\ b = r[j]
        \/ a \in Elements(r) /\ b \in Elements(s)
        \/ \E k, l \in DOMAIN s : k < l /\ a = s[k] /\ b = s[l]
    BY <1>1, <1>6, ConcatIndices
  <2> SUFFICES Rank(a) < Rank(b)
    BY DEF a, b
  <2> HIDE DEF a, b
  <2>2. CASE i \in DOMAIN r /\ j \in DOMAIN r /\ a = r[i] /\ b = r[j]
    BY <1>1, <1>6, <2>2 DEF Ascending
  <2>3. CASE a \in Elements(r) /\ b \in Elements(s)
    <3>1. Rank(a) < mid /\ mid2 <= Rank(b) /\ Rank(a) \in Nat /\ Rank(b) \in Nat
      BY <1>1, <1>2, <1>3, <2>3
    <3> QED
      BY <3>1
  <2>4. CASE \E k, l \in DOMAIN s : k < l /\ a = s[k] /\ b = s[l]
    BY <1>1, <2>4 DEF Ascending
  <2> QED
    BY <2>1, <2>2, <2>3, <2>4
<1>7. Ascending(r \o s)
  BY <1>6 DEF Ascending
<1> QED
  BY <1>4, <1>5, <1>7 DEF Piece

(* The empty piece. *)
LEMMA PieceEmpty ==
  ASSUME NEW lo, NEW hi PROVE Piece(<<>>, lo, hi, {})
BY DEF Piece, Elements, Ascending

(* A piece of one instruction ... *)
LEMMA PieceOne ==
  ASSUME NEW a \in Instructions, NEW k \in Nat, NEW l \in Nat, Rank(a) = k, l = k + 1
  PROVE  Piece(<<a>>, k, l, {a})
<1>1. <<a>> \in Seq(Instructions) /\ Elements(<<a>>) = {a} /\ Ascending(<<a>>)
  BY DEF Elements, Ascending
<1> QED
  BY <1>1 DEF Piece

(* ... of two, ... *)
LEMMA PieceTwo ==
  ASSUME NEW a \in Instructions, NEW b \in Instructions, NEW k \in Nat, NEW l \in Nat,
         Rank(a) = k, Rank(b) = k + 1, l = k + 2
  PROVE  Piece(<<a, b>>, k, l, {a, b})
<1>1. <<a, b>> \in Seq(Instructions) /\ Elements(<<a, b>>) = {a, b}
  BY DEF Elements
<1>2. Ascending(<<a, b>>)
  BY DEF Ascending
<1> QED
  BY <1>1, <1>2 DEF Piece

(* ... and of four. *)
LEMMA PieceFour ==
  ASSUME NEW a \in Instructions, NEW b \in Instructions, NEW c \in Instructions,
         NEW d \in Instructions, NEW k \in Nat, NEW l \in Nat,
         Rank(a) = k, Rank(b) = k + 1, Rank(c) = k + 2, Rank(d) = k + 3, l = k + 4
  PROVE  Piece(<<a, b, c, d>>, k, l, {a, b, c, d})
<1>1. <<a, b, c, d>> \in Seq(Instructions) /\ Elements(<<a, b, c, d>>) = {a, b, c, d}
  BY DEF Elements
<1>2. Ascending(<<a, b, c, d>>)
  BY DEF Ascending
<1> QED
  BY <1>1, <1>2 DEF Piece

(* What is an instruction. *)
LEMMA IsInstruction ==
  /\ \A x \in Tries : <<"try", x>> \in Instructions
  /\ \A t \in Threads : /\ <<"create", t>> \in Instructions /\ <<"attempt", t>> \in Instructions
                        /\ <<"interrupt", t>> \in Instructions /\ <<"join", t>> \in Instructions
  /\ \A w \in Queues : /\ <<"initialize", w>> \in Instructions
                       /\ <<"shutdown", w>> \in Instructions
                       /\ <<"drain", w>> \in Instructions /\ <<"destroy", w>> \in Instructions
  /\ \A b \in BOOLEAN : /\ <<"alreadyTerminated", b>> \in Instructions
                        /\ <<"ConnectionInterrupted", b>> \in Instructions
                        /\ <<"stopping", b>> \in Instructions
                        /\ <<"initialized", b>> \in Instructions
                        /\ <<"peer", b>> \in Instructions /\ <<"event", b>> \in Instructions
  /\ \A n \in 0 .. 11 : <<"stage", n>> \in Instructions
BY DEF Instructions

(* Whose instructions are typed. *)
LEMMA InstructionTypes ==
  /\ \A x : <<"interrupt", x>> \in Instructions => x \in Threads
  /\ \A x : <<"join", x>> \in Instructions => x \in Threads
  /\ \A x : <<"create", x>> \in Instructions => x \in Threads
  /\ \A x : <<"attempt", x>> \in Instructions => x \in Threads
  /\ \A x : <<"initialize", x>> \in Instructions => x \in Queues
  /\ \A x : <<"destroy", x>> \in Instructions => x \in Queues
  /\ \A x : <<"stage", x>> \in Instructions => x \in 0 .. 11
  /\ \A x : <<"try", x>> \in Instructions => x \in Tries
BY DEF Instructions

(* The places, by operation. *)
LEMMA Ranks ==
  /\ \A x : /\ Rank(<<"try", x>>) = StepRank(x) /\ Rank(<<"create", x>>) = StepRank(x)
            /\ Rank(<<"attempt", x>>) = StepRank(x)
            /\ Rank(<<"initialize", x>>) = QueueRank(x)
            /\ Rank(<<"stage", x>>) = 20 * x + 19
            /\ Rank(<<"stopping", x>>) = 100 /\ Rank(<<"event", x>>) = 101
            /\ Rank(<<"peer", x>>) = 161 /\ Rank(<<"initialized", x>>) = 221
BY DEF Rank

(* The places of the steps that may fail. *)
LEMMA StepRanks ==
  /\ StepRank("platform") = 20 /\ StepRank("name") = 40 /\ StepRank("AudioPing") = 80
  /\ StepRank("RTSP") = 81 /\ StepRank("enet") = 160 /\ StepRank("ControlRecv") = 162
  /\ StepRank("StartA") = 163 /\ StepRank("StartB") = 164 /\ StepRank("LossStats") = 165
  /\ StepRank("ReqIdr") = 166 /\ StepRank("AsyncCb") = 167 /\ StepRank("InvRef") = 168
  /\ StepRank("video") = 180 /\ StepRank("VideoRecv") = 181 /\ StepRank("VideoDec") = 182
  /\ StepRank("VideoPing") = 183 /\ StepRank("audio") = 200 /\ StepRank("AudioRecv") = 201
  /\ StepRank("AudioDec") = 202 /\ StepRank("InputSend") = 220
BY DEF StepRank

(* The places of the queues. *)
LEMMA QueueRanks ==
  /\ QueueRank("audio") = 60 /\ QueueRank("rfi") = 102 /\ QueueRank("async") = 103
  /\ QueueRank("video") = 120 /\ QueueRank("input") = 140
BY DEF QueueRank

(* The names of the steps, the threads and the queues. *)
LEMMA Names ==
  /\ \A x \in {"platform", "name", "RTSP", "enet", "StartA", "StartB", "video", "audio"} :
       x \in Tries
  /\ \A t \in {"AudioPing", "ControlRecv", "LossStats", "ReqIdr", "AsyncCb", "InvRef",
               "VideoRecv", "VideoDec", "VideoPing", "AudioRecv", "AudioDec", "InputSend"} :
       t \in Threads
  /\ \A w \in {"async", "rfi", "video", "audio", "input"} : w \in Queues
BY DEF Tries, Threads, Queues

(* A stage is added to the start. *)
LEMMA StagePiece ==
  ASSUME NEW k \in 1 .. 11
  PROVE  Piece(Stage(k), 20 * k + 19, 20 * (k + 1), {<<"stage", k>>})
<1>1. <<"stage", k>> \in Instructions
  <2>1. k \in 0 .. 11
    OBVIOUS
  <2> QED
    BY <2>1, IsInstruction
<1>2. Rank(<<"stage", k>>) = 20 * k + 19 /\ 20 * k + 19 \in Nat /\ 20 * (k + 1) \in Nat
      /\ 20 * (k + 1) = 20 * k + 19 + 1
  BY Ranks
<1> QED
  BY <1>1, <1>2, PieceOne DEF Stage

(* What a stage does, and the stage, are added to the start. *)
LEMMA AddStage ==
  ASSUME NEW u, NEW s, NEW k \in 1 .. 11, NEW D, NEW E, NEW lo \in Nat, NEW hi \in Nat,
         Piece(u, 0, 20 * k, D), Piece(s, lo, hi, E), 20 * k <= lo, lo <= hi, hi <= 20 * k + 19
  PROVE  Piece(u \o s \o Stage(k), 0, 20 * (k + 1), D \cup E \cup {<<"stage", k>>})
<1>1. Piece(u \o s, 0, hi, D \cup E)
  BY PieceConcat
<1>2. 20 * k + 19 \in Nat /\ 20 * (k + 1) \in Nat /\ 20 * k + 19 <= 20 * (k + 1)
  OBVIOUS
<1>3. Piece(Stage(k), 20 * k + 19, 20 * (k + 1), {<<"stage", k>>})
  BY StagePiece
<1> QED
  BY <1>1, <1>2, <1>3, PieceConcat

(* The steps of the stages of the streams. *)
LEMMA ControlPiece ==
  Piece(StartControlStream, 160, 169,
        {<<"try", "enet">>, <<"peer", TRUE>>, <<"create", "ControlRecv">>, <<"try", "StartA">>,
         <<"try", "StartB">>, <<"create", "LossStats">>, <<"create", "ReqIdr">>,
         <<"create", "AsyncCb">>} \cup (IF rfiEnabled THEN {<<"create", "InvRef">>} ELSE {}))
<1> DEFINE a == <<"try", "enet">>
           b == <<"peer", TRUE>>
           c == <<"create", "ControlRecv">>
           d == <<"try", "StartA">>
           e == <<"try", "StartB">>
           f == <<"create", "LossStats">>
           g == <<"create", "ReqIdr">>
           h == <<"create", "AsyncCb">>
           w == <<"create", "InvRef">>
<1>1. /\ a \in Instructions /\ b \in Instructions /\ c \in Instructions /\ d \in Instructions
      /\ e \in Instructions /\ f \in Instructions /\ g \in Instructions /\ h \in Instructions
      /\ w \in Instructions
  BY IsInstruction, Names
<1>2. /\ Rank(a) = StepRank("enet") /\ Rank(b) = 161 /\ Rank(c) = StepRank("ControlRecv")
      /\ Rank(d) = StepRank("StartA") /\ Rank(e) = StepRank("StartB")
      /\ Rank(f) = StepRank("LossStats") /\ Rank(g) = StepRank("ReqIdr")
      /\ Rank(h) = StepRank("AsyncCb") /\ Rank(w) = StepRank("InvRef")
  BY Ranks
<1>3. StartControlStream = <<a, b, c, d, e, f, g, h>> \o When(rfiEnabled, <<w>>)
  BY DEF StartControlStream
<1> HIDE DEF a, b, c, d, e, f, g, h, w
<1>8. /\ Rank(a) = 160 /\ Rank(b) = 160 + 1 /\ Rank(c) = 160 + 2 /\ Rank(d) = 160 + 3
  BY <1>2, StepRanks
<1>9. /\ Rank(e) = 160 + 4 /\ Rank(f) = 160 + 5 /\ Rank(g) = 160 + 6 /\ Rank(h) = 160 + 7
      /\ Rank(w) = 168
  BY <1>2, StepRanks
<1>4. Piece(<<a, b, c, d, e, f, g, h>>, 160, 168, {a, b, c, d, e, f, g, h})
  <2>1. /\ <<a, b, c, d, e, f, g, h>> \in Seq(Instructions)
        /\ Elements(<<a, b, c, d, e, f, g, h>>) = {a, b, c, d, e, f, g, h}
    BY <1>1 DEF Elements
  <2>2. Ascending(<<a, b, c, d, e, f, g, h>>)
    BY <1>8, <1>9 DEF Ascending
  <2>3. \A x \in {a, b, c, d, e, f, g, h} :
          160 <= Rank(x) /\ Rank(x) < 168 /\ Rank(x) \in Nat
    BY <1>8, <1>9
  <2> QED
    BY <2>1, <2>2, <2>3 DEF Piece
<1>5. Piece(When(rfiEnabled, <<w>>), 168, 169, IF rfiEnabled THEN {w} ELSE {})
  <2>1. Piece(<<w>>, 168, 169, {w})
    BY <1>1, <1>9, PieceOne
  <2>2. Piece(<<>>, 168, 169, {})
    BY PieceEmpty
  <2> QED
    BY <2>1, <2>2 DEF When
<1>6. Piece(<<a, b, c, d, e, f, g, h>> \o When(rfiEnabled, <<w>>), 160, 169,
            {a, b, c, d, e, f, g, h} \cup (IF rfiEnabled THEN {w} ELSE {}))
  BY <1>4, <1>5, PieceConcat
<1> QED
  BY <1>3, <1>6 DEF a, b, c, d, e, f, g, h, w

(* startVideoStream, as a piece of the start. *)
LEMMA VideoPiece ==
  Piece(StartVideoStream, 180, 184,
        {<<"try", "video">>, <<"create", "VideoRecv">>}
        \cup (IF ~directVideo THEN {<<"create", "VideoDec">>} ELSE {})
        \cup {<<"create", "VideoPing">>})
<1> DEFINE a == <<"try", "video">>
           b == <<"create", "VideoRecv">>
           c == <<"create", "VideoDec">>
           d == <<"create", "VideoPing">>
<1>1. a \in Instructions /\ b \in Instructions /\ c \in Instructions /\ d \in Instructions
  BY IsInstruction, Names
<1>2. /\ Rank(a) = StepRank("video") /\ Rank(b) = StepRank("VideoRecv")
      /\ Rank(c) = StepRank("VideoDec") /\ Rank(d) = StepRank("VideoPing")
  BY Ranks
<1>3. StartVideoStream = <<a, b>> \o When(~directVideo, <<c>>) \o <<d>>
  BY DEF StartVideoStream
<1> HIDE DEF a, b, c, d
<1>4. Rank(a) = 180 /\ Rank(b) = 181 /\ Rank(c) = 182 /\ Rank(d) = 183
  BY <1>2, StepRanks
<1>5. Piece(<<a, b>>, 180, 182, {a, b})
  BY <1>1, <1>4, PieceTwo
<1>6. Piece(<<c>>, 182, 183, {c}) /\ Piece(<<d>>, 183, 184, {d})
  BY <1>1, <1>4, PieceOne
<1>7. Piece(When(~directVideo, <<c>>), 182, 183, IF ~directVideo THEN {c} ELSE {})
  <2>1. Piece(<<>>, 182, 183, {})
    BY PieceEmpty
  <2> QED
    BY <1>6, <2>1 DEF When
<1>8. Piece(<<a, b>> \o When(~directVideo, <<c>>), 180, 183,
            {a, b} \cup (IF ~directVideo THEN {c} ELSE {}))
  BY <1>5, <1>7, PieceConcat
<1>9. Piece((<<a, b>> \o When(~directVideo, <<c>>)) \o <<d>>, 180, 184,
            ({a, b} \cup (IF ~directVideo THEN {c} ELSE {})) \cup {d})
  BY <1>6, <1>8, PieceConcat
<1> QED
  BY <1>3, <1>9 DEF a, b, c, d

(* startAudioStream. *)
LEMMA AudioPiece ==
  Piece(StartAudioStream, 200, 203,
        {<<"try", "audio">>, <<"create", "AudioRecv">>}
        \cup (IF ~directAudio THEN {<<"create", "AudioDec">>} ELSE {}))
<1> DEFINE a == <<"try", "audio">>
           b == <<"create", "AudioRecv">>
           c == <<"create", "AudioDec">>
<1>1. a \in Instructions /\ b \in Instructions /\ c \in Instructions
  BY IsInstruction, Names
<1>2. /\ Rank(a) = StepRank("audio") /\ Rank(b) = StepRank("AudioRecv")
      /\ Rank(c) = StepRank("AudioDec")
  BY Ranks
<1>3. StartAudioStream = <<a, b>> \o When(~directAudio, <<c>>)
  BY DEF StartAudioStream
<1> HIDE DEF a, b, c
<1>4. Rank(a) = 200 /\ Rank(b) = 201 /\ Rank(c) = 202
  BY <1>2, StepRanks
<1>5. Piece(<<a, b>>, 200, 202, {a, b})
  BY <1>1, <1>4, PieceTwo
<1>6. Piece(<<c>>, 202, 203, {c})
  BY <1>1, <1>4, PieceOne
<1>7. Piece(When(~directAudio, <<c>>), 202, 203, IF ~directAudio THEN {c} ELSE {})
  <2>1. Piece(<<>>, 202, 203, {})
    BY PieceEmpty
  <2> QED
    BY <1>6, <2>1 DEF When
<1>8. Piece(<<a, b>> \o When(~directAudio, <<c>>), 200, 203,
            {a, b} \cup (IF ~directAudio THEN {c} ELSE {}))
  BY <1>5, <1>7, PieceConcat
<1> QED
  BY <1>3, <1>8 DEF a, b, c

(* The other stages. *)
LEMMA OtherPieces ==
  /\ Piece(<< <<"try", "platform">> >>, 20, 21, {<<"try", "platform">>})
  /\ Piece(<< <<"try", "name">> >>, 40, 41, {<<"try", "name">>})
  /\ Piece(<< <<"initialize", "audio">> >>, 60, 61, {<<"initialize", "audio">>})
  /\ Piece(<< <<"attempt", "AudioPing">>, <<"try", "RTSP">> >>, 80, 82,
           {<<"attempt", "AudioPing">>, <<"try", "RTSP">>})
  /\ Piece(<< <<"initialize", "video">> >>, 120, 121, {<<"initialize", "video">>})
  /\ Piece(<< <<"initialize", "input">> >>, 140, 141, {<<"initialize", "input">>})
  /\ Piece(StartInputStream, 220, 222, {<<"create", "InputSend">>, <<"initialized", TRUE>>})
<1>2. Piece(<< <<"try", "platform">> >>, 20, 21, {<<"try", "platform">>})
  <2>1. <<"try", "platform">> \in Instructions
    BY IsInstruction, Names
  <2>2. Rank(<<"try", "platform">>) = 20
    BY Ranks, StepRanks
  <2> QED
    BY <2>1, <2>2, PieceOne
<1>3. Piece(<< <<"try", "name">> >>, 40, 41, {<<"try", "name">>})
  <2>1. <<"try", "name">> \in Instructions
    BY IsInstruction, Names
  <2>2. Rank(<<"try", "name">>) = 40
    BY Ranks, StepRanks
  <2> QED
    BY <2>1, <2>2, PieceOne
<1>4. Piece(<< <<"initialize", "audio">> >>, 60, 61, {<<"initialize", "audio">>})
  <2>1. <<"initialize", "audio">> \in Instructions
    BY IsInstruction, Names
  <2>2. Rank(<<"initialize", "audio">>) = 60
    BY Ranks, QueueRanks
  <2> QED
    BY <2>1, <2>2, PieceOne
<1>5. Piece(<< <<"initialize", "video">> >>, 120, 121, {<<"initialize", "video">>})
  <2>1. <<"initialize", "video">> \in Instructions
    BY IsInstruction, Names
  <2>2. Rank(<<"initialize", "video">>) = 120
    BY Ranks, QueueRanks
  <2> QED
    BY <2>1, <2>2, PieceOne
<1>6. Piece(<< <<"initialize", "input">> >>, 140, 141, {<<"initialize", "input">>})
  <2>1. <<"initialize", "input">> \in Instructions
    BY IsInstruction, Names
  <2>2. Rank(<<"initialize", "input">>) = 140
    BY Ranks, QueueRanks
  <2> QED
    BY <2>1, <2>2, PieceOne
<1>7. Piece(<< <<"attempt", "AudioPing">>, <<"try", "RTSP">> >>, 80, 82,
            {<<"attempt", "AudioPing">>, <<"try", "RTSP">>})
  <2> DEFINE a == <<"attempt", "AudioPing">>
             b == <<"try", "RTSP">>
  <2>1. a \in Instructions /\ b \in Instructions
    BY IsInstruction, Names
  <2>2. Rank(a) = 80 /\ Rank(b) = 81
    BY Ranks, StepRanks
  <2> HIDE DEF a, b
  <2>3. Piece(<<a, b>>, 80, 82, {a, b})
    BY <2>1, <2>2, PieceTwo
  <2> QED
    BY <2>3 DEF a, b
<1>8. Piece(StartInputStream, 220, 222, {<<"create", "InputSend">>, <<"initialized", TRUE>>})
  <2> DEFINE a == <<"create", "InputSend">>
             b == <<"initialized", TRUE>>
  <2>1. a \in Instructions /\ b \in Instructions
    BY IsInstruction, Names
  <2>2. Rank(a) = 220 /\ Rank(b) = 221
    BY Ranks, StepRanks
  <2>3. StartInputStream = <<a, b>>
    BY DEF StartInputStream
  <2> HIDE DEF a, b
  <2>4. Piece(<<a, b>>, 220, 222, {a, b})
    BY <2>1, <2>2, PieceTwo
  <2> QED
    BY <2>3, <2>4 DEF a, b
<1> QED
  BY <1>2, <1>3, <1>4, <1>5, <1>6, <1>7, <1>8

(* initializeControlStream. *)
LEMMA InitializePiece ==
  Piece(InitializeControlStream, 100, 104,
        {<<"stopping", FALSE>>, <<"event", FALSE>>, <<"initialize", "rfi">>,
         <<"initialize", "async">>})
<1> DEFINE a == <<"stopping", FALSE>>
           b == <<"event", FALSE>>
           c == <<"initialize", "rfi">>
           d == <<"initialize", "async">>
<1>1. a \in Instructions /\ b \in Instructions /\ c \in Instructions /\ d \in Instructions
  BY IsInstruction, Names
<1>2. Rank(a) = 100 /\ Rank(b) = 101 /\ Rank(c) = 102 /\ Rank(d) = 103
  BY Ranks, QueueRanks
<1>3. InitializeControlStream = <<a, b, c, d>>
  BY DEF InitializeControlStream
<1> HIDE DEF a, b, c, d
<1>4. Piece(<<a, b, c, d>>, 100, 104, {a, b, c, d})
  BY <1>1, <1>2, PieceFour
<1> QED
  BY <1>3, <1>4 DEF a, b, c, d

(* The whole start, stage by stage. *)
LEMMA StartPiece == Piece(StartScript, 0, 240, Plan)
<1> DEFINE E1 == {<<"try", "platform">>}
           E2 == {<<"try", "name">>}
           E3 == {<<"initialize", "audio">>}
           E4 == {<<"attempt", "AudioPing">>, <<"try", "RTSP">>}
           E5 == {<<"stopping", FALSE>>, <<"event", FALSE>>, <<"initialize", "rfi">>,
                   <<"initialize", "async">>}
           E6 == {<<"initialize", "video">>}
           E7 == {<<"initialize", "input">>}
           E8 == {<<"try", "enet">>, <<"peer", TRUE>>, <<"create", "ControlRecv">>, <<"try", "StartA">>,
         <<"try", "StartB">>, <<"create", "LossStats">>, <<"create", "ReqIdr">>,
         <<"create", "AsyncCb">>} \cup (IF rfiEnabled THEN {<<"create", "InvRef">>} ELSE {})
           E9 == {<<"try", "video">>, <<"create", "VideoRecv">>}
        \cup (IF ~directVideo THEN {<<"create", "VideoDec">>} ELSE {})
        \cup {<<"create", "VideoPing">>}
           E10 == {<<"try", "audio">>, <<"create", "AudioRecv">>}
        \cup (IF ~directAudio THEN {<<"create", "AudioDec">>} ELSE {})
           E11 == {<<"create", "InputSend">>, <<"initialized", TRUE>>}
           L1 == << <<"try", "platform">> >>
           L2 == << <<"try", "name">> >>
           L3 == << <<"initialize", "audio">> >>
           L4 == << <<"attempt", "AudioPing">>, <<"try", "RTSP">> >>
           L5 == InitializeControlStream
           L6 == << <<"initialize", "video">> >>
           L7 == << <<"initialize", "input">> >>
           L8 == StartControlStream
           L9 == StartVideoStream
           L10 == StartAudioStream
           L11 == StartInputStream
           U1 == L1 \o Stage(1)
           F1 == E1 \cup {<<"stage", 1>>}
           U2 == U1 \o L2 \o Stage(2)
           F2 == F1 \cup E2 \cup {<<"stage", 2>>}
           U3 == U2 \o L3 \o Stage(3)
           F3 == F2 \cup E3 \cup {<<"stage", 3>>}
           U4 == U3 \o L4 \o Stage(4)
           F4 == F3 \cup E4 \cup {<<"stage", 4>>}
           U5 == U4 \o L5 \o Stage(5)
           F5 == F4 \cup E5 \cup {<<"stage", 5>>}
           U6 == U5 \o L6 \o Stage(6)
           F6 == F5 \cup E6 \cup {<<"stage", 6>>}
           U7 == U6 \o L7 \o Stage(7)
           F7 == F6 \cup E7 \cup {<<"stage", 7>>}
           U8 == U7 \o L8 \o Stage(8)
           F8 == F7 \cup E8 \cup {<<"stage", 8>>}
           U9 == U8 \o L9 \o Stage(9)
           F9 == F8 \cup E9 \cup {<<"stage", 9>>}
           U10 == U9 \o L10 \o Stage(10)
           F10 == F9 \cup E10 \cup {<<"stage", 10>>}
           U11 == U10 \o L11 \o Stage(11)
           F11 == F10 \cup E11 \cup {<<"stage", 11>>}
<1>1. StartScript = U11
  BY DEF StartScript
<1>2. F11 = Plan
  <2>1. ASSUME NEW x \in Tries PROVE <<"try", x>> \in F11
    BY <2>1 DEF Tries
  <2>2. ASSUME NEW t \in Threads \ {"AudioPing"}, Has(t) PROVE <<"create", t>> \in F11
    BY <2>2 DEF Threads, Has
  <2>3. ASSUME NEW w \in Queues PROVE <<"initialize", w>> \in F11
    BY <2>3 DEF Queues
  <2>4. ASSUME NEW n \in 1 .. 11 PROVE <<"stage", n>> \in F11
    <3>1. n \in {1, 2, 3, 4, 5, 6, 7, 8, 9, 10, 11}
      OBVIOUS
    <3> QED
      BY <3>1
  <2>5. /\ <<"attempt", "AudioPing">> \in F11 /\ <<"peer", TRUE>> \in F11
         /\ <<"stopping", FALSE>> \in F11 /\ <<"event", FALSE>> \in F11
         /\ <<"initialized", TRUE>> \in F11
    OBVIOUS
  <2>6. Plan \subseteq F11
    <3> HIDE DEF F11
    <3> SUFFICES ASSUME NEW a \in Plan PROVE a \in F11
      OBVIOUS
    <3>1. CASE a \in {"try"} \X Tries
      <4>1. \E x \in Tries : a = <<"try", x>>
        BY <3>1
      <4> QED
        BY <4>1, <2>1
    <3>2. CASE a \in {<<"create", t>> : t \in {u \in Threads \ {"AudioPing"} : Has(u)}}
      BY <3>2, <2>2
    <3>3. CASE a \in {"initialize"} \X Queues
      <4>1. \E w \in Queues : a = <<"initialize", w>>
        BY <3>3
      <4> QED
        BY <4>1, <2>3
    <3>4. CASE a \in {"stage"} \X (1 .. 11)
      <4>1. \E n \in 1 .. 11 : a = <<"stage", n>>
        BY <3>4
      <4> QED
        BY <4>1, <2>4
    <3>5. CASE a \in {<<"attempt", "AudioPing">>, <<"peer", TRUE>>, <<"stopping", FALSE>>,
                      <<"event", FALSE>>, <<"initialized", TRUE>>}
      BY <3>5, <2>5
    <3> QED
      BY <3>1, <3>2, <3>3, <3>4, <3>5 DEF Plan
  <2>7. /\ \A t \in Threads \ {"AudioPing"} : Has(t) => <<"create", t>> \in Plan
        /\ \A w \in Queues : <<"initialize", w>> \in Plan
        /\ \A x \in Tries : <<"try", x>> \in Plan
        /\ \A n \in 1 .. 11 : <<"stage", n>> \in Plan
        /\ <<"attempt", "AudioPing">> \in Plan /\ <<"peer", TRUE>> \in Plan
        /\ <<"stopping", FALSE>> \in Plan /\ <<"event", FALSE>> \in Plan
        /\ <<"initialized", TRUE>> \in Plan
    BY DEF Plan
  <2>8. /\ \A t \in Threads \ {"InvRef", "VideoDec", "AudioDec"} : Has(t)
        /\ Has("InvRef") = rfiEnabled /\ Has("VideoDec") = ~directVideo
        /\ Has("AudioDec") = ~directAudio
    BY DEF Has
  <2>9. E1 \subseteq Plan /\ E2 \subseteq Plan /\ E3 \subseteq Plan /\ E4 \subseteq Plan
    BY <2>7, Names
  <2>10. E5 \subseteq Plan /\ E6 \subseteq Plan /\ E7 \subseteq Plan
    BY <2>7, Names
  <2>11. E8 \subseteq Plan
    BY <2>7, <2>8, Names
  <2>12. E9 \subseteq Plan
    BY <2>7, <2>8, Names
  <2>13. E10 \subseteq Plan /\ E11 \subseteq Plan
    BY <2>7, <2>8, Names
  <2>14. \A n \in {1, 2, 3, 4, 5, 6, 7, 8, 9, 10, 11} : <<"stage", n>> \in Plan
    BY <2>7
  <2> HIDE DEF E1, E2, E3, E4, E5, E6, E7, E8, E9, E10, E11
  <2>15. F11 \subseteq Plan
    BY <2>9, <2>10, <2>11, <2>12, <2>13, <2>14
  <2> QED
    <3> HIDE DEF F11
    <3> QED
      BY <2>6, <2>15
<1>3. /\ Piece(L1, 20, 21, E1)
      /\ Piece(L2, 40, 41, E2)
      /\ Piece(L3, 60, 61, E3)
      /\ Piece(L4, 80, 82, E4)
      /\ Piece(L5, 100, 104, E5)
      /\ Piece(L6, 120, 121, E6)
      /\ Piece(L7, 140, 141, E7)
      /\ Piece(L8, 160, 169, E8)
      /\ Piece(L9, 180, 184, E9)
      /\ Piece(L10, 200, 203, E10)
      /\ Piece(L11, 220, 222, E11)
  BY OtherPieces, InitializePiece, ControlPiece, VideoPiece, AudioPiece
<1> HIDE DEF E1, L1, E2, L2, E3, L3, E4, L4, E5, L5, E6, L6, E7, L7, E8, L8, E9, L9, E10, L10, E11, L11
<1>5. Piece(U1, 0, 40, F1)
  <2>1. Piece(Stage(1), 39, 40, {<<"stage", 1>>})
    BY StagePiece
  <2>2. Piece(L1, 0, 21, E1)
    BY <1>3 DEF Piece
  <2> QED
    BY <2>1, <2>2, PieceConcat
<1>6. Piece(U2, 0, 60, F2)
  <2> HIDE DEF U1, F1
  <2>1. Piece(U1, 0, 20 * 2, F1) /\ Piece(L2, 40, 41, E2) /\ 2 \in 1 .. 11
    BY <1>3, <1>5
  <2>2. Piece(U1 \o L2 \o Stage(2), 0, 20 * (2 + 1), F1 \cup E2 \cup {<<"stage", 2>>})
    BY <2>1, AddStage
  <2> QED
    BY <2>2
<1>7. Piece(U3, 0, 80, F3)
  <2> HIDE DEF U2, F2
  <2>1. Piece(U2, 0, 20 * 3, F2) /\ Piece(L3, 60, 61, E3) /\ 3 \in 1 .. 11
    BY <1>3, <1>6
  <2>2. Piece(U2 \o L3 \o Stage(3), 0, 20 * (3 + 1), F2 \cup E3 \cup {<<"stage", 3>>})
    BY <2>1, AddStage
  <2> QED
    BY <2>2
<1>8. Piece(U4, 0, 100, F4)
  <2> HIDE DEF U3, F3
  <2>1. Piece(U3, 0, 20 * 4, F3) /\ Piece(L4, 80, 82, E4) /\ 4 \in 1 .. 11
    BY <1>3, <1>7
  <2>2. Piece(U3 \o L4 \o Stage(4), 0, 20 * (4 + 1), F3 \cup E4 \cup {<<"stage", 4>>})
    BY <2>1, AddStage
  <2> QED
    BY <2>2
<1>9. Piece(U5, 0, 120, F5)
  <2> HIDE DEF U4, F4
  <2>1. Piece(U4, 0, 20 * 5, F4) /\ Piece(L5, 100, 104, E5) /\ 5 \in 1 .. 11
    BY <1>3, <1>8
  <2>2. Piece(U4 \o L5 \o Stage(5), 0, 20 * (5 + 1), F4 \cup E5 \cup {<<"stage", 5>>})
    BY <2>1, AddStage
  <2> QED
    BY <2>2
<1>10. Piece(U6, 0, 140, F6)
  <2> HIDE DEF U5, F5
  <2>1. Piece(U5, 0, 20 * 6, F5) /\ Piece(L6, 120, 121, E6) /\ 6 \in 1 .. 11
    BY <1>3, <1>9
  <2>2. Piece(U5 \o L6 \o Stage(6), 0, 20 * (6 + 1), F5 \cup E6 \cup {<<"stage", 6>>})
    BY <2>1, AddStage
  <2> QED
    BY <2>2
<1>11. Piece(U7, 0, 160, F7)
  <2> HIDE DEF U6, F6
  <2>1. Piece(U6, 0, 20 * 7, F6) /\ Piece(L7, 140, 141, E7) /\ 7 \in 1 .. 11
    BY <1>3, <1>10
  <2>2. Piece(U6 \o L7 \o Stage(7), 0, 20 * (7 + 1), F6 \cup E7 \cup {<<"stage", 7>>})
    BY <2>1, AddStage
  <2> QED
    BY <2>2
<1>12. Piece(U8, 0, 180, F8)
  <2> HIDE DEF U7, F7
  <2>1. Piece(U7, 0, 20 * 8, F7) /\ Piece(L8, 160, 169, E8) /\ 8 \in 1 .. 11
    BY <1>3, <1>11
  <2>2. Piece(U7 \o L8 \o Stage(8), 0, 20 * (8 + 1), F7 \cup E8 \cup {<<"stage", 8>>})
    BY <2>1, AddStage
  <2> QED
    BY <2>2
<1>13. Piece(U9, 0, 200, F9)
  <2> HIDE DEF U8, F8
  <2>1. Piece(U8, 0, 20 * 9, F8) /\ Piece(L9, 180, 184, E9) /\ 9 \in 1 .. 11
    BY <1>3, <1>12
  <2>2. Piece(U8 \o L9 \o Stage(9), 0, 20 * (9 + 1), F8 \cup E9 \cup {<<"stage", 9>>})
    BY <2>1, AddStage
  <2> QED
    BY <2>2
<1>14. Piece(U10, 0, 220, F10)
  <2> HIDE DEF U9, F9
  <2>1. Piece(U9, 0, 20 * 10, F9) /\ Piece(L10, 200, 203, E10) /\ 10 \in 1 .. 11
    BY <1>3, <1>13
  <2>2. Piece(U9 \o L10 \o Stage(10), 0, 20 * (10 + 1), F9 \cup E10 \cup {<<"stage", 10>>})
    BY <2>1, AddStage
  <2> QED
    BY <2>2
<1>15. Piece(U11, 0, 240, F11)
  <2> HIDE DEF U10, F10
  <2>1. Piece(U10, 0, 20 * 11, F10) /\ Piece(L11, 220, 222, E11) /\ 11 \in 1 .. 11
    BY <1>3, <1>14
  <2>2. Piece(U10 \o L11 \o Stage(11), 0, 20 * (11 + 1), F10 \cup E11 \cup {<<"stage", 11>>})
    BY <2>1, AddStage
  <2> QED
    BY <2>2
<1> QED
  BY <1>1, <1>2, <1>15

-------------------------------------------------------------------------------
(* What a thread uses as long as it runs: its queue, those it feeds or flushes, *)
(* and the ENet peer.                                                           *)
Needs(t) ==
  CASE t = "ControlRecv" -> {"async", "peer"} [] t = "LossStats" -> {"peer"}
    [] t = "ReqIdr" -> {"rfi", "peer"} [] t = "AsyncCb" -> {"async"}
    [] t = "InvRef" -> {"rfi", "peer"} [] t = "VideoRecv" -> {"rfi", "video"}
    [] t = "VideoDec" -> {"rfi", "video"} [] t = "AudioRecv" -> {"audio"}
    [] t = "AudioDec" -> {"audio"} [] t = "InputSend" -> {"input", "peer"} [] OTHER -> {}

(* What a thread may need: the queues and the ENet peer. *)
Resources == Queues \cup {"peer"}

(* The instruction that ends a resource. *)
Release(r) == IF r = "peer" THEN <<"peer", FALSE>> ELSE <<"destroy", r>>

(* The operations that make something. *)
Building == {"try", "create", "attempt", "initialize"}

(* Instruction b may come after a in a stop: a thread is joined once, before *)
(* what it needs is released, and stage 0 is the last one that is set.       *)
Compatible(a, b) ==
  /\ \A t \in Threads : b = <<"join", t>> =>
       a # <<"join", t>> /\ \A r \in Needs(t) : a # Release(r)
  /\ a = <<"stage", 0>> => \A n \in 0 .. 11 : b # <<"stage", n>>

(* Every instruction of a stop may come after those before it. *)
InOrder(s) == \A i, j \in DOMAIN s : i < j => Compatible(s[i], s[j])

(* s stops a part of the connection: it joins the threads T, releases the *)
(* resources R and sets the stages Z.                                     *)
Clears(s, T, R, Z) ==
  /\ s \in Seq(Instructions)
  /\ InOrder(s)
  /\ \A a \in Elements(s) : a[1] \notin Building /\ a # <<"peer", TRUE>>
  /\ \A t \in Threads : <<"join", t>> \in Elements(s) <=> t \in T
  /\ \A r \in Resources : Release(r) \in Elements(s) <=> r \in R
  /\ \A n \in 0 .. 11 : <<"stage", n>> \in Elements(s) <=> n \in Z

(* A script that neither joins, nor releases, nor sets a stage. *)
Plain(s) == Clears(s, {}, {}, {})

(* Two parts of a stop in a row, unless the first ends what the second needs. *)
LEMMA ClearsConcat ==
  ASSUME NEW s, NEW S, NEW Q, NEW Y, NEW u, NEW T, NEW R, NEW Z,
         Clears(s, S, Q, Y), Clears(u, T, R, Z),
         \A t \in Threads : t \in T => t \notin S /\ \A r \in Needs(t) : r \notin Q,
         0 \in Y => \A n \in 0 .. 11 : n \notin Z
  PROVE  Clears(s \o u, S \cup T, Q \cup R, Y \cup Z)
<1>1. /\ s \in Seq(Instructions) /\ u \in Seq(Instructions) /\ InOrder(s) /\ InOrder(u)
  BY DEF Clears
<1>2. /\ s \o u \in Seq(Instructions)
      /\ Elements(s \o u) = Elements(s) \cup Elements(u)
  BY <1>1, ConcatElements
<1>3. ASSUME NEW a \in Elements(s), NEW b \in Elements(u)
      PROVE  Compatible(a, b)
  <2>1. ASSUME NEW t \in Threads, b = <<"join", t>>
        PROVE  a # <<"join", t>> /\ \A r \in Needs(t) : a # Release(r)
    <3>1. t \in T
      BY <2>1 DEF Clears
    <3>2. t \notin S /\ \A r \in Needs(t) : r \notin Q
      BY <3>1
    <3>3. a # <<"join", t>>
      BY <3>2 DEF Clears
    <3>4. \A r \in Needs(t) : r \in Resources
      BY DEF Needs, Resources, Queues
    <3> QED
      BY <3>2, <3>3, <3>4 DEF Clears
  <2>2. ASSUME a = <<"stage", 0>>, NEW n \in 0 .. 11
        PROVE  b # <<"stage", n>>
    <3>1. 0 \in Y
      BY <2>2 DEF Clears
    <3> QED
      BY <3>1 DEF Clears
  <2> QED
    BY <2>1, <2>2 DEF Compatible
<1>4. InOrder(s \o u)
  <2>0. SUFFICES ASSUME NEW i \in DOMAIN (s \o u), NEW j \in DOMAIN (s \o u), i < j
                 PROVE  Compatible((s \o u)[i], (s \o u)[j])
    BY DEF InOrder
  <2> DEFINE a == (s \o u)[i]
             b == (s \o u)[j]
  <2>1. \/ i \in DOMAIN s /\ j \in DOMAIN s /\ a = s[i] /\ b = s[j]
        \/ a \in Elements(s) /\ b \in Elements(u)
        \/ \E k, l \in DOMAIN u : k < l /\ a = u[k] /\ b = u[l]
    BY <1>1, <2>0, ConcatIndices, SMTT(30)
  <2> SUFFICES Compatible(a, b)
    BY DEF a, b
  <2> HIDE DEF a, b
  <2>2. CASE i \in DOMAIN s /\ j \in DOMAIN s /\ a = s[i] /\ b = s[j]
    BY <1>1, <2>0, <2>2 DEF InOrder
  <2>3. CASE a \in Elements(s) /\ b \in Elements(u)
    BY <1>3, <2>3
  <2>4. CASE \E k, l \in DOMAIN u : k < l /\ a = u[k] /\ b = u[l]
    BY <1>1, <2>4 DEF InOrder
  <2> QED
    BY <2>1, <2>2, <2>3, <2>4
<1>5. \A a \in Elements(s \o u) : a[1] \notin Building /\ a # <<"peer", TRUE>>
  BY <1>2 DEF Clears
<1>6. \A t \in Threads : <<"join", t>> \in Elements(s \o u) <=> t \in S \cup T
  BY <1>2 DEF Clears
<1>7. \A r \in Resources : Release(r) \in Elements(s \o u) <=> r \in Q \cup R
  BY <1>2 DEF Clears
<1>8. \A n \in 0 .. 11 : <<"stage", n>> \in Elements(s \o u) <=> n \in Y \cup Z
  BY <1>2 DEF Clears
<1> QED
  BY <1>2, <1>4, <1>5, <1>6, <1>7, <1>8 DEF Clears

(* A script is plain when none of its operations joins, releases or sets. *)
LEMMA PlainScript ==
  ASSUME NEW s \in Seq(Instructions),
         \A a \in Elements(s) :
           a[1] \notin Building \cup {"join", "destroy", "stage", "peer"}
  PROVE  Plain(s)
<1>1. ASSUME NEW a \in Elements(s)
      PROVE  /\ \A t \in Threads : a # <<"join", t>>
             /\ \A r \in Resources : a # Release(r)
             /\ \A n \in 0 .. 11 : a # <<"stage", n>>
             /\ a # <<"peer", TRUE>> /\ a[1] \notin Building
  <2>1. /\ a[1] \notin Building
        /\ a[1] # "join" /\ a[1] # "destroy" /\ a[1] # "stage" /\ a[1] # "peer"
    OBVIOUS
  <2>2. \A x : a # <<"join", x>> /\ a # <<"destroy", x>> /\ a # <<"stage", x>>
               /\ a # <<"peer", x>>
    BY <2>1
  <2>3. ASSUME NEW r \in Resources PROVE a # Release(r)
    <3>1. CASE r = "peer"
      BY <3>1, <2>2 DEF Release
    <3>2. CASE r # "peer"
      BY <3>2, <2>2 DEF Release
    <3> QED
      BY <3>1, <3>2
  <2> QED
    BY <2>1, <2>2, <2>3
<1>2. InOrder(s)
  BY <1>1 DEF InOrder, Compatible, Elements
<1> QED
  BY <1>1, <1>2 DEF Plain, Clears

(* Plain instructions change nothing in what a part of a stop ends. *)
LEMMA PlainClears ==
  ASSUME NEW s, NEW T, NEW R, NEW Z, Clears(s, T, R, Z), NEW u, Plain(u)
  PROVE  Clears(s \o u, T, R, Z) /\ Clears(u \o s, T, R, Z)
<1>1. Clears(s \o u, T \cup {}, R \cup {}, Z \cup {})
  BY ClearsConcat DEF Plain
<1>2. Clears(u \o s, {} \cup T, {} \cup R, {} \cup Z)
  BY ClearsConcat DEF Plain
<1> QED
  BY <1>1, <1>2

(* An interrupt is plain. *)
LEMMA InterruptPlain == ASSUME NEW t \in Threads PROVE Plain(Interrupt(t))
<1>1. <<"interrupt", t>> \in Instructions
  BY IsInstruction
<1>2. Interrupt(t) \in Seq(Instructions) /\ Elements(Interrupt(t)) = {<<"interrupt", t>>}
  BY <1>1 DEF Interrupt, Elements
<1> QED
  BY <1>2, PlainScript DEF Building

(* And so is the empty script. *)
LEMMA EmptyPlain == Plain(<<>>)
<1>1. <<>> \in Seq(Instructions) /\ Elements(<<>>) = {}
  BY DEF Elements
<1> QED
  BY <1>1, PlainScript

(* PltJoinThread ends one thread. *)
LEMMA JoinClears == ASSUME NEW t \in Threads PROVE Clears(Join(t), {t}, {}, {})
<1>1. <<"join", t>> \in Instructions
  BY IsInstruction
<1>2. Join(t) \in Seq(Instructions) /\ Elements(Join(t)) = {<<"join", t>>} /\ InOrder(Join(t))
  BY <1>1 DEF Join, Elements, InOrder
<1> QED
  BY <1>2 DEF Clears, Building, Release

(* A stage that is set. *)
LEMMA StageClears == ASSUME NEW n \in 0 .. 11 PROVE Clears(Stage(n), {}, {}, {n})
<1>1. <<"stage", n>> \in Instructions
  BY IsInstruction
<1>2. /\ Stage(n) \in Seq(Instructions) /\ Elements(Stage(n)) = {<<"stage", n>>}
      /\ InOrder(Stage(n))
  BY <1>1 DEF Stage, Elements, InOrder
<1> QED
  BY <1>2 DEF Clears, Building, Release

(* A resource that is released. *)
LEMMA ReleaseClears == ASSUME NEW r \in Resources PROVE Clears(<<Release(r)>>, {}, {r}, {})
<1>1. Release(r) \in Instructions
  BY IsInstruction DEF Release, Resources
<1>2. /\ <<Release(r)>> \in Seq(Instructions) /\ Elements(<<Release(r)>>) = {Release(r)}
      /\ InOrder(<<Release(r)>>)
  BY <1>1 DEF Elements, InOrder
<1>3. \A x \in Resources : Release(x) = Release(r) <=> x = r
  BY DEF Release
<1>4. /\ Release(r)[1] \notin Building /\ Release(r) # <<"peer", TRUE>>
      /\ \A t \in Threads : <<"join", t>> # Release(r)
      /\ \A n \in 0 .. 11 : <<"stage", n>> # Release(r)
  BY DEF Release, Building
<1> QED
  BY <1>2, <1>3, <1>4 DEF Clears

(* A thread is interrupted and joined. *)
LEMMA AddJoin ==
  ASSUME NEW s, NEW T, NEW R, NEW Z, NEW t \in Threads, Clears(s, T, R, Z), t \notin T,
         \A r \in Needs(t) : r \notin R
  PROVE  /\ Clears(s \o Join(t), T \cup {t}, R, Z)
         /\ Clears(s \o Stops(t), T \cup {t}, R, Z)
<1>1. Clears(Join(t), {t}, {}, {})
  BY JoinClears
<1>2. Clears(Stops(t), {t}, {}, {})
  BY <1>1, InterruptPlain, PlainClears DEF Stops
<1>3. Clears(s \o Join(t), T \cup {t}, R \cup {}, Z \cup {})
  BY <1>1, ClearsConcat
<1>4. Clears(s \o Stops(t), T \cup {t}, R \cup {}, Z \cup {})
  BY <1>2, ClearsConcat
<1> QED
  BY <1>3, <1>4

(* A resource is released at the end of a part. *)
LEMMA AddRelease ==
  ASSUME NEW s, NEW T, NEW R, NEW Z, NEW r \in Resources, Clears(s, T, R, Z)
  PROVE  Clears(s \o <<Release(r)>>, T, R \cup {r}, Z)
<1>1. Clears(<<Release(r)>>, {}, {r}, {})
  BY ReleaseClears
<1>2. Clears(s \o <<Release(r)>>, T \cup {}, R \cup {r}, Z \cup {})
  BY <1>1, ClearsConcat
<1> QED
  BY <1>2

-------------------------------------------------------------------------------
(* The threads that a stop joins. *)
Joinable == {t \in Threads : IF t = "AudioPing" THEN thread[t] # "none" ELSE Has(t)}

(* The stage with which a resource is released. *)
StageOfResource(r) ==
  CASE r = "audio" -> 3 [] r \in {"rfi", "async"} -> 5 [] r = "video" -> 6 [] r = "input" -> 7
    [] r = "peer" -> 8

(* s undoes what stage k did. *)
Undoes(s, k) ==
  Clears(s, {t \in Joinable : StageOf(t) = k}, {r \in Resources : StageOfResource(r) = k}, {})

(* s undoes the stages from n down to k. *)
UndoesDownTo(s, k, n) ==
  Clears(s, {t \in Joinable : k <= StageOf(t) /\ StageOf(t) <= n},
            {r \in Resources : k <= StageOfResource(r) /\ StageOfResource(r) <= n},
            {m \in 0 .. 11 : k <= m + 1 /\ m + 1 <= n})

(* The stages of the threads. *)
LEMMA ThreadStages ==
  /\ StageOf("InputSend") = 11
  /\ StageOf("AudioRecv") = 10 /\ StageOf("AudioDec") = 10
  /\ StageOf("VideoRecv") = 9 /\ StageOf("VideoDec") = 9 /\ StageOf("VideoPing") = 9
  /\ StageOf("ControlRecv") = 8 /\ StageOf("LossStats") = 8 /\ StageOf("ReqIdr") = 8
  /\ StageOf("AsyncCb") = 8 /\ StageOf("InvRef") = 8
  /\ StageOf("AudioPing") = 3
BY DEF StageOf

(* The stages of the resources. *)
LEMMA ResourceStages ==
  /\ StageOfResource("audio") = 3 /\ StageOfResource("rfi") = 5 /\ StageOfResource("async") = 5
  /\ StageOfResource("video") = 6 /\ StageOfResource("input") = 7 /\ StageOfResource("peer") = 8
BY DEF StageOfResource

(* A thread starts after the stage that makes what it needs. *)
LEMMA NeedsComeFirst ==
  /\ \A t \in Threads : StageOf(t) \in 1 .. 11
  /\ \A r \in Resources : StageOfResource(r) \in 1 .. 11
  /\ \A t \in Threads : \A r \in Needs(t) : r \in Resources /\ StageOfResource(r) <= StageOf(t)
<1>1. \A t \in Threads : StageOf(t) \in 1 .. 11
  BY ThreadStages DEF Threads
<1>2. \A r \in Resources : StageOfResource(r) \in 1 .. 11
  BY ResourceStages DEF Resources, Queues
<1>3. \A t \in Threads : \A r \in Needs(t) : r \in Resources /\ StageOfResource(r) <= StageOf(t)
  BY ThreadStages, ResourceStages DEF Threads, Needs, Resources, Queues
<1> QED
  BY <1>1, <1>2, <1>3

(* A stop goes one stage further down, if the stage was reached. *)
LEMMA AddPart ==
  ASSUME NEW s, NEW p, NEW k \in 1 .. 11, NEW n \in 0 .. 11,
         UndoesDownTo(s, k + 1, n), Undoes(p, k)
  PROVE  UndoesDownTo(s \o When(k <= n, p \o Stage(k - 1)), k, n)
<1> DEFINE S == {t \in Joinable : k + 1 <= StageOf(t) /\ StageOf(t) <= n}
           Q == {r \in Resources : k + 1 <= StageOfResource(r) /\ StageOfResource(r) <= n}
           Y == {m \in 0 .. 11 : k + 1 <= m + 1 /\ m + 1 <= n}
           T == {t \in Joinable : StageOf(t) = k}
           R == {r \in Resources : StageOfResource(r) = k}
           S2 == {t \in Joinable : k <= StageOf(t) /\ StageOf(t) <= n}
           Q2 == {r \in Resources : k <= StageOfResource(r) /\ StageOfResource(r) <= n}
           Y2 == {m \in 0 .. 11 : k <= m + 1 /\ m + 1 <= n}
<1>1. Clears(s, S, Q, Y) /\ Clears(p, T, R, {})
  BY DEF UndoesDownTo, Undoes
<1>2. \A t \in Joinable : t \in Threads /\ StageOf(t) \in 1 .. 11
  BY NeedsComeFirst DEF Joinable
<1>3. CASE k <= n
  <2>1. /\ S2 = S \cup T /\ Q2 = Q \cup R /\ Y2 = Y \cup {k - 1}
    BY <1>2, <1>3, NeedsComeFirst
  <2>2. /\ \A t \in Threads : t \in T => t \notin S /\ \A r \in Needs(t) : r \notin Q
        /\ 0 \notin Y
    BY <1>2, NeedsComeFirst
  <2>3. k - 1 \in 0 .. 11
    OBVIOUS
  <2> HIDE DEF S, Q, Y, T, R, S2, Q2, Y2
  <2>4. Clears(p \o Stage(k - 1), T, R, {k - 1})
    <3>1. Clears(Stage(k - 1), {}, {}, {k - 1})
      BY <2>3, StageClears
    <3>2. Clears(p \o Stage(k - 1), T \cup {}, R \cup {}, {} \cup {k - 1})
      BY <1>1, <3>1, ClearsConcat
    <3> QED
      BY <3>2
  <2>5. Clears(s \o (p \o Stage(k - 1)), S \cup T, Q \cup R, Y \cup {k - 1})
    BY <1>1, <2>2, <2>4, ClearsConcat
  <2>6. Clears(s \o (p \o Stage(k - 1)), S2, Q2, Y2)
    BY <2>1, <2>5
  <2> QED
    BY <1>3, <2>6 DEF UndoesDownTo, When, S2, Q2, Y2
<1>4. CASE ~(k <= n)
  <2>1. S2 = S /\ Q2 = Q /\ Y2 = Y
    BY <1>2, <1>4, NeedsComeFirst
  <2>2. Clears(s \o <<>>, S, Q, Y)
    BY <1>1, EmptyPlain, PlainClears
  <2> QED
    BY <1>4, <2>1, <2>2 DEF UndoesDownTo, When
<1> QED
  BY <1>3, <1>4

-------------------------------------------------------------------------------
(* The parts of a stop. *)

(* What only sets flags and wakes the threads. *)
LEMMA PlainParts ==
  /\ Plain(StopShared) /\ Plain(UndoSilently) /\ Plain(UndoAsyncThread)
  /\ Plain(UndoInvalidationThread)
  /\ Plain(<< <<"stopping", TRUE>> >>) /\ Plain(<< <<"shutdown", "video">> >>)
  /\ Plain(<< <<"shutdown", "audio">> >>)
  /\ Plain(<< <<"initialized", FALSE>>, <<"drain", "input">> >>)
  /\ Plain(<< <<"alreadyTerminated", TRUE>>, <<"ConnectionInterrupted", TRUE>> >>)
<1>1. /\ <<"stopping", TRUE>> \in Instructions /\ <<"event", TRUE>> \in Instructions
      /\ <<"ConnectionInterrupted", TRUE>> \in Instructions
      /\ <<"alreadyTerminated", TRUE>> \in Instructions
      /\ <<"initialized", FALSE>> \in Instructions
      /\ <<"shutdown", "rfi">> \in Instructions /\ <<"shutdown", "async">> \in Instructions
      /\ <<"shutdown", "video">> \in Instructions /\ <<"shutdown", "audio">> \in Instructions
      /\ <<"drain", "async">> \in Instructions /\ <<"drain", "input">> \in Instructions
  BY IsInstruction, Names
<1>2. StopShared \in Seq(Instructions) /\ UndoSilently \in Seq(Instructions)
      /\ UndoAsyncThread \in Seq(Instructions) /\ UndoInvalidationThread \in Seq(Instructions)
  BY <1>1 DEF StopShared, UndoSilently, UndoAsyncThread, UndoInvalidationThread
<1>3. \A a \in Elements(StopShared) : a[1] \notin Building \cup {"join", "destroy", "stage", "peer"}
  BY DEF StopShared, Elements, Building
<1>4. \A a \in Elements(UndoSilently) : a[1] \notin Building \cup {"join", "destroy", "stage", "peer"}
  BY DEF UndoSilently, Elements, Building
<1>5. \A a \in Elements(UndoAsyncThread) :
        a[1] \notin Building \cup {"join", "destroy", "stage", "peer"}
  BY DEF UndoAsyncThread, Elements, Building
<1>6. \A a \in Elements(UndoInvalidationThread) :
        a[1] \notin Building \cup {"join", "destroy", "stage", "peer"}
  BY DEF UndoInvalidationThread, Elements, Building
<1>7. ASSUME NEW a \in Instructions, NEW b \in Instructions,
             a[1] \notin Building \cup {"join", "destroy", "stage", "peer"},
             b[1] \notin Building \cup {"join", "destroy", "stage", "peer"}
      PROVE  Plain(<<a>>) /\ Plain(<<a, b>>)
  <2>1. <<a>> \in Seq(Instructions) /\ <<a, b>> \in Seq(Instructions)
    OBVIOUS
  <2>2. Elements(<<a>>) = {a} /\ Elements(<<a, b>>) = {a, b}
    BY DEF Elements
  <2> QED
    BY <1>7, <2>1, <2>2, PlainScript
<1>8. Plain(<< <<"stopping", TRUE>> >>) /\ Plain(<< <<"shutdown", "video">> >>)
      /\ Plain(<< <<"shutdown", "audio">> >>)
  BY <1>1, <1>7 DEF Building
<1>9. Plain(<< <<"initialized", FALSE>>, <<"drain", "input">> >>)
  BY <1>1, <1>7 DEF Building
<1>10. Plain(<< <<"alreadyTerminated", TRUE>>, <<"ConnectionInterrupted", TRUE>> >>)
  BY <1>1, <1>7 DEF Building
<1> QED
  BY <1>2, <1>3, <1>4, <1>5, <1>6, <1>8, <1>9, <1>10, PlainScript

(* Which threads a stop joins. *)
LEMMA Joined ==
  /\ \A t \in {"ControlRecv", "LossStats", "ReqIdr", "AsyncCb", "VideoRecv", "VideoPing",
               "AudioRecv", "InputSend"} : t \in Joinable
  /\ "InvRef" \in Joinable <=> rfiEnabled
  /\ "VideoDec" \in Joinable <=> ~directVideo
  /\ "AudioDec" \in Joinable <=> ~directAudio
  /\ "AudioPing" \in Joinable <=> thread["AudioPing"] # "none"
BY DEF Joinable, Has, Threads

(* What each stage has. *)
LEMMA StagesHave ==
  /\ {t \in Joinable : StageOf(t) = 11} = {"InputSend"}
  /\ {t \in Joinable : StageOf(t) = 10}
       = {"AudioRecv"} \cup (IF directAudio THEN {} ELSE {"AudioDec"})
  /\ {t \in Joinable : StageOf(t) = 9}
       = {"VideoPing", "VideoRecv"} \cup (IF directVideo THEN {} ELSE {"VideoDec"})
  /\ {t \in Joinable : StageOf(t) = 8}
       = {"LossStats", "ReqIdr", "ControlRecv", "AsyncCb"}
           \cup (IF rfiEnabled THEN {"InvRef"} ELSE {})
  /\ {t \in Joinable : StageOf(t) = 3} = IF thread["AudioPing"] # "none" THEN {"AudioPing"} ELSE {}
  /\ \A k \in {1, 2, 4, 5, 6, 7} : {t \in Joinable : StageOf(t) = k} = {}
  /\ \A k \in {1, 2, 4, 9, 10, 11} : {r \in Resources : StageOfResource(r) = k} = {}
  /\ {r \in Resources : StageOfResource(r) = 8} = {"peer"}
  /\ {r \in Resources : StageOfResource(r) = 7} = {"input"}
  /\ {r \in Resources : StageOfResource(r) = 6} = {"video"}
  /\ {r \in Resources : StageOfResource(r) = 5} = {"rfi", "async"}
  /\ {r \in Resources : StageOfResource(r) = 3} = {"audio"}
<1>1. \A t : t \in Joinable => t \in Threads
  BY DEF Joinable
<1>2. /\ {t \in Joinable : StageOf(t) = 11} = {"InputSend"}
      /\ {t \in Joinable : StageOf(t) = 10}
           = {"AudioRecv"} \cup (IF directAudio THEN {} ELSE {"AudioDec"})
  BY <1>1, Joined, ThreadStages DEF Threads
<1>3. {t \in Joinable : StageOf(t) = 9}
        = {"VideoPing", "VideoRecv"} \cup (IF directVideo THEN {} ELSE {"VideoDec"})
  BY <1>1, Joined, ThreadStages DEF Threads
<1>4. {t \in Joinable : StageOf(t) = 8}
        = {"LossStats", "ReqIdr", "ControlRecv", "AsyncCb"}
            \cup (IF rfiEnabled THEN {"InvRef"} ELSE {})
  BY <1>1, Joined, ThreadStages DEF Threads
<1>5. {t \in Joinable : StageOf(t) = 3} = IF thread["AudioPing"] # "none" THEN {"AudioPing"} ELSE {}
  BY <1>1, Joined, ThreadStages DEF Threads
<1>6. \A k \in {1, 2, 4, 5, 6, 7} : {t \in Joinable : StageOf(t) = k} = {}
  BY <1>1, ThreadStages DEF Threads
<1>7. /\ \A k \in {1, 2, 4, 9, 10, 11} : {r \in Resources : StageOfResource(r) = k} = {}
      /\ {r \in Resources : StageOfResource(r) = 8} = {"peer"}
      /\ {r \in Resources : StageOfResource(r) = 7} = {"input"}
  BY ResourceStages DEF Resources, Queues
<1>8. /\ {r \in Resources : StageOfResource(r) = 6} = {"video"}
      /\ {r \in Resources : StageOfResource(r) = 5} = {"rfi", "async"}
      /\ {r \in Resources : StageOfResource(r) = 3} = {"audio"}
  BY ResourceStages DEF Resources, Queues
<1> QED
  BY <1>2, <1>3, <1>4, <1>5, <1>6, <1>7, <1>8

(* stopInputStream undoes startInputStream. *)
LEMMA UndoesInputStream == Undoes(StopInputStream, 11)
<1> DEFINE a == <<"initialized", FALSE>>
           b == <<"drain", "input">>
           c == <<"join", "InputSend">>
<1>1. a \in Instructions /\ b \in Instructions /\ c \in Instructions
  BY IsInstruction, Names
<1>2. StopInputStream = <<a, b, c>>
  BY DEF StopInputStream
<1>3. /\ StopInputStream \in Seq(Instructions)
      /\ Elements(StopInputStream) = {a, b, c}
  <2> HIDE DEF a, b, c
  <2> QED
    BY <1>1, <1>2 DEF Elements
<1>4. /\ \A t \in Threads : a # <<"join", t>> /\ b # <<"join", t>>
      /\ \A r \in Resources : a # Release(r) /\ b # Release(r) /\ c # Release(r)
      /\ \A n \in 0 .. 11 : a # <<"stage", n>> /\ b # <<"stage", n>> /\ c # <<"stage", n>>
      /\ \A t \in Threads : c = <<"join", t>> <=> t \in {"InputSend"}
      /\ a[1] \notin Building /\ b[1] \notin Building /\ c[1] \notin Building
      /\ a # <<"peer", TRUE>> /\ b # <<"peer", TRUE>> /\ c # <<"peer", TRUE>>
  BY DEF Release, Building
<1>5. \A t \in Threads : \A r \in Needs(t) : r \in Resources
  BY NeedsComeFirst
<1> HIDE DEF a, b, c
<1>6. Compatible(a, b) /\ Compatible(a, c) /\ Compatible(b, c)
  BY <1>4, <1>5 DEF Compatible
<1>7. InOrder(StopInputStream)
  BY <1>2, <1>6 DEF InOrder
<1>8. Clears(StopInputStream, {"InputSend"}, {}, {})
  BY <1>3, <1>4, <1>7 DEF Clears
<1> QED
  BY <1>8, StagesHave DEF Undoes

(* stopAudioStream undoes startAudioStream, with and without a decoder thread. *)
LEMMA UndoesAudioStream == Undoes(StopAudioStream, 10)
<1>1. Plain(Interrupt("AudioRecv")) /\ Plain(Interrupt("AudioDec"))
  BY InterruptPlain, Names
<1>2. Plain(<< <<"shutdown", "audio">> >> \o Interrupt("AudioDec"))
  BY <1>1, PlainParts, PlainClears DEF Plain
<1>3. Plain(When(~directAudio, << <<"shutdown", "audio">> >> \o Interrupt("AudioDec")))
  BY <1>2, EmptyPlain DEF When
<1> DEFINE u == Interrupt("AudioRecv")
                  \o When(~directAudio, << <<"shutdown", "audio">> >> \o Interrupt("AudioDec"))
           v == u \o Join("AudioRecv")
<1>4. Clears(u, {}, {}, {})
  BY <1>1, <1>3, PlainClears DEF Plain
<1>5. StopAudioStream = v \o When(~directAudio, Join("AudioDec"))
  BY DEF StopAudioStream
<1> HIDE DEF u
<1>6. Clears(v, {} \cup {"AudioRecv"}, {}, {})
  BY <1>4, AddJoin, Names
<1> HIDE DEF v
<1>7. CASE directAudio
  <2>1. Clears(v \o <<>>, {} \cup {"AudioRecv"}, {}, {})
    BY <1>6, EmptyPlain, PlainClears
  <2>2. StopAudioStream = v \o <<>> /\ {} \cup {"AudioRecv"} = {"AudioRecv"} \cup {}
    BY <1>5, <1>7 DEF When
  <2> QED
    BY <1>7, <2>1, <2>2, StagesHave DEF Undoes
<1>8. CASE ~directAudio
  <2>1. Clears(v \o Join("AudioDec"), ({} \cup {"AudioRecv"}) \cup {"AudioDec"}, {}, {})
    BY <1>6, AddJoin, Names
  <2>2. /\ StopAudioStream = v \o Join("AudioDec")
        /\ ({} \cup {"AudioRecv"}) \cup {"AudioDec"} = {"AudioRecv"} \cup {"AudioDec"}
    BY <1>5, <1>8 DEF When
  <2>3. /\ {t \in Joinable : StageOf(t) = 10} = {"AudioRecv"} \cup {"AudioDec"}
        /\ {r \in Resources : StageOfResource(r) = 10} = {}
    BY <1>8, StagesHave
  <2> QED
    BY <2>1, <2>2, <2>3 DEF Undoes
<1> QED
  BY <1>7, <1>8

(* stopVideoStream undoes startVideoStream, with and without a decoder thread. *)
LEMMA UndoesVideoStream == Undoes(StopVideoStream, 9)
<1>1. /\ Plain(Interrupt("VideoPing")) /\ Plain(Interrupt("VideoRecv"))
      /\ Plain(Interrupt("VideoDec"))
  BY InterruptPlain, Names
<1>2. Plain(When(~directVideo, Interrupt("VideoDec")))
  BY <1>1, EmptyPlain DEF When
<1> DEFINE u0 == << <<"shutdown", "video">> >> \o Interrupt("VideoPing")
           u1 == u0 \o Interrupt("VideoRecv")
           u == u1 \o When(~directVideo, Interrupt("VideoDec"))
           v == u \o Join("VideoPing")
           w == v \o Join("VideoRecv")
<1>3. Clears(u0, {}, {}, {})
  BY <1>1, PlainParts, PlainClears DEF Plain
<1>4. StopVideoStream = w \o When(~directVideo, Join("VideoDec"))
  BY DEF StopVideoStream
<1> HIDE DEF u0
<1>5. Clears(u1, {}, {}, {})
  BY <1>1, <1>3, PlainClears
<1> HIDE DEF u1
<1>6. Clears(u, {}, {}, {})
  BY <1>2, <1>5, PlainClears
<1> HIDE DEF u
<1>7. Clears(v, {} \cup {"VideoPing"}, {}, {})
  BY <1>6, AddJoin, Names
<1> HIDE DEF v
<1>8. Clears(w, ({} \cup {"VideoPing"}) \cup {"VideoRecv"}, {}, {})
  BY <1>7, AddJoin, Names
<1> HIDE DEF w
<1>9. CASE directVideo
  <2>1. Clears(w \o <<>>, ({} \cup {"VideoPing"}) \cup {"VideoRecv"}, {}, {})
    BY <1>8, EmptyPlain, PlainClears
  <2>2. /\ StopVideoStream = w \o <<>>
        /\ ({} \cup {"VideoPing"}) \cup {"VideoRecv"} = {"VideoPing", "VideoRecv"} \cup {}
    BY <1>4, <1>9 DEF When
  <2> QED
    BY <1>9, <2>1, <2>2, StagesHave DEF Undoes
<1>10. CASE ~directVideo
  <2>1. Clears(w \o Join("VideoDec"),
               (({} \cup {"VideoPing"}) \cup {"VideoRecv"}) \cup {"VideoDec"}, {}, {})
    BY <1>8, AddJoin, Names
  <2>2. /\ StopVideoStream = w \o Join("VideoDec")
        /\ (({} \cup {"VideoPing"}) \cup {"VideoRecv"}) \cup {"VideoDec"}
             = {"VideoPing", "VideoRecv"} \cup {"VideoDec"}
    BY <1>4, <1>10 DEF When
  <2>3. /\ {t \in Joinable : StageOf(t) = 9} = {"VideoPing", "VideoRecv"} \cup {"VideoDec"}
        /\ {r \in Resources : StageOfResource(r) = 9} = {}
    BY <1>10, StagesHave
  <2> QED
    BY <2>1, <2>2, <2>3 DEF Undoes
<1> QED
  BY <1>9, <1>10

(* stopControlStream undoes startControlStream, the ENet peer included. *)
LEMMA UndoesControlStream == Undoes(StopControlStream, 8)
<1>1. /\ Plain(Interrupt("LossStats")) /\ Plain(Interrupt("ReqIdr"))
      /\ Plain(Interrupt("ControlRecv")) /\ Plain(Interrupt("AsyncCb"))
  BY InterruptPlain, Names
<1> DEFINE u0 == StopShared \o Interrupt("LossStats")
           u1 == u0 \o Interrupt("ReqIdr")
           u2 == u1 \o Interrupt("ControlRecv")
           u3 == u2 \o Interrupt("AsyncCb")
           v1 == u3 \o Join("LossStats")
           v2 == v1 \o Join("ReqIdr")
           v3 == v2 \o Join("ControlRecv")
           v4 == v3 \o Join("AsyncCb")
           v5 == v4 \o When(rfiEnabled, Stops("InvRef"))
           T == {"LossStats", "ReqIdr", "ControlRecv", "AsyncCb"}
           T5 == T \cup (IF rfiEnabled THEN {"InvRef"} ELSE {})
<1>2. StopControlStream = v5 \o <<Release("peer")>>
  BY DEF StopControlStream, Release
<1>3. Clears(u0, {}, {}, {})
  BY <1>1, PlainParts, PlainClears DEF Plain
<1> HIDE DEF u0
<1>4. Clears(u1, {}, {}, {})
  BY <1>1, <1>3, PlainClears
<1> HIDE DEF u1
<1>5. Clears(u2, {}, {}, {})
  BY <1>1, <1>4, PlainClears
<1> HIDE DEF u2
<1>6. Clears(u3, {}, {}, {})
  BY <1>1, <1>5, PlainClears
<1> HIDE DEF u3
<1>7. Clears(v1, {} \cup {"LossStats"}, {}, {})
  BY <1>6, AddJoin, Names
<1> HIDE DEF v1
<1>8. Clears(v2, ({} \cup {"LossStats"}) \cup {"ReqIdr"}, {}, {})
  BY <1>7, AddJoin, Names
<1> HIDE DEF v2
<1>9. Clears(v3, (({} \cup {"LossStats"}) \cup {"ReqIdr"}) \cup {"ControlRecv"}, {}, {})
  BY <1>8, AddJoin, Names
<1> HIDE DEF v3
<1>10. Clears(v4, ((({} \cup {"LossStats"}) \cup {"ReqIdr"}) \cup {"ControlRecv"})
                     \cup {"AsyncCb"}, {}, {})
  BY <1>9, AddJoin, Names
<1>11. ((({} \cup {"LossStats"}) \cup {"ReqIdr"}) \cup {"ControlRecv"}) \cup {"AsyncCb"} = T
  OBVIOUS
<1> HIDE DEF v4
<1>12. Clears(v5, T5, {}, {})
  <2>1. CASE rfiEnabled
    <3>1. "InvRef" \notin T
      OBVIOUS
    <3>2. Clears(v4, T, {}, {})
      BY <1>10, <1>11
    <3> HIDE DEF T
    <3>3. Clears(v4 \o Stops("InvRef"), T \cup {"InvRef"}, {}, {})
      BY <3>1, <3>2, AddJoin, Names
    <3> QED
      BY <2>1, <3>3 DEF When
  <2>2. CASE ~rfiEnabled
    <3>1. Clears(v4 \o <<>>, T, {}, {}) /\ T \cup {} = T
      BY <1>10, <1>11, EmptyPlain, PlainClears
    <3> QED
      BY <2>2, <3>1 DEF When
  <2> QED
    BY <2>1, <2>2
<1>13. T5 = {t \in Joinable : StageOf(t) = 8}
  BY StagesHave
<1> HIDE DEF v5, T5
<1>14. Clears(v5 \o <<Release("peer")>>, T5, {} \cup {"peer"}, {})
  BY <1>12, AddRelease DEF Resources
<1>15. {} \cup {"peer"} = {r \in Resources : StageOfResource(r) = 8}
  BY StagesHave
<1> QED
  BY <1>2, <1>13, <1>14, <1>15 DEF Undoes

(* The destructors undo the initializations. *)
LEMMA UndoesQueues ==
  /\ Undoes(<< <<"destroy", "input">> >>, 7) /\ Undoes(<< <<"destroy", "video">> >>, 6)
  /\ Undoes(DestroyControlStream, 5) /\ Undoes(DestroyAudioStream, 3)
  /\ \A k \in {1, 2, 4} : Undoes(<<>>, k)
<1>1. /\ <<Release("input")>> = << <<"destroy", "input">> >>
      /\ <<Release("video")>> = << <<"destroy", "video">> >>
      /\ <<Release("audio")>> = << <<"destroy", "audio">> >>
      /\ "input" \in Resources /\ "video" \in Resources /\ "audio" \in Resources
      /\ "rfi" \in Resources /\ "async" \in Resources
  BY Names DEF Release, Resources
<1>2. Undoes(<< <<"destroy", "input">> >>, 7)
  <2>1. Clears(<<Release("input")>>, {}, {"input"}, {})
    BY <1>1, ReleaseClears
  <2> QED
    BY <1>1, <2>1, StagesHave DEF Undoes
<1>3. Undoes(<< <<"destroy", "video">> >>, 6)
  <2>1. Clears(<<Release("video")>>, {}, {"video"}, {})
    BY <1>1, ReleaseClears
  <2> QED
    BY <1>1, <2>1, StagesHave DEF Undoes
<1>4. Undoes(DestroyControlStream, 5)
  <2> DEFINE a == Release("rfi")
             b == Release("async")
  <2>1. a \in Instructions /\ b \in Instructions /\ DestroyControlStream = <<a, b>>
    BY IsInstruction, Names DEF Release, DestroyControlStream
  <2>2. /\ \A t \in Threads : a # <<"join", t>> /\ b # <<"join", t>>
        /\ \A r \in Resources : (a = Release(r) \/ b = Release(r)) <=> r \in {"rfi", "async"}
        /\ \A n \in 0 .. 11 : a # <<"stage", n>> /\ b # <<"stage", n>>
        /\ a[1] \notin Building /\ b[1] \notin Building
        /\ a # <<"peer", TRUE>> /\ b # <<"peer", TRUE>>
    BY DEF Release, Building
  <2> HIDE DEF a, b
  <2>3. /\ DestroyControlStream \in Seq(Instructions)
        /\ Elements(DestroyControlStream) = {a, b}
    BY <2>1 DEF Elements
  <2>4. InOrder(DestroyControlStream)
    BY <2>1, <2>2 DEF InOrder, Compatible
  <2>5. Clears(DestroyControlStream, {}, {"rfi", "async"}, {})
    BY <2>2, <2>3, <2>4 DEF Clears
  <2> QED
    BY <2>5, StagesHave DEF Undoes
<1>5. Undoes(DestroyAudioStream, 3)
  <2> DEFINE T == IF thread["AudioPing"] # "none" THEN {"AudioPing"} ELSE {}
             p == When(thread["AudioPing"] # "none", Stops("AudioPing"))
  <2>1. Clears(p, T, {}, {})
    <3>1. CASE thread["AudioPing"] # "none"
      <4>1. Clears(Join("AudioPing"), {"AudioPing"}, {}, {})
        BY JoinClears, Names
      <4>2. Clears(Stops("AudioPing"), {"AudioPing"}, {}, {})
        BY <4>1, InterruptPlain, PlainClears, Names DEF Stops
      <4> QED
        BY <3>1, <4>2 DEF When
    <3>2. CASE ~(thread["AudioPing"] # "none")
      BY <3>2, EmptyPlain DEF When, Plain
    <3> QED
      BY <3>1, <3>2
  <2>2. T = {t \in Joinable : StageOf(t) = 3}
    BY StagesHave
  <2>3. DestroyAudioStream = p \o <<Release("audio")>>
    BY <1>1 DEF DestroyAudioStream
  <2> HIDE DEF T, p
  <2>4. Clears(p \o <<Release("audio")>>, T, {} \cup {"audio"}, {})
    BY <1>1, <2>1, AddRelease
  <2>5. {} \cup {"audio"} = {r \in Resources : StageOfResource(r) = 3}
    BY StagesHave
  <2> QED
    BY <2>2, <2>3, <2>4, <2>5 DEF Undoes
<1>6. \A k \in {1, 2, 4} : Undoes(<<>>, k)
  <2>1. \A k \in {1, 2, 4} : /\ {t \in Joinable : StageOf(t) = k} = {}
                             /\ {r \in Resources : StageOfResource(r) = k} = {}
    BY StagesHave
  <2> QED
    BY <2>1, EmptyPlain DEF Undoes, Plain
<1> QED
  BY <1>2, <1>3, <1>4, <1>5, <1>6

(* A stop of the stages up to n joins every thread that these have and ends *)
(* every resource that they made, in order.                                 *)
LEMMA StopUndoes ==
  ASSUME NEW n \in 0 .. 11
  PROVE  UndoesDownTo(StopScript(n), 1, n)
<1> DEFINE V12 == << <<"alreadyTerminated", TRUE>>, <<"ConnectionInterrupted", TRUE>> >>
           P11 == StopInputStream
           P10 == StopAudioStream
           P9 == StopVideoStream
           P8 == StopControlStream
           P7 == << <<"destroy", "input">> >>
           P6 == << <<"destroy", "video">> >>
           P5 == DestroyControlStream
           P4 == <<>>
           P3 == DestroyAudioStream
           P2 == <<>>
           P1 == <<>>
           V11 == V12 \o When(11 <= n, P11 \o Stage(11 - 1))
           V10 == V11 \o When(10 <= n, P10 \o Stage(10 - 1))
           V9 == V10 \o When(9 <= n, P9 \o Stage(9 - 1))
           V8 == V9 \o When(8 <= n, P8 \o Stage(8 - 1))
           V7 == V8 \o When(7 <= n, P7 \o Stage(7 - 1))
           V6 == V7 \o When(6 <= n, P6 \o Stage(6 - 1))
           V5 == V6 \o When(5 <= n, P5 \o Stage(5 - 1))
           V4 == V5 \o When(4 <= n, P4 \o Stage(4 - 1))
           V3 == V4 \o When(3 <= n, P3 \o Stage(3 - 1))
           V2 == V3 \o When(2 <= n, P2 \o Stage(2 - 1))
           V1 == V2 \o When(1 <= n, P1 \o Stage(1 - 1))
<1>1. StopScript(n) = V1
  BY DEF StopScript
<1>2. UndoesDownTo(V12, 12, n)
  <2>1. Clears(V12, {}, {}, {})
    BY PlainParts DEF Plain
  <2>2. /\ {t \in Joinable : 12 <= StageOf(t) /\ StageOf(t) <= n} = {}
        /\ {r \in Resources : 12 <= StageOfResource(r) /\ StageOfResource(r) <= n} = {}
        /\ {m \in 0 .. 11 : 12 <= m + 1 /\ m + 1 <= n} = {}
    BY NeedsComeFirst DEF Joinable
  <2> HIDE DEF V12
  <2> QED
    BY <2>1, <2>2 DEF UndoesDownTo
<1>3. /\ Undoes(P11, 11)
      /\ Undoes(P10, 10)
      /\ Undoes(P9, 9)
      /\ Undoes(P8, 8)
      /\ Undoes(P7, 7)
      /\ Undoes(P6, 6)
      /\ Undoes(P5, 5)
      /\ Undoes(P4, 4)
      /\ Undoes(P3, 3)
      /\ Undoes(P2, 2)
      /\ Undoes(P1, 1)
  BY UndoesInputStream, UndoesAudioStream, UndoesVideoStream, UndoesControlStream, UndoesQueues
<1> HIDE DEF V12, P11, P10, P9, P8, P7, P6, P5, P4, P3, P2, P1
<1>4. UndoesDownTo(V11, 11, n)
  <2>1. UndoesDownTo(V12, 11 + 1, n) /\ 11 \in 1 .. 11
    BY <1>2
  <2> QED
    BY <1>3, <2>1, AddPart
<1>5. UndoesDownTo(V10, 10, n)
  <2> HIDE DEF V11
  <2>1. UndoesDownTo(V11, 10 + 1, n) /\ 10 \in 1 .. 11
    BY <1>4
  <2> QED
    BY <1>3, <2>1, AddPart
<1>6. UndoesDownTo(V9, 9, n)
  <2> HIDE DEF V10
  <2>1. UndoesDownTo(V10, 9 + 1, n) /\ 9 \in 1 .. 11
    BY <1>5
  <2> QED
    BY <1>3, <2>1, AddPart
<1>7. UndoesDownTo(V8, 8, n)
  <2> HIDE DEF V9
  <2>1. UndoesDownTo(V9, 8 + 1, n) /\ 8 \in 1 .. 11
    BY <1>6
  <2> QED
    BY <1>3, <2>1, AddPart
<1>8. UndoesDownTo(V7, 7, n)
  <2> HIDE DEF V8
  <2>1. UndoesDownTo(V8, 7 + 1, n) /\ 7 \in 1 .. 11
    BY <1>7
  <2> QED
    BY <1>3, <2>1, AddPart
<1>9. UndoesDownTo(V6, 6, n)
  <2> HIDE DEF V7
  <2>1. UndoesDownTo(V7, 6 + 1, n) /\ 6 \in 1 .. 11
    BY <1>8
  <2> QED
    BY <1>3, <2>1, AddPart
<1>10. UndoesDownTo(V5, 5, n)
  <2> HIDE DEF V6
  <2>1. UndoesDownTo(V6, 5 + 1, n) /\ 5 \in 1 .. 11
    BY <1>9
  <2> QED
    BY <1>3, <2>1, AddPart
<1>11. UndoesDownTo(V4, 4, n)
  <2> HIDE DEF V5
  <2>1. UndoesDownTo(V5, 4 + 1, n) /\ 4 \in 1 .. 11
    BY <1>10
  <2> QED
    BY <1>3, <2>1, AddPart
<1>12. UndoesDownTo(V3, 3, n)
  <2> HIDE DEF V4
  <2>1. UndoesDownTo(V4, 3 + 1, n) /\ 3 \in 1 .. 11
    BY <1>11
  <2> QED
    BY <1>3, <2>1, AddPart
<1>13. UndoesDownTo(V2, 2, n)
  <2> HIDE DEF V3
  <2>1. UndoesDownTo(V3, 2 + 1, n) /\ 2 \in 1 .. 11
    BY <1>12
  <2> QED
    BY <1>3, <2>1, AddPart
<1>14. UndoesDownTo(V1, 1, n)
  <2> HIDE DEF V2
  <2>1. UndoesDownTo(V2, 1 + 1, n) /\ 1 \in 1 .. 11
    BY <1>13
  <2> QED
    BY <1>3, <2>1, AddPart
<1> QED
  BY <1>1, <1>14

-------------------------------------------------------------------------------
(* What a failing step undoes. *)
Steps == Tries \cup (Threads \ {"AudioPing"})

(* The threads that its stage had before it. *)
Before(x) == {t \in Joinable : StageOf(t) = StageOf(x) /\ StepRank(t) < StepRank(x)}

(* The stages of the steps. *)
LEMMA StepStages ==
  /\ StageOf("platform") = 1 /\ StageOf("name") = 2 /\ StageOf("RTSP") = 4
  /\ StageOf("enet") = 8 /\ StageOf("StartA") = 8 /\ StageOf("StartB") = 8
  /\ StageOf("video") = 9 /\ StageOf("audio") = 10
BY DEF StageOf

(* The steps whose failure has nothing to undo in its own stage. *)
LEMMA NothingBefore ==
  \A x \in {"platform", "name", "RTSP", "enet", "ControlRecv", "video", "VideoRecv", "audio",
            "AudioRecv", "InputSend"} : Before(x) = {}
BY ThreadStages, StepStages, StepRanks DEF Before, Joinable, Threads

(* The others. *)
LEMMA SomeBefore ==
  /\ Before("StartA") = {"ControlRecv"} /\ Before("StartB") = {"ControlRecv"}
  /\ Before("LossStats") = {"ControlRecv"}
  /\ Before("ReqIdr") = {"LossStats", "ControlRecv"}
  /\ Before("AsyncCb") = {"LossStats", "ControlRecv", "ReqIdr"}
  /\ Before("InvRef") = {"LossStats", "ControlRecv", "ReqIdr", "AsyncCb"}
  /\ Before("VideoDec") = {"VideoRecv"}
  /\ Before("VideoPing") = {"VideoRecv"} \cup (IF directVideo THEN {} ELSE {"VideoDec"})
  /\ Before("AudioDec") = {"AudioRecv"}
<1>1. \A t : t \in Joinable => t \in Threads
  BY DEF Joinable
<1>2. /\ Before("StartA") = {"ControlRecv"} /\ Before("StartB") = {"ControlRecv"}
      /\ Before("LossStats") = {"ControlRecv"}
  BY <1>1, Joined, ThreadStages, StepStages, StepRanks DEF Before, Threads
<1>3. /\ Before("ReqIdr") = {"LossStats", "ControlRecv"}
      /\ Before("AsyncCb") = {"LossStats", "ControlRecv", "ReqIdr"}
  BY <1>1, Joined, ThreadStages, StepStages, StepRanks DEF Before, Threads
<1>4. Before("InvRef") = {"LossStats", "ControlRecv", "ReqIdr", "AsyncCb"}
  BY <1>1, Joined, ThreadStages, StepStages, StepRanks DEF Before, Threads
<1>5. /\ Before("VideoDec") = {"VideoRecv"}
      /\ Before("VideoPing") = {"VideoRecv"} \cup (IF directVideo THEN {} ELSE {"VideoDec"})
  BY <1>1, Joined, ThreadStages, StepStages, StepRanks DEF Before, Threads
<1>6. Before("AudioDec") = {"AudioRecv"}
  BY <1>1, Joined, ThreadStages, StepStages, StepRanks DEF Before, Threads
<1> QED
  BY <1>2, <1>3, <1>4, <1>5, <1>6

(* What startControlStream undoes where it fails: its own threads, and the peer. *)
LEMMA UndoControlClears ==
  ASSUME NEW x \in {"enet", "ControlRecv", "StartA", "StartB", "LossStats", "ReqIdr", "AsyncCb",
                    "InvRef"}
  PROVE  Clears(Undo(x), Before(x), {"peer"}, {})
<1>1. NoPeer = <<Release("peer")>> /\ "peer" \in Resources
  BY DEF NoPeer, Release, Resources
<1>2. ASSUME NEW s, NEW T, Clears(s, T, {}, {})
      PROVE  Clears(s \o NoPeer, T, {"peer"}, {})
  <2>1. Clears(s \o <<Release("peer")>>, T, {} \cup {"peer"}, {})
    BY <1>1, <1>2, AddRelease
  <2>2. {} \cup {"peer"} = {"peer"}
    OBVIOUS
  <2> QED
    BY <1>1, <2>1, <2>2
<1>3. /\ Clears(UndoSilently, {}, {}, {}) /\ Clears(UndoAsyncThread, {}, {}, {})
      /\ Clears(UndoInvalidationThread, {}, {}, {})
      /\ Clears(<< <<"stopping", TRUE>> >>, {}, {}, {})
  BY PlainParts DEF Plain
<1>4. ASSUME NEW s, NEW T, NEW t \in Threads, Clears(s, T, {}, {}), t \notin T
      PROVE  Clears(s \o Stops(t), T \cup {t}, {}, {})
  BY <1>4, AddJoin
<1>5. CASE x \in {"enet", "ControlRecv"}
  <2>1. Undo(x) = << <<"stopping", TRUE>> >> \o NoPeer
    BY <1>5 DEF Undo
  <2>2. Before(x) = {}
    BY <1>5, NothingBefore
  <2> QED
    BY <1>2, <1>3, <2>1, <2>2
<1>6. CASE x \in {"StartA", "StartB", "LossStats"}
  <2>1. Undo(x) = UndoSilently \o Stops("ControlRecv") \o NoPeer
    BY <1>6 DEF Undo
  <2>2. Before(x) = {} \cup {"ControlRecv"}
    BY <1>6, SomeBefore
  <2>3. Clears(UndoSilently \o Stops("ControlRecv"), {} \cup {"ControlRecv"}, {}, {})
    BY <1>3, <1>4, Names
  <2>4. Clears((UndoSilently \o Stops("ControlRecv")) \o NoPeer, {} \cup {"ControlRecv"},
               {"peer"}, {})
    BY <1>2, <2>3
  <2> QED
    BY <2>1, <2>2, <2>4
<1>7. CASE x = "ReqIdr"
  <2> DEFINE u1 == UndoSilently \o Stops("LossStats")
             u2 == u1 \o Stops("ControlRecv")
  <2>1. Undo(x) = u2 \o NoPeer
    BY <1>7 DEF Undo
  <2>2. Before(x) = ({} \cup {"LossStats"}) \cup {"ControlRecv"}
    BY <1>7, SomeBefore
  <2>3. Clears(u1, {} \cup {"LossStats"}, {}, {})
    BY <1>3, <1>4, Names
  <2> HIDE DEF u1
  <2>4. Clears(u2, ({} \cup {"LossStats"}) \cup {"ControlRecv"}, {}, {})
    BY <1>4, <2>3, Names
  <2> HIDE DEF u2
  <2>5. Clears(u2 \o NoPeer, ({} \cup {"LossStats"}) \cup {"ControlRecv"}, {"peer"}, {})
    BY <1>2, <2>4
  <2> QED
    BY <2>1, <2>2, <2>5
<1>8. CASE x = "AsyncCb"
  <2> DEFINE u1 == UndoAsyncThread \o Stops("LossStats")
             u2 == u1 \o Stops("ControlRecv")
             u3 == u2 \o Stops("ReqIdr")
             T == (({} \cup {"LossStats"}) \cup {"ControlRecv"}) \cup {"ReqIdr"}
  <2>1. Undo(x) = u3 \o NoPeer
    BY <1>8 DEF Undo
  <2>2. Before(x) = T
    BY <1>8, SomeBefore
  <2>3. Clears(u1, {} \cup {"LossStats"}, {}, {})
    BY <1>3, <1>4, Names
  <2> HIDE DEF u1
  <2>4. Clears(u2, ({} \cup {"LossStats"}) \cup {"ControlRecv"}, {}, {})
    BY <1>4, <2>3, Names
  <2> HIDE DEF u2
  <2>5. Clears(u3, T, {}, {})
    BY <1>4, <2>4, Names
  <2> HIDE DEF u3, T
  <2>6. Clears(u3 \o NoPeer, T, {"peer"}, {})
    BY <1>2, <2>5
  <2> QED
    BY <2>1, <2>2, <2>6
<1>9. CASE x = "InvRef"
  <2> DEFINE u1 == UndoInvalidationThread \o Stops("LossStats")
             u2 == u1 \o Stops("ControlRecv")
             u3 == u2 \o Stops("ReqIdr")
             u4 == u3 \o Stops("AsyncCb")
             T3 == (({} \cup {"LossStats"}) \cup {"ControlRecv"}) \cup {"ReqIdr"}
             T4 == T3 \cup {"AsyncCb"}
  <2>1. Undo(x) = u4 \o NoPeer
    BY <1>9 DEF Undo
  <2>2. Before(x) = T4
    BY <1>9, SomeBefore
  <2>3. Clears(u1, {} \cup {"LossStats"}, {}, {})
    BY <1>3, <1>4, Names
  <2> HIDE DEF u1
  <2>4. Clears(u2, ({} \cup {"LossStats"}) \cup {"ControlRecv"}, {}, {})
    BY <1>4, <2>3, Names
  <2> HIDE DEF u2
  <2>5. Clears(u3, T3, {}, {}) /\ "AsyncCb" \notin T3
    BY <1>4, <2>4, Names
  <2> HIDE DEF u3, T3
  <2>6. Clears(u4, T4, {}, {})
    BY <1>4, <2>5, Names
  <2> HIDE DEF u4, T4
  <2>7. Clears(u4 \o NoPeer, T4, {"peer"}, {})
    BY <1>2, <2>6
  <2> QED
    BY <2>1, <2>2, <2>7
<1> QED
  BY <1>5, <1>6, <1>7, <1>8, <1>9

(* What the other starts undo where they fail. *)
LEMMA UndoOtherClears ==
  ASSUME NEW x \in {"platform", "name", "RTSP", "video", "VideoRecv", "VideoDec", "VideoPing",
                    "audio", "AudioRecv", "AudioDec", "InputSend"}
  PROVE  Clears(Undo(x), Before(x), {}, {})
<1>1. CASE x \in {"platform", "name", "RTSP", "video", "VideoRecv", "audio", "AudioRecv",
                  "InputSend"}
  <2>1. Undo(x) = <<>>
    BY <1>1 DEF Undo
  <2>2. Before(x) = {}
    BY <1>1, NothingBefore
  <2> QED
    BY <2>1, <2>2, EmptyPlain DEF Plain
<1>2. CASE x \in {"VideoDec", "AudioDec"}
  <2>1. ASSUME NEW t \in Threads PROVE Clears(Stops(t), {t}, {}, {})
    <3>1. Clears(Join(t), {t}, {}, {})
      BY JoinClears
    <3> QED
      BY <3>1, InterruptPlain, PlainClears DEF Stops
  <2>2. /\ Undo("VideoDec") = Stops("VideoRecv") /\ Undo("AudioDec") = Stops("AudioRecv")
    BY DEF Undo
  <2>3. Before("VideoDec") = {"VideoRecv"} /\ Before("AudioDec") = {"AudioRecv"}
    BY SomeBefore
  <2>4. Clears(Stops("VideoRecv"), {"VideoRecv"}, {}, {})
    BY <2>1, Names
  <2>5. Clears(Stops("AudioRecv"), {"AudioRecv"}, {}, {})
    BY <2>1, Names
  <2>6. CASE x = "VideoDec"
    BY <2>2, <2>3, <2>4, <2>6
  <2>7. CASE x = "AudioDec"
    BY <2>2, <2>3, <2>5, <2>7
  <2> QED
    BY <1>2, <2>6, <2>7
<1>3. CASE x = "VideoPing"
  <2> DEFINE u1 == << <<"shutdown", "video">> >> \o Interrupt("VideoRecv")
             u2 == u1 \o When(~directVideo, Interrupt("VideoDec"))
             u3 == u2 \o Join("VideoRecv")
  <2>1. Undo(x) = u3 \o When(~directVideo, Join("VideoDec"))
    BY <1>3 DEF Undo
  <2>2. Plain(Interrupt("VideoRecv")) /\ Plain(Interrupt("VideoDec"))
    BY InterruptPlain, Names
  <2>3. Plain(When(~directVideo, Interrupt("VideoDec")))
    BY <2>2, EmptyPlain DEF When
  <2>4. Clears(u1, {}, {}, {})
    BY <2>2, PlainParts, PlainClears DEF Plain
  <2> HIDE DEF u1
  <2>5. Clears(u2, {}, {}, {})
    BY <2>3, <2>4, PlainClears
  <2> HIDE DEF u2
  <2>6. Clears(u3, {} \cup {"VideoRecv"}, {}, {})
    BY <2>5, AddJoin, Names
  <2> HIDE DEF u3
  <2>7. CASE directVideo
    <3>1. Clears(u3 \o <<>>, {} \cup {"VideoRecv"}, {}, {})
      BY <2>6, EmptyPlain, PlainClears
    <3>2. Undo(x) = u3 \o <<>> /\ Before(x) = {} \cup {"VideoRecv"}
      BY <1>3, <2>1, <2>7, SomeBefore DEF When
    <3> QED
      BY <3>1, <3>2
  <2>8. CASE ~directVideo
    <3>1. Clears(u3 \o Join("VideoDec"), ({} \cup {"VideoRecv"}) \cup {"VideoDec"}, {}, {})
      BY <2>6, AddJoin, Names
    <3>2. /\ Undo(x) = u3 \o Join("VideoDec")
          /\ Before(x) = ({} \cup {"VideoRecv"}) \cup {"VideoDec"}
      BY <1>3, <2>1, <2>8, SomeBefore DEF When
    <3> QED
      BY <3>1, <3>2
  <2> QED
    BY <2>7, <2>8
<1> QED
  BY <1>1, <1>2, <1>3

(* The failure of step x, the connection being in the stage before. *)
LEMMA FailureUndoes ==
  ASSUME NEW x \in Steps, NEW n \in 0 .. 11, n + 1 = StageOf(x)
  PROVE  /\ Undo(x) \o StopScript(n) \in Seq(Instructions)
         /\ InOrder(Undo(x) \o StopScript(n))
         /\ \A a \in Elements(Undo(x) \o StopScript(n)) :
              a[1] \notin Building /\ a # <<"peer", TRUE>>
         /\ \A t \in Threads : <<"join", t>> \in Elements(Undo(x) \o StopScript(n))
                <=> t \in Joinable /\ (StageOf(t) <= n \/ t \in Before(x))
         /\ \A r \in Resources : StageOfResource(r) <= n =>
                Release(r) \in Elements(Undo(x) \o StopScript(n))
         /\ n = 7 => Release("peer") \in Elements(Undo(x) \o StopScript(n))
         /\ n # 0 => <<"stage", 0>> \in Elements(Undo(x) \o StopScript(n))
         /\ \A m \in 0 .. 11 : <<"stage", m>> \in Elements(Undo(x) \o StopScript(n)) => n # 0
<1> DEFINE S == {t \in Joinable : 1 <= StageOf(t) /\ StageOf(t) <= n}
           R == {r \in Resources : 1 <= StageOfResource(r) /\ StageOfResource(r) <= n}
           Z == {m \in 0 .. 11 : 1 <= m + 1 /\ m + 1 <= n}
           Q == IF StageOf(x) = 8 THEN {"peer"} ELSE {}
           s == Undo(x)
           u == StopScript(n)
<1>1. Clears(u, S, R, Z)
  BY StopUndoes DEF UndoesDownTo
<1>2. Clears(s, Before(x), Q, {})
  <2>1. /\ x \in {"enet", "ControlRecv", "StartA", "StartB", "LossStats", "ReqIdr", "AsyncCb",
                  "InvRef"} => StageOf(x) = 8
        /\ x \in {"platform", "name", "RTSP", "video", "VideoRecv", "VideoDec", "VideoPing",
                  "audio", "AudioRecv", "AudioDec", "InputSend"} => StageOf(x) # 8
        /\ \/ x \in {"enet", "ControlRecv", "StartA", "StartB", "LossStats", "ReqIdr", "AsyncCb",
                     "InvRef"}
           \/ x \in {"platform", "name", "RTSP", "video", "VideoRecv", "VideoDec", "VideoPing",
                     "audio", "AudioRecv", "AudioDec", "InputSend"}
    BY ThreadStages, StepStages DEF Steps, Tries, Threads
  <2> QED
    BY <2>1, UndoControlClears, UndoOtherClears
<1>3. \A t \in Joinable : t \in Threads /\ StageOf(t) \in 1 .. 11
  BY NeedsComeFirst DEF Joinable
<1>4. /\ \A t \in Threads : t \in S => t \notin Before(x) /\ \A r \in Needs(t) : r \notin Q
      /\ Before(x) \cup S = {t \in Joinable : StageOf(t) <= n \/ t \in Before(x)}
  <2>1. ASSUME NEW t \in Threads, t \in S
        PROVE  t \notin Before(x) /\ \A r \in Needs(t) : r \notin Q
    <3>1. t \notin Before(x)
      BY <1>3, <2>1 DEF Before
    <3>2. ASSUME NEW r \in Needs(t) PROVE r \notin Q
      BY <1>3, <2>1, NeedsComeFirst, ResourceStages
    <3> QED
      BY <3>1, <3>2
  <2>2. Before(x) \cup S = {t \in Joinable : StageOf(t) <= n \/ t \in Before(x)}
    BY <1>3 DEF Before
  <2> QED
    BY <2>1, <2>2
<1>5. /\ \A r \in Resources : StageOfResource(r) <= n => r \in Q \cup R
      /\ n = 7 => "peer" \in Q \cup R
      /\ n # 0 => 0 \in {} \cup Z
      /\ \A m \in 0 .. 11 : m \in {} \cup Z => n # 0
      /\ "peer" \in Resources
  BY NeedsComeFirst DEF Resources
<1> HIDE DEF S, R, Z, Q, s, u
<1>6. Clears(s \o u, Before(x) \cup S, Q \cup R, {} \cup Z)
  BY <1>1, <1>2, <1>4, ClearsConcat
<1>7. /\ s \o u \in Seq(Instructions) /\ InOrder(s \o u)
      /\ \A a \in Elements(s \o u) : a[1] \notin Building /\ a # <<"peer", TRUE>>
      /\ \A t \in Threads : <<"join", t>> \in Elements(s \o u)
                              <=> t \in Joinable /\ (StageOf(t) <= n \/ t \in Before(x))
  BY <1>4, <1>6 DEF Clears
<1>8. /\ \A r \in Resources : StageOfResource(r) <= n => Release(r) \in Elements(s \o u)
      /\ n = 7 => Release("peer") \in Elements(s \o u)
      /\ n # 0 => <<"stage", 0>> \in Elements(s \o u)
      /\ \A m \in 0 .. 11 : <<"stage", m>> \in Elements(s \o u) => n # 0
  BY <1>5, <1>6 DEF Clears
<1> QED
  BY <1>7, <1>8 DEF s, u

-------------------------------------------------------------------------------
(* The invariant. *)

(* What the thread of the application has still to do. *)
Todo == Elements(script)

(* What is there agrees with how far the start has come. *)
Starting ==
  /\ Ascending(script)
  /\ Todo \subseteq Plan
  /\ \A a \in Plan \ Todo, b \in Todo : Rank(a) < Rank(b)
  /\ \A t \in Threads \ {"AudioPing"} : t \in Created <=> Has(t) /\ <<"create", t>> \notin Todo
  /\ "AudioPing" \in Created => <<"attempt", "AudioPing">> \notin Todo
  /\ \A w \in Queues : w \in live <=> <<"initialize", w>> \notin Todo
  /\ peer <=> <<"peer", TRUE>> \notin Todo
  /\ \A n \in 1 .. 11 : <<"stage", n>> \in Todo <=> n > stage

(* What is there is what the rest of the stop still ends. *)
Stopping ==
  /\ InOrder(script)
  /\ \A a \in Todo : a[1] \notin Building /\ a # <<"peer", TRUE>>
  /\ \A t \in Threads : t \in Created <=> <<"join", t>> \in Todo
  /\ \A w \in live : <<"destroy", w>> \in Todo
  /\ peer => <<"peer", FALSE>> \in Todo
  /\ stage # 0 => <<"stage", 0>> \in Todo
  /\ \A n \in 0 .. 11 : <<"stage", n>> \in Todo => <<"stage", 0>> \in Todo

(* A resource is there. *)
Available(r) == IF r = "peer" THEN peer ELSE r \in live

(* No thread is there without what it needs. *)
Held == \A t \in Created : \A r \in Needs(t) : Available(r)

(* The types, that of the script included. *)
Typed == TypeOK /\ script \in Seq(Instructions)

(* Idle, nothing is there; between a start and a stop, what the script says. *)
Orderly ==
  /\ phase \in {"idle", "started"} => script = <<>>
  /\ phase = "idle" => Created = {} /\ live = {} /\ ~peer /\ stage = 0
  /\ phase \in {"starting", "started"} => Starting
  /\ phase = "stopping" => Stopping
  /\ Held

(* The inductive invariant of the connection. *)
ConnectionInv == Typed /\ Orderly

-------------------------------------------------------------------------------
(* Types. *)

(* The operators of the queues keep their type. *)
LEMMA QueueOperators ==
  ASSUME NEW S, NEW u \in QueueOf(S)
  PROVE  /\ NewQueue \in QueueOf(S) /\ Waited(u) \in QueueOf(S) /\ Flushed(u) \in QueueOf(S)
         /\ ShutDown(u) \in QueueOf(S) /\ Drained(u) \in QueueOf(S)
         /\ \A n, x : x \in S => Offered(u, n, x) \in QueueOf(S)
<1>1. u.items \in Seq(S)
  BY DEF QueueOf
<1>2. u.items # <<>> => Tail(u.items) \in Seq(S)
  BY <1>1, HeadTailProperties
<1>3. NewQueue \in QueueOf(S)
  BY DEF NewQueue, QueueOf
<1>4. Waited(u) \in QueueOf(S)
  <2>1. CASE WaitStatus(u) = LBQ_USER_WAKE
    <3>1. Waited(u) = [u EXCEPT !.pendingUserWake = FALSE]
      BY <2>1 DEF Waited, LBQ_SUCCESS, LBQ_USER_WAKE
    <3> QED
      BY <3>1 DEF QueueOf
  <2>2. CASE WaitStatus(u) = LBQ_SUCCESS
    <3>1. Waited(u) = [u EXCEPT !.items = Tail(u.items)] /\ u.items # <<>>
      BY <2>2 DEF Waited, Unlink, WaitStatus, IsEmpty, LBQ_SUCCESS, LBQ_INTERRUPTED, LBQ_USER_WAKE
    <3> QED
      BY <1>2, <3>1 DEF QueueOf
  <2>3. CASE WaitStatus(u) \notin {LBQ_USER_WAKE, LBQ_SUCCESS}
    BY <2>3 DEF Waited
  <2> QED
    BY <2>1, <2>2, <2>3
<1>5. Flushed(u) \in QueueOf(S)
  <2>1. <<>> \in Seq(S)
    OBVIOUS
  <2> QED
    BY <2>1 DEF Flushed, QueueOf
<1>6. ShutDown(u) \in QueueOf(S) /\ Drained(u) \in QueueOf(S)
  BY DEF ShutDown, Drained, QueueOf
<1>7. ASSUME NEW n, NEW x \in S PROVE Offered(u, n, x) \in QueueOf(S)
  <2>1. Append(u.items, x) \in Seq(S)
    BY <1>1, AppendProperties
  <2> QED
    BY <2>1 DEF Offered, Link, QueueOf
<1> QED
  BY <1>3, <1>4, <1>5, <1>6, <1>7

(* What is undone is written in instructions. *)
LEMMA ScriptsTyped ==
  /\ StartScript \in Seq(Instructions)
  /\ \A n \in 0 .. 11 : StopScript(n) \in Seq(Instructions)
  /\ \A x \in Tries \cup Threads : Undo(x) \in Seq(Instructions)
<1>1. StartScript \in Seq(Instructions)
  BY StartPiece DEF Piece
<1>2. ASSUME NEW n \in 0 .. 11 PROVE StopScript(n) \in Seq(Instructions)
  BY StopUndoes DEF UndoesDownTo, Clears
<1>3. ASSUME NEW x \in Tries \cup Threads PROVE Undo(x) \in Seq(Instructions)
  <2>1. CASE x = "AudioPing"
    <3>1. Undo(x) = <<>>
      BY <2>1 DEF Undo
    <3> QED
      BY <3>1
  <2>2. CASE x # "AudioPing"
    <3>1. \/ x \in {"enet", "ControlRecv", "StartA", "StartB", "LossStats", "ReqIdr", "AsyncCb",
                    "InvRef"}
          \/ x \in {"platform", "name", "RTSP", "video", "VideoRecv", "VideoDec", "VideoPing",
                    "audio", "AudioRecv", "AudioDec", "InputSend"}
      BY <2>2 DEF Tries, Threads
    <3> QED
      BY <3>1, UndoControlClears, UndoOtherClears DEF Clears
  <2> QED
    BY <2>1, <2>2
<1> QED
  BY <1>1, <1>2, <1>3

(* What the next instruction speaks of. *)
LEMMA NextTyped ==
  ASSUME Typed, NEW op, NEW x, NextIs(op, x)
  PROVE  /\ <<op, x>> \in Instructions /\ Tail(script) \in Seq(Instructions)
         /\ op = "try" => x \in Tries
         /\ op \in {"create", "attempt", "interrupt", "join"} => x \in Threads
         /\ op \in {"initialize", "shutdown", "drain", "destroy"} => x \in Queues
         /\ op = "stage" => x \in 0 .. 11
<1>1. <<op, x>> \in Instructions /\ Tail(script) \in Seq(Instructions)
  BY TailElements DEF Typed, NextIs
<1>2. /\ op = "try" => x \in Tries
      /\ op \in {"create", "attempt", "interrupt", "join"} => x \in Threads
      /\ op \in {"initialize", "shutdown", "drain", "destroy"} => x \in Queues
      /\ op = "stage" => x \in 0 .. 11
  BY <1>1 DEF Instructions
<1> QED
  BY <1>1, <1>2

(* The first state is typed. *)
LEMMA InitTyped == Init => Typed
<1>1. NewQueue \in QueueOf({"input"} \cup Threads)
  BY DEF NewQueue, QueueOf
<1> QED
  BY <1>1 DEF Init, Typed, TypeOK

(* Each instruction keeps the types. *)
LEMMA InstructionTyped ==
  ASSUME Typed, NEW x, Instruction(x)
  PROVE  Typed'
<1>0. /\ phase \in {"idle", "starting", "started", "stopping"} /\ stage \in 0 .. 11
      /\ thread \in [Threads -> {"none", "run", "clear", "check", "notify", "exited"}]
      /\ cancelled \subseteq Threads /\ live \subseteq Queues
      /\ queue \in [Queues -> QueueOf({"input"} \cup Threads)]
      /\ script \in Seq(Instructions)
  BY DEF Typed, TypeOK
<1>1. ASSUME NEW op, NextIs(op, x), op \in {"try", "create"}, Fails(x)
      PROVE  Typed'
  <2>1. x \in Tries \cup Threads
    BY <1>1, NextTyped
  <2>2. Undo(x) \in Seq(Instructions) /\ StopScript(stage) \in Seq(Instructions)
    BY <1>0, <2>1, ScriptsTyped
  <2>3. script' \in Seq(Instructions)
    BY <1>1, <2>2 DEF Fails
  <2> QED
    BY <1>0, <1>1, <2>3 DEF Fails, Typed, TypeOK, sessionVars, streamVars, flagVars, signalVars,
                            threadVars
<1>2. ASSUME NEW op, Now(op, x)
      PROVE  script' \in Seq(Instructions) /\ phase' = phase /\ NextIs(op, x)
  BY <1>2, NextTyped DEF Now
<1>3. CASE Try(x)
  BY <1>0, <1>1, <1>2, <1>3 DEF Try, Typed, TypeOK, streamVars, flagVars, signalVars, threadVars
<1>4. CASE PltCreateThread(x)
  BY <1>0, <1>1, <1>2, <1>4 DEF PltCreateThread, Typed, TypeOK, streamVars, flagVars, signalVars,
                                threadVars
<1>5. CASE PltInterruptThread(x)
  <2>1. x \in Threads
    BY <1>2, <1>5, NextTyped DEF PltInterruptThread
  <2> QED
    BY <1>0, <1>2, <1>5, <2>1 DEF PltInterruptThread, Typed, TypeOK, streamVars, flagVars,
                                  signalVars
<1>6. CASE PltJoinThread(x)
  BY <1>0, <1>2, <1>6 DEF PltJoinThread, Typed, TypeOK, streamVars, flagVars, signalVars
<1>7. CASE SetQueue(x)
  <2>1. /\ UNCHANGED <<stage, thread, cancelled>>
        /\ \E op \in {"initialize", "shutdown", "drain", "destroy"} : Now(op, x)
    BY <1>7 DEF SetQueue, threadVars
  <2>2. x \in Queues /\ script' \in Seq(Instructions) /\ phase' = phase
    BY <1>2, <2>1, NextTyped
  <2>3. queue[x] \in QueueOf({"input"} \cup Threads)
    BY <1>0, <2>2
  <2>4. /\ NewQueue \in QueueOf({"input"} \cup Threads)
        /\ ShutDown(queue[x]) \in QueueOf({"input"} \cup Threads)
        /\ Drained(queue[x]) \in QueueOf({"input"} \cup Threads)
    BY <2>3, QueueOperators
  <2>5. /\ queue' \in [Queues -> QueueOf({"input"} \cup Threads)]
        /\ live' \subseteq Queues
    <3> HIDE DEF Queues
    <3> QED
      BY <1>0, <1>7, <2>2, <2>4 DEF SetQueue
  <2> QED
    BY <1>0, <2>1, <2>2, <2>5 DEF Typed, TypeOK
<1>8. CASE SetFlag(x)
  <2>1. /\ UNCHANGED <<stage, live, queue, thread, cancelled>>
        /\ \E op : Now(op, x)
    BY <1>8 DEF SetFlag, signalVars, threadVars
  <2> QED
    BY <1>0, <1>2, <2>1 DEF Typed, TypeOK
<1>9. CASE SetEvent(x)
  BY <1>0, <1>2, <1>9 DEF SetEvent, Typed, TypeOK, streamVars, threadVars
<1>10. CASE SetStage(x)
  <2>1. x \in 0 .. 11
    BY <1>2, <1>10, NextTyped DEF SetStage
  <2> QED
    BY <1>0, <1>2, <1>10, <2>1 DEF SetStage, Typed, TypeOK, signalVars, threadVars
<1> QED
  BY <1>3, <1>4, <1>5, <1>6, <1>7, <1>8, <1>9, <1>10 DEF Instruction

(* The other threads move threads that are there, and leave the rest as it is. *)
Apart ==
  /\ UNCHANGED <<setup, script, phase, stage, peer, live>>
  /\ Created' = Created

(* A thread that moves is there, before and afterwards. *)
LEMMA MovesApart ==
  ASSUME Typed, NEW t \in Threads, NEW from \in {"run", "clear", "check", "notify"},
         NEW to \in {"run", "clear", "check", "notify", "exited"}, Moves(t, from, to)
  PROVE  /\ Apart /\ UNCHANGED cancelled
         /\ thread' \in [Threads -> {"none", "run", "clear", "check", "notify", "exited"}]
<1>1. thread \in [Threads -> {"none", "run", "clear", "check", "notify", "exited"}]
  BY DEF Typed, TypeOK
<1>2. thread[t] = from /\ thread' = [thread EXCEPT ![t] = to]
  BY DEF Moves
<1>3. \A u \in Threads : thread'[u] # "none" <=> thread[u] # "none"
  <2> HIDE DEF Threads
  <2> QED
    BY <1>1, <1>2
<1>4. Created' = Created
  BY <1>3 DEF Created
<1>5. UNCHANGED <<setup, script, phase, stage, peer, live, cancelled>>
  BY DEF Moves, sessionVars, streamVars
<1> QED
  BY <1>1, <1>2, <1>4, <1>5 DEF Apart

(* A consumer takes what it waits for. *)
LEMMA ConsumersWait ==
  /\ \A t \in Consumers : t \in Threads /\ WaitsFor(t) \in Queues
  /\ \A t \in Pollers \cup Failing : t \in Threads
BY DEF Consumers, WaitsFor, Queues, Threads, Pollers, Failing

(* The environment and the other threads keep the types, and do not touch what *)
(* the starts and the stops are about.                                         *)
LEMMA OthersApart ==
  ASSUME Typed, Environment \/ \E t \in Threads : Thread(t)
  PROVE  Typed' /\ Apart
<1> DEFINE Q == QueueOf({"input"} \cup Threads)
<1>0. /\ phase \in {"idle", "starting", "started", "stopping"} /\ stage \in 0 .. 11
      /\ thread \in [Threads -> {"none", "run", "clear", "check", "notify", "exited"}]
      /\ cancelled \subseteq Threads /\ live \subseteq Queues
      /\ queue \in [Queues -> Q]
      /\ script \in Seq(Instructions)
  BY DEF Typed, TypeOK
<1>1. ASSUME NEW t \in Threads, NEW from \in {"run", "clear", "check", "notify"},
             NEW to \in {"run", "clear", "check", "notify", "exited"}, Moves(t, from, to),
             queue' \in [Queues -> Q]
      PROVE  Typed' /\ Apart
  <2>1. /\ Apart /\ UNCHANGED cancelled
        /\ thread' \in [Threads -> {"none", "run", "clear", "check", "notify", "exited"}]
    BY <1>1, MovesApart
  <2> QED
    BY <1>0, <1>1, <2>1 DEF Typed, TypeOK, Apart
<1>2. ASSUME NEW w \in Queues
      PROVE  /\ [queue EXCEPT ![w] = Waited(@)] \in [Queues -> Q]
             /\ [queue EXCEPT ![w] = Flushed(@)] \in [Queues -> Q]
             /\ \A n, x : x \in {"input"} \cup Threads =>
                  [queue EXCEPT ![w] = Offered(@, n, x)] \in [Queues -> Q]
  <2>1. queue[w] \in Q
    BY <1>0
  <2>2. /\ Waited(queue[w]) \in Q /\ Flushed(queue[w]) \in Q
        /\ \A n, x : x \in {"input"} \cup Threads => Offered(queue[w], n, x) \in Q
    BY <2>1, QueueOperators
  <2> HIDE DEF Q
  <2> QED
    BY <1>0, <2>2
<1>3. "rfi" \in Queues /\ "VideoRecv" \in Threads /\ "ReqIdr" \in Threads
  BY DEF Queues, Threads
<1> HIDE DEF Q
<1>4. ASSUME NEW t \in Threads, Poll(t) PROVE Typed' /\ Apart
  BY <1>0, <1>1, <1>4 DEF Poll, signalVars
<1>5. ASSUME NEW t \in Consumers, StopWaiting(t) PROVE Typed' /\ Apart
  <2>1. t \in Threads
    BY ConsumersWait
  <2>2. Moves(t, "run", "exited") /\ UNCHANGED queue
    BY <1>5 DEF StopWaiting, signalVars
  <2> QED
    BY <1>0, <1>1, <2>1, <2>2
<1>6. ASSUME NEW t \in Consumers, Consume(t) PROVE Typed' /\ Apart
  <2>1. t \in Threads /\ WaitsFor(t) \in Queues
    BY ConsumersWait
  <2>2. /\ Moves(t, "run", IF StopsEarly(t) THEN "exited" ELSE "run")
        /\ queue' = [queue EXCEPT ![WaitsFor(t)] = Waited(@)]
    BY <1>6 DEF Consume
  <2> QED
    BY <1>1, <1>2, <2>1, <2>2
<1>7. ASSUME NEW t \in Pollers, NEW w \in Queues, Produce(t, w) PROVE Typed' /\ Apart
  <2>1. t \in Threads
    BY ConsumersWait
  <2>2. /\ Moves(t, "run", "run")
        /\ queue' = [queue EXCEPT ![w] = Offered(@, MaxEvents, t)]
    BY <1>7 DEF Produce
  <2> QED
    BY <1>1, <1>2, <2>1, <2>2
<1>8. ASSUME RequestIdrFrame PROVE Typed' /\ Apart
  BY <1>1, <1>2, <1>3, <1>8 DEF RequestIdrFrame
<1>9. ASSUME IdrThread PROVE Typed' /\ Apart
  <2>1. CASE AwaitEvent
    BY <1>0, <1>1, <1>3, <2>1 DEF AwaitEvent, signalVars
  <2>2. CASE ClearEvent
    BY <1>0, <1>1, <1>3, <2>2 DEF ClearEvent
  <2>3. CASE CheckStopping
    <3>1. /\ Moves("ReqIdr", "check",
                   IF stopping \/ "ReqIdr" \in cancelled THEN "exited" ELSE "run")
          /\ queue' = queue \/ queue' = [queue EXCEPT !["rfi"] = Flushed(@)]
      BY <2>3 DEF CheckStopping
    <3> QED
      BY <1>0, <1>1, <1>2, <1>3, <3>1
  <2> QED
    BY <1>9, <2>1, <2>2, <2>3 DEF IdrThread
<1>10. ASSUME NEW t \in Threads, ClInternalConnectionTerminated(t) PROVE Typed' /\ Apart
  <2>1. Moves(t, "notify", AfterError(t)) /\ UNCHANGED queue
    BY <1>10 DEF ClInternalConnectionTerminated, signalVars
  <2>2. AfterError(t) \in {"run", "exited"}
    BY DEF AfterError
  <2> QED
    BY <1>0, <1>1, <2>1, <2>2
<1>11. ASSUME NEW t \in Failing, MeetError(t) PROVE Typed' /\ Apart
  <2>1. t \in Threads
    BY ConsumersWait
  <2>2. Moves(t, IF t = "ReqIdr" THEN "check" ELSE "run",
                 IF MayNotify THEN "notify" ELSE AfterError(t))
    BY <1>11 DEF MeetError
  <2>3. AfterError(t) \in {"run", "exited"}
    BY DEF AfterError
  <2>4. queue' \in [Queues -> Q]
    BY <1>0, <1>2, <1>3, <1>11, ConsumersWait DEF MeetError
  <2> QED
    BY <1>1, <2>1, <2>2, <2>3, <2>4
<1>12. ASSUME CallConnectionTerminated PROVE Typed' /\ Apart
  BY <1>0, <1>12 DEF CallConnectionTerminated, Typed, TypeOK, Apart, Created, sessionVars,
                     streamVars, signalVars, threadVars, Q
<1> QED
  BY <1>4, <1>5, <1>6, <1>7, <1>8, <1>9, <1>10, <1>11, <1>12 DEF Environment, Thread

(* What the application does to the connection while it starts or runs. *)
LEMMA ApplicationApart ==
  ASSUME Typed, LiInterruptConnection \/ SendInput
  PROVE  Typed' /\ Apart
<1>1. CASE LiInterruptConnection
  BY <1>1 DEF LiInterruptConnection, Typed, TypeOK, Apart, Created, sessionVars, streamVars,
              signalVars, threadVars
<1>2. CASE SendInput
  <2>1. /\ UNCHANGED <<setup, script, phase, stage, peer, live, thread, cancelled>>
        /\ queue' = [queue EXCEPT !["input"] = Offered(@, MaxEvents, "input")]
    BY <1>2 DEF SendInput, sessionVars, streamVars, threadVars
  <2>2. queue["input"] \in QueueOf({"input"} \cup Threads)
    BY DEF Typed, TypeOK, Queues
  <2>3. Offered(queue["input"], MaxEvents, "input") \in QueueOf({"input"} \cup Threads)
    BY <2>2, QueueOperators
  <2>4. queue' \in [Queues -> QueueOf({"input"} \cup Threads)]
    BY <2>1, <2>3 DEF Typed, TypeOK
  <2> QED
    BY <2>1, <2>4 DEF Typed, TypeOK, Apart, Created
<1> QED
  BY <1>1, <1>2

(* Every step keeps the types. *)
LEMMA NextTypes == Typed /\ [Next]_vars => Typed'
<1> SUFFICES ASSUME Typed, [Next]_vars PROVE Typed'
  OBVIOUS
<1>1. CASE LiStartConnection
  BY <1>1, ScriptsTyped DEF LiStartConnection, Typed, TypeOK, streamVars, signalVars, threadVars
<1>2. CASE LiStopConnection
  <2>1. script' \in Seq(Instructions)
    BY <1>2, ScriptsTyped DEF LiStopConnection, Typed, TypeOK
  <2> QED
    BY <1>2, <2>1 DEF LiStopConnection, Typed, TypeOK, streamVars, signalVars, threadVars
<1>3. CASE Returns
  BY <1>3 DEF Returns, Typed, TypeOK, streamVars, signalVars, threadVars
<1>4. CASE UNCHANGED vars
  BY <1>4 DEF vars, Typed, TypeOK, streamVars, signalVars, threadVars
<1>5. CASE LiInterruptConnection \/ SendInput
  BY <1>5, ApplicationApart
<1>6. CASE Environment \/ \E t \in Threads : Thread(t)
  BY <1>6, OthersApart
<1>7. CASE script # <<>> /\ Instruction(Head(script)[2])
  BY <1>7, InstructionTyped
<1> QED
  BY <1>1, <1>2, <1>3, <1>4, <1>5, <1>6, <1>7 DEF Next, Application, MainThread

-------------------------------------------------------------------------------
(* A step of the start. *)

(* Every instruction of the start has its place. *)
LEMMA PlanRanks ==
  /\ \A a \in Plan : Rank(a) \in Nat /\ a \in Instructions
  /\ \A w \in Queues : <<"initialize", w>> \in Plan
  /\ \A n \in 1 .. 11 : <<"stage", n>> \in Plan
  /\ <<"peer", TRUE>> \in Plan /\ <<"attempt", "AudioPing">> \in Plan
  /\ \A t \in Threads \ {"AudioPing"} : <<"create", t>> \in Plan <=> Has(t)
<1>1. \A a \in Plan : Rank(a) \in Nat
  BY StartPiece DEF Piece
<1>2. \A a \in Plan : a \in Instructions
  <2>1. /\ StartScript \in Seq(Instructions) /\ Plan = Elements(StartScript)
    BY StartPiece DEF Piece
  <2> QED
    BY <2>1 DEF Elements
<1> QED
  BY <1>1, <1>2 DEF Plan

(* What the instructions of the plan speak of. *)
LEMMA PlanCases ==
  /\ \A x : <<"try", x>> \in Plan => x \in Tries
  /\ \A x : <<"create", x>> \in Plan => x \in Threads \ {"AudioPing"} /\ Has(x)
  /\ \A x : <<"attempt", x>> \in Plan => x = "AudioPing"
  /\ \A x : <<"initialize", x>> \in Plan => x \in Queues
  /\ \A x : <<"peer", x>> \in Plan => x = TRUE
  /\ \A x : <<"stage", x>> \in Plan => x \in 1 .. 11
  /\ \A x : /\ <<"join", x>> \notin Plan /\ <<"interrupt", x>> \notin Plan
            /\ <<"destroy", x>> \notin Plan
BY DEF Plan

(* What is to do is what follows the next instruction in the plan. *)
LEMMA TodoIsTheRest ==
  ASSUME Typed, Starting, script # <<>>
  PROVE  /\ Head(script) \in Plan
         /\ \A a \in Plan : a \in Todo <=> Rank(Head(script)) <= Rank(a)
         /\ Elements(Tail(script)) = Todo \ {Head(script)}
         /\ \A b \in Elements(Tail(script)) : Rank(Head(script)) < Rank(b)
         /\ Ascending(Tail(script))
<1> DEFINE h == Head(script)
           u == Tail(script)
<1>1. /\ u \in Seq(Instructions) /\ Todo = {h} \cup Elements(u)
  BY TailElements DEF Typed, Todo
<1>2. /\ \A i \in DOMAIN u : i + 1 \in DOMAIN script /\ u[i] = script[i + 1]
      /\ \A a \in Elements(u) : \E j \in DOMAIN script : 1 < j /\ script[j] = a
      /\ \A i, j \in DOMAIN u : i < j => i + 1 < j + 1
      /\ 1 \in DOMAIN script /\ h = script[1]
  BY TailIndices DEF Typed
<1> HIDE DEF h, u
<1>3. \A b \in Elements(u) : Rank(h) < Rank(b)
  BY <1>2 DEF Starting, Ascending
<1>4. Ascending(u)
  BY <1>2 DEF Starting, Ascending
<1>5. h \in Todo /\ h \in Plan
  BY <1>1 DEF Starting
<1>6. Rank(h) \in Nat /\ \A a \in Plan : Rank(a) \in Nat
  BY <1>5, PlanRanks
<1>7. ASSUME NEW a \in Plan PROVE a \in Todo <=> Rank(h) <= Rank(a)
  <2>1. CASE a \in Todo
    BY <1>1, <1>3, <1>6, <2>1
  <2>2. CASE a \notin Todo
    <3>1. Rank(a) < Rank(h)
      BY <1>5, <2>2 DEF Starting
    <3> QED
      BY <1>6, <2>2, <3>1
  <2> QED
    BY <2>1, <2>2
<1>8. h \notin Elements(u)
  BY <1>3, <1>6
<1> QED
  BY <1>1, <1>3, <1>4, <1>5, <1>7, <1>8 DEF h, u

(* The plan of a session does not change. *)
LEMMA PlanUnchanged ==
  ASSUME UNCHANGED setup
  PROVE  Plan' = Plan /\ \A t \in Threads : Has(t)' = Has(t)
<1>1. /\ rfiEnabled' = rfiEnabled /\ directVideo' = directVideo /\ directAudio' = directAudio
  BY DEF rfiEnabled, directVideo, directAudio
<1>2. \A t \in Threads : Has(t)' = Has(t)
  BY <1>1 DEF Has
<1> QED
  BY <1>2 DEF Plan

(* The next instruction of the start does what it says. *)
LEMMA StartingStep ==
  ASSUME Typed, Starting, script # <<>>, script' = Tail(script), UNCHANGED setup,
         NEW h, h = Head(script),
         \A t \in Threads \ {"AudioPing"} : t \in Created' <=> t \in Created \/ h = <<"create", t>>,
         "AudioPing" \in Created' => "AudioPing" \in Created \/ h = <<"attempt", "AudioPing">>,
         \A w \in Queues : w \in live' <=> w \in live \/ h = <<"initialize", w>>,
         peer' <=> peer \/ h = <<"peer", TRUE>>,
         \A n : h = <<"stage", n>> => stage' = n,
         (\A n : h # <<"stage", n>>) => stage' = stage
  PROVE  Starting'
<1>1. /\ h \in Plan /\ h \in Todo
      /\ Todo' = Todo \ {h}
      /\ \A b \in Todo' : Rank(h) < Rank(b)
      /\ Ascending(script')
      /\ Plan' = Plan /\ \A t \in Threads : Has(t)' = Has(t)
  <2>1. h \in Todo
    BY TailElements DEF Typed, Todo
  <2>2. Todo' = Elements(Tail(script))
    BY DEF Todo
  <2> QED
    BY <2>1, <2>2, TodoIsTheRest, PlanUnchanged
<1>2. Todo' \subseteq Plan'
  BY <1>1 DEF Starting
<1>3. \A a \in Plan' \ Todo', b \in Todo' : Rank(a) < Rank(b)
  BY <1>1 DEF Starting
<1>4. \A t \in Threads \ {"AudioPing"} :
        t \in Created' <=> Has(t)' /\ <<"create", t>> \notin Todo'
  BY <1>1, PlanRanks DEF Starting
<1>5. "AudioPing" \in Created' => <<"attempt", "AudioPing">> \notin Todo'
  BY <1>1 DEF Starting
<1>6. \A w \in Queues : w \in live' <=> <<"initialize", w>> \notin Todo'
  BY <1>1 DEF Starting
<1>7. peer' <=> <<"peer", TRUE>> \notin Todo'
  BY <1>1 DEF Starting
<1>8. \A n \in 1 .. 11 : <<"stage", n>> \in Todo' <=> n > stage'
  <2>0. stage \in 0 .. 11 /\ \A n \in 1 .. 11 : <<"stage", n>> \in Todo <=> n > stage
    BY DEF Starting, Typed, TypeOK
  <2>1. CASE \E k : h = <<"stage", k>>
    <3>1. PICK k : h = <<"stage", k>>
      BY <2>1
    <3>2. k \in 1 .. 11 /\ stage' = k
      <4>1. <<"stage", k>> \in Plan
        BY <1>1, <3>1
      <4>2. k \in 1 .. 11
        BY <4>1, PlanCases
      <4>3. stage' = k
        BY <3>1
      <4> QED
        BY <4>2, <4>3
    <3>3. k > stage
      BY <1>1, <2>0, <3>1, <3>2
    <3>4. \A n \in 1 .. 11 : <<"stage", n>> \in Todo' => n > k
      <4>1. SUFFICES ASSUME NEW n \in 1 .. 11, <<"stage", n>> \in Todo' PROVE n > k
        OBVIOUS
      <4>2. Rank(h) < Rank(<<"stage", n>>)
        BY <1>1, <4>1
      <4>3. Rank(h) = 20 * k + 19 /\ Rank(<<"stage", n>>) = 20 * n + 19
        BY <3>1, Ranks
      <4> QED
        BY <3>2, <4>2, <4>3
    <3>5. ASSUME NEW n \in 1 .. 11, n > k PROVE <<"stage", n>> \in Todo'
      <4>1. n > stage
        BY <2>0, <3>2, <3>3, <3>5
      <4>2. <<"stage", n>> \in Todo
        BY <2>0, <4>1
      <4>3. <<"stage", n>> # h
        BY <3>1, <3>2, <3>5
      <4> QED
        BY <1>1, <4>2, <4>3
    <3> QED
      BY <3>2, <3>4, <3>5
  <2>2. CASE \A k : h # <<"stage", k>>
    BY <1>1, <2>0, <2>2
  <2> QED
    BY <2>1, <2>2
<1> QED
  BY <1>1, <1>2, <1>3, <1>4, <1>5, <1>6, <1>7, <1>8 DEF Starting

(* What a thread needs is made before it is created. *)
LEMMA NeedsRankLower ==
  /\ \A t \in Threads \ {"AudioPing"} : \A w \in Queues :
       w \in Needs(t) => QueueRank(w) < StepRank(t)
  /\ \A t \in Threads \ {"AudioPing"} : "peer" \in Needs(t) => 161 < StepRank(t)
  /\ Needs("AudioPing") = {}
  /\ \A t \in Threads : \A r \in Needs(t) : r = "peer" \/ r \in Queues
  /\ "peer" \notin Queues
<1>1. \A t \in Threads \ {"AudioPing"} : \A w \in Queues :
        w \in Needs(t) => QueueRank(w) < StepRank(t)
  BY StepRanks, QueueRanks DEF Threads, Queues, Needs
<1>2. \A t \in Threads \ {"AudioPing"} : "peer" \in Needs(t) => 161 < StepRank(t)
  BY StepRanks DEF Threads, Needs
<1>3. Needs("AudioPing") = {}
  BY DEF Needs
<1>4. \A t \in Threads : \A r \in Needs(t) : r = "peer" \/ r \in Queues
  BY DEF Threads, Needs, Queues
<1>5. "peer" \notin Queues
  BY DEF Queues
<1> QED
  BY <1>1, <1>2, <1>3, <1>4, <1>5

(* Hence while it starts, no thread is there without what it needs. *)
LEMMA StartingHeld ==
  ASSUME Starting
  PROVE  Held
<1> SUFFICES ASSUME NEW t \in Created, NEW r \in Needs(t) PROVE Available(r)
  BY DEF Held
<1>1. t \in Threads /\ t # "AudioPing"
  BY NeedsRankLower DEF Created
<1>2. <<"create", t>> \in Plan \ Todo
  BY <1>1, PlanRanks DEF Starting
<1>3. \A b \in Todo : StepRank(t) < Rank(b)
  BY <1>2, Ranks DEF Starting
<1>4. StepRank(t) \in Nat
  BY <1>2, Ranks, PlanRanks
<1>5. CASE r = "peer"
  <2>1. <<"peer", TRUE>> \notin Todo
    <3>1. Rank(<<"peer", TRUE>>) = 161 /\ 161 < StepRank(t)
      BY <1>1, <1>5, Ranks, NeedsRankLower
    <3> QED
      BY <1>3, <1>4, <3>1
  <2> QED
    BY <1>5, <2>1 DEF Starting, Available
<1>6. CASE r \in Queues
  <2>1. <<"initialize", r>> \notin Todo
    <3>1. Rank(<<"initialize", r>>) = QueueRank(r) /\ QueueRank(r) < StepRank(t)
      BY <1>1, <1>6, Ranks, NeedsRankLower
    <3>2. QueueRank(r) \in Nat
      BY <1>6, QueueRanks DEF Queues
    <3> QED
      BY <1>3, <1>4, <3>1, <3>2
  <2> QED
    BY <1>6, <2>1, NeedsRankLower DEF Starting, Available
<1> QED
  BY <1>1, <1>5, <1>6, NeedsRankLower

-------------------------------------------------------------------------------
(* A step of a stop, and of the undoing of a start that failed. *)

(* The head of a script that stops is compatible with all that follows. *)
LEMMA TheRestIsCompatible ==
  ASSUME Typed, Stopping, script # <<>>
  PROVE  /\ Todo = {Head(script)} \cup Elements(Tail(script))
         /\ \A b \in Elements(Tail(script)) : Compatible(Head(script), b)
         /\ InOrder(Tail(script))
<1> DEFINE h == Head(script)
           u == Tail(script)
<1>1. Todo = {h} \cup Elements(u)
  BY TailElements DEF Typed, Todo
<1>2. /\ \A i \in DOMAIN u : i + 1 \in DOMAIN script /\ u[i] = script[i + 1]
      /\ \A a \in Elements(u) : \E j \in DOMAIN script : 1 < j /\ script[j] = a
      /\ \A i, j \in DOMAIN u : i < j => i + 1 < j + 1
      /\ 1 \in DOMAIN script /\ h = script[1]
  BY TailIndices DEF Typed
<1> HIDE DEF h, u
<1>3. \A b \in Elements(u) : Compatible(h, b)
  BY <1>2 DEF Stopping, InOrder
<1>4. InOrder(u)
  BY <1>2 DEF Stopping, InOrder
<1> QED
  BY <1>1, <1>3, <1>4 DEF h, u

(* The next instruction of a stop does what it says. *)
LEMMA StoppingStep ==
  ASSUME Typed, Stopping, Held, script # <<>>, script' = Tail(script),
         NEW h, h = Head(script),
         \A t \in Threads : t \in Created' <=> t \in Created /\ h # <<"join", t>>,
         \A w \in Queues : w \in live' <=> w \in live /\ h # <<"destroy", w>>,
         peer' <=> peer /\ h # <<"peer", FALSE>>,
         \A n : h = <<"stage", n>> => stage' = n,
         (\A n : h # <<"stage", n>>) => stage' = stage,
         live' \subseteq Queues
  PROVE  Stopping' /\ Held'
<1>1. /\ h \in Todo /\ Todo = {h} \cup Todo' /\ InOrder(script')
      /\ \A b \in Todo' : Compatible(h, b)
  <2>1. Todo' = Elements(Tail(script))
    BY DEF Todo
  <2> QED
    BY <2>1, TheRestIsCompatible
<1>2. \A a \in Todo' : a[1] \notin Building /\ a # <<"peer", TRUE>>
  BY <1>1 DEF Stopping
<1>3. \A t \in Threads : t \in Created' <=> <<"join", t>> \in Todo'
  <2>1. ASSUME NEW t \in Threads, <<"join", t>> \in Todo' PROVE h # <<"join", t>>
    BY <1>1, <2>1 DEF Compatible
  <2> QED
    BY <1>1, <2>1 DEF Stopping
<1>4. \A w \in live' : <<"destroy", w>> \in Todo'
  BY <1>1 DEF Stopping
<1>5. peer' => <<"peer", FALSE>> \in Todo'
  BY <1>1 DEF Stopping
<1>6. \A n \in 0 .. 11 : <<"stage", n>> \in Todo' => <<"stage", 0>> \in Todo'
  <2>1. ASSUME NEW n \in 0 .. 11, <<"stage", n>> \in Todo' PROVE <<"stage", 0>> \in Todo'
    <3>1. <<"stage", 0>> \in Todo
      BY <1>1, <2>1 DEF Stopping
    <3>2. h # <<"stage", 0>>
      BY <1>1, <2>1 DEF Compatible
    <3> QED
      BY <1>1, <3>1, <3>2
  <2> QED
    BY <2>1
<1>7. stage' # 0 => <<"stage", 0>> \in Todo'
  <2>1. CASE \E k : h = <<"stage", k>>
    <3>1. PICK k : h = <<"stage", k>>
      BY <2>1
    <3>2. stage' = k
      BY <3>1
    <3>3. k \in 0 .. 11
      <4>1. <<"stage", k>> \in Instructions
        BY <3>1, TailElements DEF Typed
      <4> QED
        BY <4>1, InstructionTypes
    <3>4. <<"stage", 0>> \in Todo
      BY <1>1, <3>1, <3>3 DEF Stopping
    <3>5. k # 0 => h # <<"stage", 0>>
      BY <3>1
    <3> QED
      BY <1>1, <3>2, <3>4, <3>5
  <2>2. CASE \A k : h # <<"stage", k>>
    BY <1>1, <2>2 DEF Stopping
  <2> QED
    BY <2>1, <2>2
<1>8. Stopping'
  BY <1>1, <1>2, <1>3, <1>4, <1>5, <1>6, <1>7 DEF Stopping
<1>9. ASSUME NEW t \in Created', NEW r \in Needs(t) PROVE Available(r)'
  <2>1. t \in Threads /\ t \in Created /\ <<"join", t>> \in Todo'
    BY <1>3 DEF Created
  <2>2. h # Release(r)
    BY <1>1, <2>1 DEF Compatible
  <2>3. Available(r)
    BY <2>1 DEF Held
  <2>4. r = "peer" \/ r \in Queues
    BY <2>1, NeedsRankLower
  <2>5. CASE r = "peer"
    BY <2>2, <2>3, <2>5 DEF Available, Release
  <2>6. CASE r # "peer"
    BY <2>2, <2>3, <2>4, <2>6 DEF Available, Release
  <2> QED
    BY <2>5, <2>6
<1>10. Held'
  BY <1>9 DEF Held
<1> QED
  BY <1>8, <1>10

-------------------------------------------------------------------------------
(* From the one to the other. *)

(* The places of the steps, and of what the stages before them made. *)
LEMMA StagesAndRanks ==
  /\ \A x \in Steps : /\ StageOf(x) \in 1 .. 11 /\ StepRank(x) \in Nat
                      /\ 20 * StageOf(x) <= StepRank(x) /\ StepRank(x) < 20 * StageOf(x) + 19
                      /\ StageOf(x) \notin {3, 5, 6, 7}
  /\ \A w \in Queues : /\ StageOfResource(w) \in {3, 5, 6, 7} /\ QueueRank(w) \in Nat
                       /\ 20 * StageOfResource(w) <= QueueRank(w)
<1>1. \A x \in Tries : /\ StageOf(x) \in 1 .. 11 /\ StepRank(x) \in Nat
                       /\ 20 * StageOf(x) <= StepRank(x) /\ StepRank(x) < 20 * StageOf(x) + 19
                       /\ StageOf(x) \notin {3, 5, 6, 7}
  BY StepStages, StepRanks DEF Tries
<1>2. \A x \in Threads \ {"AudioPing"} :
        /\ StageOf(x) \in 1 .. 11 /\ StepRank(x) \in Nat
        /\ 20 * StageOf(x) <= StepRank(x) /\ StepRank(x) < 20 * StageOf(x) + 19
        /\ StageOf(x) \notin {3, 5, 6, 7}
  BY ThreadStages, StepRanks DEF Threads
<1>3. \A w \in Queues : /\ StageOfResource(w) \in {3, 5, 6, 7} /\ QueueRank(w) \in Nat
                        /\ 20 * StageOfResource(w) <= QueueRank(w)
  BY ResourceStages, QueueRanks DEF Queues
<1> QED
  BY <1>1, <1>2, <1>3 DEF Steps

(* A place is before another when its stage is, or when it is in the same. *)
LEMMA EarlierStage ==
  ASSUME NEW j \in 1 .. 11, NEW a \in Nat, 20 * j <= a, a < 20 * j + 19,
         NEW k \in 1 .. 11, NEW b \in Nat, 20 * k <= b, b < 20 * k + 19,
         NEW n \in 0 .. 11, n + 1 = k
  PROVE  a < b <=> j <= n \/ (j = k /\ a < b)
OBVIOUS

(* Where the start is when step x is next. *)
LEMMA WhereItFails ==
  ASSUME Typed, Starting, script # <<>>, NEW x,
         Head(script) = <<"try", x>> \/ Head(script) = <<"create", x>>
  PROVE  /\ x \in Steps /\ stage + 1 = StageOf(x)
         /\ \A t \in Threads : t \in Created <=>
              t \in Joinable /\ (StageOf(t) <= stage \/ t \in Before(x))
         /\ \A w \in live : StageOfResource(w) <= stage
         /\ peer => 8 <= stage \/ stage = 7
<1>1. /\ Head(script) \in Plan
      /\ \A a \in Plan : a \in Todo <=> Rank(Head(script)) <= Rank(a)
  BY TodoIsTheRest
<1>2. x \in Steps
  BY <1>1, PlanCases DEF Steps
<1>3. Rank(Head(script)) = StepRank(x)
  BY Ranks
<1>4. /\ StageOf(x) \in 1 .. 11 /\ StepRank(x) \in Nat
      /\ 20 * StageOf(x) <= StepRank(x) /\ StepRank(x) < 20 * StageOf(x) + 19
      /\ StageOf(x) \notin {3, 5, 6, 7}
  BY <1>2, StagesAndRanks
<1> DEFINE k == StageOf(x)
           r == StepRank(x)
<1>5. ASSUME NEW n \in 1 .. 11 PROVE n > stage <=> r <= 20 * n + 19
  <2>1. <<"stage", n>> \in Todo <=> n > stage
    BY DEF Starting
  <2>2. <<"stage", n>> \in Plan
    BY PlanRanks
  <2>3. Rank(<<"stage", n>>) = 20 * n + 19
    BY Ranks
  <2>4. <<"stage", n>> \in Todo <=> Rank(Head(script)) <= Rank(<<"stage", n>>)
    BY <1>1, <2>2
  <2> QED
    BY <1>3, <2>1, <2>3, <2>4
<1>6. stage \in 0 .. 11
  BY DEF Typed, TypeOK
<1>7. stage + 1 = k
  <2> HIDE DEF k, r
  <2>1. k \in 1 .. 11 /\ r \in Nat /\ 20 * k <= r /\ r < 20 * k + 19
    BY <1>4 DEF k, r
  <2>2. k > stage
    BY <1>5, <1>6, <2>1
  <2>3. ASSUME k > 1 PROVE k - 1 <= stage
    <3>1. k - 1 \in 1 .. 11 /\ ~(r <= 20 * (k - 1) + 19)
      BY <2>1, <2>3
    <3>2. ~(k - 1 > stage)
      BY <1>5, <3>1
    <3> QED
      BY <1>6, <2>1, <3>2
  <2> QED
    BY <1>6, <2>1, <2>2, <2>3
<1>8. \A t \in Threads \ {"AudioPing"} : t \in Created <=> Has(t) /\ StepRank(t) < r
  <2>1. ASSUME NEW t \in Threads \ {"AudioPing"}, Has(t)
        PROVE  <<"create", t>> \in Todo <=> r <= StepRank(t)
    <3>1. <<"create", t>> \in Plan
      BY <2>1, PlanRanks
    <3>2. Rank(<<"create", t>>) = StepRank(t)
      BY Ranks
    <3>3. <<"create", t>> \in Todo <=> Rank(Head(script)) <= Rank(<<"create", t>>)
      BY <1>1, <3>1
    <3> QED
      BY <1>3, <3>2, <3>3
  <2>2. \A t \in Threads \ {"AudioPing"} : StepRank(t) \in Nat
    BY StagesAndRanks DEF Steps
  <2>3. ASSUME NEW t \in Threads \ {"AudioPing"}
        PROVE  t \in Created <=> Has(t) /\ StepRank(t) < r
    <3>1. t \in Created <=> Has(t) /\ <<"create", t>> \notin Todo
      BY DEF Starting
    <3>2. ~(r <= StepRank(t)) <=> StepRank(t) < r
      BY <1>4, <2>2
    <3> QED
      BY <2>1, <3>1, <3>2
  <2> QED
    BY <2>3
<1>9. ASSUME NEW t \in Threads
      PROVE  t \in Created <=> t \in Joinable /\ (StageOf(t) <= stage \/ t \in Before(x))
  <2>1. CASE t = "AudioPing"
    <3>1. "AudioPing" \in Created <=> "AudioPing" \in Joinable
      BY DEF Created, Joinable, Threads
    <3>2. StageOf("AudioPing") = 3
      BY ThreadStages
    <3>3. ASSUME "AudioPing" \in Created PROVE 3 <= stage
      <4>1. <<"attempt", "AudioPing">> \notin Todo
        BY <3>3 DEF Starting
      <4>2. Rank(<<"attempt", "AudioPing">>) = 80
        BY Ranks, StepRanks
      <4>3. ~(r <= 80)
        BY <1>1, <1>3, <4>1, <4>2, PlanRanks
      <4> QED
        BY <1>4, <1>6, <1>7, <4>3
    <3>4. ASSUME "AudioPing" \in Before(x) PROVE FALSE
      BY <1>4, <3>2, <3>4 DEF Before
    <3> QED
      BY <2>1, <3>1, <3>2, <3>3, <3>4
  <2>2. CASE t # "AudioPing"
    <3>1. t \in Joinable <=> Has(t)
      BY <2>2 DEF Joinable
    <3>2. /\ StageOf(t) \in 1 .. 11 /\ StepRank(t) \in Nat
          /\ 20 * StageOf(t) <= StepRank(t) /\ StepRank(t) < 20 * StageOf(t) + 19
      BY <2>2, StagesAndRanks DEF Steps
    <3>3. StepRank(t) < r <=> StageOf(t) <= stage \/ (StageOf(t) = k /\ StepRank(t) < r)
      BY <1>4, <1>6, <1>7, <3>2, EarlierStage
    <3> QED
      BY <1>8, <2>2, <3>1, <3>3 DEF Before
  <2> QED
    BY <2>1, <2>2
<1>10. ASSUME NEW w \in live PROVE StageOfResource(w) <= stage
  <2>1. w \in Queues
    BY DEF Typed, TypeOK
  <2>2. <<"initialize", w>> \notin Todo
    BY <2>1 DEF Starting
  <2>3. Rank(<<"initialize", w>>) = QueueRank(w) /\ <<"initialize", w>> \in Plan
    BY <2>1, Ranks, PlanRanks
  <2>4. ~(r <= QueueRank(w))
    BY <1>1, <1>3, <2>2, <2>3
  <2>5. /\ StageOfResource(w) \in {3, 5, 6, 7} /\ QueueRank(w) \in Nat
        /\ 20 * StageOfResource(w) <= QueueRank(w)
    BY <2>1, StagesAndRanks
  <2> QED
    BY <1>4, <1>6, <1>7, <2>4, <2>5
<1>11. peer => 8 <= stage \/ stage = 7
  <2>1. ASSUME peer PROVE ~(r <= 161)
    <3>1. Rank(<<"peer", TRUE>>) = 161 /\ <<"peer", TRUE>> \in Plan
      BY Ranks, PlanRanks
    <3> QED
      BY <1>1, <1>3, <2>1, <3>1 DEF Starting
  <2> QED
    BY <1>4, <1>6, <1>7, <2>1
<1> QED
  BY <1>2, <1>7, <1>9, <1>10, <1>11

-------------------------------------------------------------------------------
(* The steps preserve the invariant. *)

(* What instruction h does to the threads, the queues, the peer and the stage. *)
Does(h) ==
  /\ \A t \in Threads :
       /\ h = <<"create", t>> => t \in Created'
       /\ h = <<"join", t>> => t \notin Created'
       /\ h \notin {<<"create", t>>, <<"attempt", t>>, <<"join", t>>} =>
            (t \in Created' <=> t \in Created)
  /\ \A w \in Queues :
       /\ h = <<"initialize", w>> => w \in live'
       /\ h = <<"destroy", w>> => w \notin live'
       /\ h \notin {<<"initialize", w>>, <<"destroy", w>>} => (w \in live' <=> w \in live)
  /\ h = <<"peer", TRUE>> => peer'
  /\ h = <<"peer", FALSE>> => ~peer'
  /\ h \notin {<<"peer", TRUE>>, <<"peer", FALSE>>} => (peer' <=> peer)
  /\ \A n : h = <<"stage", n>> => stage' = n
  /\ (\A n : h # <<"stage", n>>) => stage' = stage

(* An instruction fails, or it does what it says and the next one follows. *)
LEMMA InstructionDoes ==
  ASSUME Typed, script # <<>>, NEW x, Instruction(x)
  PROVE  \/ /\ Head(script) = <<"try", x>> \/ Head(script) = <<"create", x>>
            /\ Fails(x)
         \/ /\ script' = Tail(script) /\ UNCHANGED <<setup, phase>>
            /\ Does(Head(script))
<1>0. thread \in [Threads -> {"none", "run", "clear", "check", "notify", "exited"}]
  BY DEF Typed, TypeOK
<1>1. ASSUME NEW op, Now(op, x)
      PROVE  /\ Head(script) = <<op, x>> /\ NextIs(op, x)
             /\ script' = Tail(script) /\ UNCHANGED <<setup, phase>>
  BY <1>1 DEF Now, NextIs, sessionVars
<1>2. ASSUME NEW op, Now(op, x),
             op \in {"try", "interrupt", "shutdown", "drain", "alreadyTerminated",
                    "ConnectionInterrupted", "stopping", "initialized", "event", "attempt"},
             live' = live, peer' = peer, stage' = stage, thread' = thread
      PROVE  /\ script' = Tail(script) /\ UNCHANGED <<setup, phase>>
             /\ Does(Head(script))
  <2>1. /\ Head(script) = <<op, x>> /\ script' = Tail(script) /\ UNCHANGED <<setup, phase>>
    BY <1>1, <1>2
  <2>2. Created' = Created
    BY <1>2 DEF Created
  <2>3. Does(<<op, x>>)
    BY <1>2, <2>2 DEF Does
  <2> QED
    BY <2>1, <2>3
<1>3. ASSUME NEW op, NextIs(op, x), op \in {"create", "attempt", "join"},
             UNCHANGED <<live, peer, stage>>,
             thread' = [thread EXCEPT ![x] = IF op = "join" THEN "none" ELSE "run"]
      PROVE  Does(<<op, x>>)
  <2>1. x \in Threads
    BY <1>3, NextTyped
  <2>2. \A t \in Threads : t # x => thread'[t] = thread[t]
    BY <1>0, <1>3
  <2>3. thread'[x] = IF op = "join" THEN "none" ELSE "run"
    BY <1>0, <1>3, <2>1
  <2>4. \A t \in Threads : t # x => (t \in Created' <=> t \in Created)
    BY <2>2 DEF Created
  <2>5. IF op = "join" THEN x \notin Created' ELSE x \in Created'
    BY <2>1, <2>3 DEF Created
  <2> HIDE DEF Created
  <2> QED
    BY <1>3, <2>1, <2>4, <2>5 DEF Does
<1>4. CASE Try(x)
  <2>1. CASE NextIs("try", x) /\ Fails(x)
    BY <2>1 DEF NextIs
  <2>2. CASE Now("try", x) /\ UNCHANGED <<streamVars, flagVars, signalVars, threadVars>>
    <3>1. UNCHANGED <<live, peer, stage, thread>>
      BY <2>2 DEF streamVars, threadVars
    <3> QED
      BY <1>2, <2>2, <3>1
  <2> QED
    BY <1>4, <2>1, <2>2 DEF Try
<1>5. CASE PltCreateThread(x)
  <2>1. CASE NextIs("create", x) /\ Fails(x)
    BY <2>1 DEF NextIs
  <2>2. CASE /\ Now("create", x) \/ Now("attempt", x)
             /\ thread' = [thread EXCEPT ![x] = "run"]
             /\ UNCHANGED <<streamVars, flagVars, signalVars>>
    BY <1>1, <1>3, <2>2 DEF streamVars
  <2>3. CASE Now("attempt", x) /\ UNCHANGED <<streamVars, flagVars, signalVars, threadVars>>
    BY <1>1, <1>2, <2>3 DEF streamVars, threadVars
  <2> QED
    BY <1>5, <2>1, <2>2, <2>3 DEF PltCreateThread
<1>6. CASE PltInterruptThread(x)
  <2>1. Now("interrupt", x) /\ UNCHANGED <<live, peer, stage, thread>>
    BY <1>6 DEF PltInterruptThread, streamVars
  <2> QED
    BY <1>2, <2>1
<1>7. CASE PltJoinThread(x)
  BY <1>1, <1>3, <1>7 DEF PltJoinThread, streamVars
<1>8. CASE SetQueue(x)
  <2>0. UNCHANGED <<stage, peer, thread>> /\ Created' = Created
    BY <1>8 DEF SetQueue, threadVars, Created
  <2>1. CASE Now("initialize", x) /\ live' = live \cup {x}
    <3>1. Does(<<"initialize", x>>)
      BY <2>0, <2>1 DEF Does
    <3> QED
      BY <1>1, <2>1, <3>1
  <2>2. CASE (Now("shutdown", x) \/ Now("drain", x)) /\ UNCHANGED live
    BY <1>2, <2>0, <2>2
  <2>3. CASE Now("destroy", x) /\ live' = live \ {x}
    <3>1. Does(<<"destroy", x>>)
      BY <2>0, <2>3 DEF Does
    <3> QED
      BY <1>1, <2>3, <3>1
  <2> QED
    BY <1>8, <2>1, <2>2, <2>3 DEF SetQueue
<1>9. CASE SetFlag(x)
  <2>0. UNCHANGED <<stage, live, thread>> /\ Created' = Created
    BY <1>9 DEF SetFlag, threadVars, Created
  <2>1. CASE /\ \/ Now("alreadyTerminated", x) \/ Now("ConnectionInterrupted", x)
                \/ Now("stopping", x) \/ Now("initialized", x)
             /\ UNCHANGED peer
    BY <1>2, <2>0, <2>1
  <2>2. CASE Now("peer", x) /\ peer' = x
    <3>1. x \in BOOLEAN
      <4>1. NextIs("peer", x)
        BY <2>2 DEF Now
      <4>2. <<"peer", x>> \in Instructions
        BY <4>1, NextTyped
      <4> QED
        BY <4>2 DEF Instructions
    <3>2. CASE x = TRUE
      <4>1. Does(<<"peer", TRUE>>)
        BY <2>0, <2>2, <3>2 DEF Does
      <4> QED
        BY <1>1, <2>2, <3>2, <4>1
    <3>3. CASE x = FALSE
      <4>1. Does(<<"peer", FALSE>>)
        BY <2>0, <2>2, <3>3 DEF Does
      <4> QED
        BY <1>1, <2>2, <3>3, <4>1
    <3> QED
      BY <3>1, <3>2, <3>3
  <2> QED
    BY <1>9, <2>1, <2>2 DEF SetFlag
<1>10. CASE SetEvent(x)
  BY <1>1, <1>2, <1>10 DEF SetEvent, streamVars, threadVars
<1>11. CASE SetStage(x)
  <2>1. Now("stage", x) /\ stage' = x /\ UNCHANGED <<peer, live, thread>>
    BY <1>11 DEF SetStage, threadVars
  <2>2. Created' = Created
    BY <2>1 DEF Created
  <2>3. Does(<<"stage", x>>)
    BY <2>1, <2>2 DEF Does
  <2> QED
    BY <1>1, <2>1, <2>3
<1> QED
  BY <1>4, <1>5, <1>6, <1>7, <1>8, <1>9, <1>10, <1>11 DEF Instruction

(* The start goes on. *)
LEMMA StartGoesOn ==
  ASSUME Typed, Starting, script # <<>>, script' = Tail(script), UNCHANGED setup,
         Does(Head(script))
  PROVE  Starting' /\ Held'
<1> DEFINE h == Head(script)
<1>1. h \in Plan
  BY TodoIsTheRest
<1> HIDE DEF h
<1>2. Does(h)
  BY DEF h
<1>3. \A t \in Threads : h # <<"join", t>> /\ (h = <<"attempt", t>> => t = "AudioPing")
                         /\ (h = <<"create", t>> => t # "AudioPing")
  BY <1>1, PlanCases
<1>4. \A w \in Queues : h # <<"destroy", w>>
  BY <1>1, PlanCases
<1>5. h # <<"peer", FALSE>>
  BY <1>1, PlanCases
<1>6. \A t \in Threads \ {"AudioPing"} : t \in Created' <=> t \in Created \/ h = <<"create", t>>
  BY <1>2, <1>3 DEF Does
<1>7. "AudioPing" \in Created' => "AudioPing" \in Created \/ h = <<"attempt", "AudioPing">>
  <2>1. "AudioPing" \in Threads
    BY DEF Threads
  <2> QED
    BY <1>2, <1>3, <2>1 DEF Does
<1>8. \A w \in Queues : w \in live' <=> w \in live \/ h = <<"initialize", w>>
  BY <1>2, <1>4 DEF Does
<1>9. peer' <=> peer \/ h = <<"peer", TRUE>>
  BY <1>2, <1>5 DEF Does
<1>10. /\ \A n : h = <<"stage", n>> => stage' = n
       /\ (\A n : h # <<"stage", n>>) => stage' = stage
  BY <1>2 DEF Does
<1>11. Starting'
  BY <1>6, <1>7, <1>8, <1>9, <1>10, StartingStep DEF h
<1> QED
  BY <1>11, StartingHeld, PTL

(* The stop goes on. *)
LEMMA StopGoesOn ==
  ASSUME Typed, Stopping, Held, script # <<>>, script' = Tail(script), Does(Head(script)),
         live' \subseteq Queues
  PROVE  Stopping' /\ Held'
<1> DEFINE h == Head(script)
<1>1. h \in Todo
  BY TailElements DEF Typed, Todo
<1> HIDE DEF h
<1>2. Does(h)
  BY DEF h
<1>3. h[1] \notin Building /\ h # <<"peer", TRUE>>
  BY <1>1 DEF Stopping
<1>4. /\ \A t \in Threads : h # <<"create", t>> /\ h # <<"attempt", t>>
      /\ \A w \in Queues : h # <<"initialize", w>>
  BY <1>3 DEF Building
<1>5. \A t \in Threads : t \in Created' <=> t \in Created /\ h # <<"join", t>>
  BY <1>2, <1>4 DEF Does
<1>6. \A w \in Queues : w \in live' <=> w \in live /\ h # <<"destroy", w>>
  BY <1>2, <1>4 DEF Does
<1>7. peer' <=> peer /\ h # <<"peer", FALSE>>
  BY <1>2, <1>3 DEF Does
<1>8. /\ \A n : h = <<"stage", n>> => stage' = n
      /\ (\A n : h # <<"stage", n>>) => stage' = stage
  BY <1>2 DEF Does
<1> QED
  BY <1>5, <1>6, <1>7, <1>8, StoppingStep DEF h

(* A step of the start fails. *)
LEMMA StartFails ==
  ASSUME Typed, Starting, Held, script # <<>>, NEW x, Fails(x),
         Head(script) = <<"try", x>> \/ Head(script) = <<"create", x>>
  PROVE  Stopping' /\ Held'
<1> DEFINE s == Undo(x) \o StopScript(stage)
<1>1. /\ x \in Steps /\ stage + 1 = StageOf(x)
      /\ \A t \in Threads : t \in Created <=>
           t \in Joinable /\ (StageOf(t) <= stage \/ t \in Before(x))
      /\ \A w \in live : StageOfResource(w) <= stage
      /\ peer => 8 <= stage \/ stage = 7
  BY WhereItFails
<1>2. stage \in 0 .. 11 /\ live \subseteq Queues
  BY DEF Typed, TypeOK
<1>3. /\ s \in Seq(Instructions) /\ InOrder(s)
      /\ \A a \in Elements(s) : a[1] \notin Building /\ a # <<"peer", TRUE>>
      /\ \A t \in Threads : <<"join", t>> \in Elements(s)
           <=> t \in Joinable /\ (StageOf(t) <= stage \/ t \in Before(x))
      /\ \A r \in Resources : StageOfResource(r) <= stage => Release(r) \in Elements(s)
      /\ stage = 7 => Release("peer") \in Elements(s)
      /\ stage # 0 => <<"stage", 0>> \in Elements(s)
      /\ \A m \in 0 .. 11 : <<"stage", m>> \in Elements(s) => stage # 0
  BY <1>1, <1>2, FailureUndoes
<1>4. /\ script' = s /\ UNCHANGED <<stage, live, peer, thread>> /\ Created' = Created
  BY DEF Fails, streamVars, threadVars, Created
<1> HIDE DEF s
<1>5. Todo' = Elements(s)
  BY <1>4 DEF Todo
<1>6. \A t \in Threads : t \in Created' <=> <<"join", t>> \in Todo'
  BY <1>1, <1>3, <1>4, <1>5
<1>7. \A w \in live' : <<"destroy", w>> \in Todo'
  <2>1. ASSUME NEW w \in live PROVE Release(w) \in Elements(s)
    BY <1>1, <1>2, <1>3 DEF Resources
  <2>2. \A w \in live : Release(w) = <<"destroy", w>>
    BY <1>2, NeedsRankLower DEF Release
  <2> QED
    BY <1>4, <1>5, <2>1, <2>2
<1>8. peer' => <<"peer", FALSE>> \in Todo'
  <2>1. Release("peer") = <<"peer", FALSE>> /\ "peer" \in Resources
        /\ StageOfResource("peer") = 8
    BY ResourceStages DEF Release, Resources
  <2> QED
    BY <1>1, <1>2, <1>3, <1>4, <1>5, <2>1
<1>9. /\ stage' # 0 => <<"stage", 0>> \in Todo'
      /\ \A n \in 0 .. 11 : <<"stage", n>> \in Todo' => <<"stage", 0>> \in Todo'
  BY <1>3, <1>4, <1>5
<1>10. Stopping'
  BY <1>3, <1>4, <1>5, <1>6, <1>7, <1>8, <1>9 DEF Stopping
<1>11. Held'
  BY <1>4 DEF Held, Available
<1> QED
  BY <1>10, <1>11

(* The application stops a connection that was established. *)
LEMMA StopBegins ==
  ASSUME Typed, Starting, Held, script = <<>>, LiStopConnection
  PROVE  Stopping' /\ Held'
<1> DEFINE s == StopScript(stage)
<1>1. Todo = {}
  BY DEF Todo, Elements
<1>2. stage \in 0 .. 11 /\ live \subseteq Queues
  BY DEF Typed, TypeOK
<1>3. stage = 11
  <2>1. \A n \in 1 .. 11 : ~(n > stage)
    BY <1>1 DEF Starting
  <2>2. 11 \in 1 .. 11
    OBVIOUS
  <2>3. ~(11 > stage)
    BY <2>1, <2>2
  <2> QED
    BY <1>2, <2>3
<1>4. Clears(s, {t \in Joinable : 1 <= StageOf(t) /\ StageOf(t) <= 11},
                {r \in Resources : 1 <= StageOfResource(r) /\ StageOfResource(r) <= 11},
                {m \in 0 .. 11 : 1 <= m + 1 /\ m + 1 <= 11})
  BY <1>2, <1>3, StopUndoes DEF UndoesDownTo
<1>5. \A t \in Threads : t \in Created <=> t \in Joinable
  BY <1>1 DEF Starting, Joinable, Created
<1>6. \A t \in Threads : <<"join", t>> \in Elements(s) <=> t \in Joinable
  <2>1. \A t \in Threads : <<"join", t>> \in Elements(s)
          <=> t \in {u \in Joinable : 1 <= StageOf(u) /\ StageOf(u) <= 11}
    BY <1>4 DEF Clears
  <2>2. \A t \in Threads : 1 <= StageOf(t) /\ StageOf(t) <= 11
    BY NeedsComeFirst
  <2> QED
    BY <2>1, <2>2
<1>7. \A r \in Resources : Release(r) \in Elements(s)
  BY <1>4, NeedsComeFirst DEF Clears
<1>8. <<"stage", 0>> \in Elements(s)
  BY <1>4 DEF Clears
<1>9. InOrder(s) /\ \A a \in Elements(s) : a[1] \notin Building /\ a # <<"peer", TRUE>>
  BY <1>4 DEF Clears
<1>10. /\ script' = s /\ UNCHANGED <<stage, live, peer, thread>> /\ Created' = Created
  BY DEF LiStopConnection, streamVars, threadVars, Created
<1> HIDE DEF s
<1>11. Todo' = Elements(s)
  BY <1>10 DEF Todo
<1>12. \A w \in Queues : <<"destroy", w>> \in Todo'
  <2>1. \A w \in Queues : w \in Resources /\ Release(w) = <<"destroy", w>>
    BY NeedsRankLower DEF Release, Resources
  <2> QED
    BY <1>7, <1>11, <2>1
<1>13. <<"peer", FALSE>> \in Todo'
  <2>1. "peer" \in Resources /\ Release("peer") = <<"peer", FALSE>>
    BY DEF Release, Resources
  <2> QED
    BY <1>7, <1>11, <2>1
<1>14. \A t \in Threads : t \in Created' <=> <<"join", t>> \in Todo'
  BY <1>5, <1>6, <1>10, <1>11
<1>15. Stopping'
  BY <1>2, <1>8, <1>9, <1>10, <1>11, <1>12, <1>13, <1>14 DEF Stopping
<1>16. Held'
  BY <1>10 DEF Held, Available
<1> QED
  BY <1>15, <1>16

(* The application starts the connection. *)
LEMMA StartBegins ==
  ASSUME Typed, Orderly, LiStartConnection
  PROVE  Starting' /\ Held'
<1>1. phase = "idle" /\ Created = {} /\ live = {} /\ ~peer /\ stage = 0
  BY DEF LiStartConnection, Orderly
<1>2. /\ script' = StartScript /\ UNCHANGED <<setup, stage, live, peer, thread>>
      /\ Created' = Created
  BY DEF LiStartConnection, streamVars, threadVars, Created
<1>3. Ascending(StartScript) /\ Elements(StartScript) = Plan
  BY StartPiece DEF Piece
<1>4. Todo' = Plan /\ Plan' = Plan /\ \A t \in Threads : Has(t)' = Has(t)
  BY <1>2, <1>3, PlanUnchanged DEF Todo
<1>5. \A t \in Threads \ {"AudioPing"} :
        t \in Created' <=> Has(t)' /\ <<"create", t>> \notin Todo'
  BY <1>1, <1>2, <1>4, PlanRanks
<1>6. /\ "AudioPing" \in Created' => <<"attempt", "AudioPing">> \notin Todo'
      /\ \A w \in Queues : w \in live' <=> <<"initialize", w>> \notin Todo'
      /\ peer' <=> <<"peer", TRUE>> \notin Todo'
      /\ \A n \in 1 .. 11 : <<"stage", n>> \in Todo' <=> n > stage'
  BY <1>1, <1>2, <1>4, PlanRanks
<1>7. Starting'
  BY <1>2, <1>3, <1>4, <1>5, <1>6 DEF Starting
<1>8. Held'
  BY <1>1, <1>2 DEF Held
<1> QED
  BY <1>7, <1>8

(* Nothing that the starts and the stops are about changes. *)
LEMMA ApartOrderly ==
  ASSUME Orderly, Apart
  PROVE  Orderly'
<1>1. /\ UNCHANGED <<setup, script, phase, stage, peer, live>> /\ Created' = Created
      /\ Todo' = Todo /\ Plan' = Plan /\ \A t \in Threads : Has(t)' = Has(t)
  BY PlanUnchanged DEF Apart, Todo
<1>2. Starting => Starting'
  BY <1>1 DEF Starting
<1>3. Stopping => Stopping'
  BY <1>1 DEF Stopping
<1>4. Held'
  BY <1>1 DEF Orderly, Held, Available
<1> QED
  BY <1>1, <1>2, <1>3, <1>4 DEF Orderly

(* What the application's thread does next keeps the order. *)
LEMMA InstructionOrderly ==
  ASSUME Typed, Typed', Orderly, script # <<>>, Instruction(Head(script)[2])
  PROVE  Orderly'
<1> DEFINE x == Head(script)[2]
<1>1. phase \in {"starting", "stopping"} /\ Held
  BY DEF Typed, TypeOK, Orderly
<1>2. CASE (Head(script) = <<"try", x>> \/ Head(script) = <<"create", x>>) /\ Fails(x)
  <2>1. phase # "stopping"
    <3>1. ASSUME Stopping PROVE FALSE
      <4>1. Head(script) \in Todo
        BY TailElements DEF Typed, Todo
      <4>2. Head(script)[1] \in Building
        BY <1>2 DEF Building
      <4> QED
        BY <3>1, <4>1, <4>2 DEF Stopping
    <3> QED
      BY <3>1 DEF Orderly
  <2>2. Starting
    BY <1>1, <2>1 DEF Orderly
  <2>3. Stopping' /\ Held'
    BY <1>1, <1>2, <2>2, StartFails
  <2>4. phase' = "stopping"
    BY <1>2 DEF Fails
  <2> QED
    BY <2>3, <2>4 DEF Orderly
<1>3. CASE /\ script' = Tail(script) /\ UNCHANGED <<setup, phase>>
           /\ Does(Head(script))
  <2>1. CASE phase = "starting"
    <3>1. Starting' /\ Held'
      BY <1>3, <2>1, StartGoesOn DEF Orderly
    <3> QED
      BY <1>3, <2>1, <3>1 DEF Orderly
  <2>2. CASE phase = "stopping"
    <3>1. live' \subseteq Queues
      BY DEF Typed, TypeOK
    <3>2. Stopping' /\ Held'
      BY <1>1, <1>3, <2>2, <3>1, StopGoesOn DEF Orderly
    <3> QED
      BY <1>3, <2>2, <3>2 DEF Orderly
  <2> QED
    BY <1>1, <2>1, <2>2
<1> QED
  BY <1>2, <1>3, InstructionDoes

(* A start or a stop returns. *)
LEMMA ReturnsOrderly ==
  ASSUME Typed, Orderly, Returns
  PROVE  Orderly'
<1>1. /\ script = <<>> /\ UNCHANGED <<setup, script, stage, live, peer, thread>>
      /\ Created' = Created /\ Todo = {}
  BY DEF Returns, streamVars, threadVars, Created, Todo, Elements
<1>2. CASE phase = "starting" /\ phase' = "started"
  <2>1. Starting'
    <3>1. Todo' = Todo /\ Plan' = Plan /\ \A t \in Threads : Has(t)' = Has(t)
      BY <1>1, PlanUnchanged DEF Todo
    <3> QED
      BY <1>1, <1>2, <3>1 DEF Orderly, Starting
  <2>2. Held'
    BY <1>1 DEF Orderly, Held, Available
  <2> QED
    BY <1>1, <1>2, <2>1, <2>2 DEF Orderly
<1>3. CASE phase = "stopping" /\ phase' = "idle"
  <2>1. /\ \A t \in Threads : t \notin Created
        /\ live = {} /\ ~peer /\ stage = 0
    BY <1>1, <1>3 DEF Orderly, Stopping
  <2>2. Created = {}
    BY <2>1 DEF Created
  <2> QED
    BY <1>1, <1>3, <2>1, <2>2 DEF Orderly, Held
<1> QED
  BY <1>2, <1>3 DEF Returns

(* The invariant is inductive. *)
LEMMA NextOrderly == ConnectionInv /\ [Next]_vars => ConnectionInv'
<1> SUFFICES ASSUME Typed, Orderly, [Next]_vars PROVE Typed' /\ Orderly'
  BY DEF ConnectionInv
<1>0. Typed'
  BY NextTypes
<1>1. CASE LiStartConnection
  <2>1. Starting' /\ Held'
    BY <1>1, StartBegins
  <2>2. phase' = "starting"
    BY <1>1 DEF LiStartConnection
  <2> QED
    BY <1>0, <2>1, <2>2 DEF Orderly
<1>2. CASE LiStopConnection
  <2>1. Stopping' /\ Held'
    BY <1>2, StopBegins DEF LiStopConnection, Orderly
  <2>2. phase' = "stopping"
    BY <1>2 DEF LiStopConnection
  <2> QED
    BY <1>0, <2>1, <2>2 DEF Orderly
<1>3. CASE Returns
  BY <1>0, <1>3, ReturnsOrderly
<1>4. CASE UNCHANGED vars
  <2>1. Apart
    BY <1>4 DEF vars, Apart, Created, sessionVars, streamVars, threadVars
  <2> QED
    BY <1>0, <2>1, ApartOrderly
<1>5. CASE LiInterruptConnection \/ SendInput
  BY <1>5, ApplicationApart, ApartOrderly
<1>6. CASE Environment \/ \E t \in Threads : Thread(t)
  BY <1>6, OthersApart, ApartOrderly
<1>7. CASE script # <<>> /\ Instruction(Head(script)[2])
  BY <1>0, <1>7, InstructionOrderly
<1> QED
  BY <1>1, <1>2, <1>3, <1>4, <1>5, <1>6, <1>7 DEF Next, Application, MainThread

(* The first state is idle. *)
LEMMA InitOrderly == Init => ConnectionInv
<1> SUFFICES ASSUME Init PROVE Typed /\ Orderly
  BY DEF ConnectionInv
<1>1. Created = {} /\ live = {} /\ ~peer /\ stage = 0 /\ script = <<>> /\ phase = "idle"
  BY DEF Init, Created
<1> QED
  BY <1>1, InitTyped DEF Orderly, Held

(* The invariant holds in every state of every connection. *)
THEOREM ConnectionInvariance == Spec => []ConnectionInv
<1>1. Init => ConnectionInv
  BY InitOrderly
<1>2. ConnectionInv /\ [Next]_vars => ConnectionInv'
  BY NextOrderly
<1> QED
  BY <1>1, <1>2, PTL DEF Spec

(* Every variable of the connection keeps its type: the twelve threads, the *)
(* stage, and the queues with what is in them.                              *)
THEOREM ConnectionTyped == Spec => []TypeOK
<1>1. ConnectionInv => TypeOK
  BY DEF ConnectionInv, Typed
<1> QED
  BY <1>1, ConnectionInvariance, PTL

(* LiStopConnection and every failure of LiStartConnection: when they return, *)
(* no thread, no queue and no ENet peer is left and the stage is STAGE_NONE,  *)
(* and only a thread that is there is ever joined.                            *)
THEOREM StopsLeaveNothing == Spec => []NothingIsLeft
<1>1. ConnectionInv => NothingIsLeft
  <2> SUFFICES ASSUME Typed, Orderly PROVE NothingIsLeft
    BY DEF ConnectionInv
  <2>1. phase = "idle" =>
          /\ \A t \in Threads : thread[t] = "none"
          /\ live = {} /\ ~peer /\ stage = 0
    BY DEF Orderly, Created
  <2>2. ASSUME NEW t \in Threads, NextIs("join", t) PROVE thread[t] # "none"
    <3>1. script # <<>> /\ Head(script) = <<"join", t>> /\ <<"join", t>> \in Todo
      BY <2>2, TailElements DEF NextIs, Typed, Todo
    <3>2. ~Starting
      BY <3>1, PlanCases DEF Starting
    <3>3. Stopping
      BY <3>1, <3>2 DEF Orderly, Typed, TypeOK
    <3> QED
      BY <3>1, <3>3 DEF Stopping, Created
  <2> QED
    BY <2>1, <2>2 DEF NothingIsLeft
<1> QED
  BY <1>1, ConnectionInvariance, PTL

(* Through every start, failure and stop, and whatever the threads meet *)
(* meanwhile, a thread that runs has its queue, the queues it feeds and *)
(* flushes, and the ENet peer it sends to.                              *)
THEOREM NothingOutlivesWhatItUses == Spec => []NothingIsUsedAfterwards
<1>1. ConnectionInv => NothingIsUsedAfterwards
  <2> SUFFICES ASSUME Held, NEW t \in Threads, Alive(t)
               PROVE  /\ t \in Consumers => WaitsFor(t) \in live
                      /\ \A w \in Queues : Feeds(t, w) => w \in live
                      /\ t \in {"VideoRecv", "VideoDec"} => "rfi" \in live
                      /\ t \in UsesPeer => peer
    BY DEF ConnectionInv, Orderly, NothingIsUsedAfterwards
  <2>1. t \in Created
    BY DEF Alive, Created
  <2>2. \A r \in Needs(t) : IF r = "peer" THEN peer ELSE r \in live
    BY <2>1 DEF Held, Available
  <2>3. t \in Consumers => WaitsFor(t) \in Needs(t) /\ WaitsFor(t) # "peer"
    BY DEF Consumers, WaitsFor, Needs
  <2>4. \A w \in Queues : Feeds(t, w) => w \in Needs(t) /\ w # "peer"
    BY DEF Feeds, Needs, Queues
  <2>5. t \in {"VideoRecv", "VideoDec"} => "rfi" \in Needs(t)
    BY DEF Needs
  <2>6. t \in UsesPeer => "peer" \in Needs(t)
    BY DEF UsesPeer, Needs
  <2> QED
    BY <2>2, <2>3, <2>4, <2>5, <2>6
<1> QED
  BY <1>1, ConnectionInvariance, PTL
===============================================================================
