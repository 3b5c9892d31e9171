------------------------- MODULE VideoRecoveryProofs --------------------------
(***************************************************************************)
(* Proofs about VideoDepacketizer and about VideoRecovery, which extends   *)
(* it.  The first part is about the depacketizer alone (Spec): what it     *)
(* guarantees for every host, every loss, every decoder and every bound of *)
(* its queues: its types, that frames are queued and decoded in order and  *)
(* never across a loss, and the relations of its waits and of its          *)
(* invalidation ranges that the C code asserts.                            *)
(*                                                                         *)
(* The second part is about the system (RecoverySpec), for any number of   *)
(* frames and losses, any lead of the host and any bounds of the queues.   *)
(*                                                                         *)
(* It implements VideoDepacketizer: the calls of the RTP video queue are   *)
(* calls that module allows.  RecoveryInv relates the three parts: the     *)
(* calls that remain are about frames the host encoded and the             *)
(* depacketizer has not yet left behind, in order (CallsInv), and the      *)
(* depacketizer is never ahead of the RTP video queue (Near).              *)
(*                                                                         *)
(* And a frame refers only to what the decoder was given.  The argument    *)
(* follows a request from startFrameNumber over the tuples, the thread and *)
(* the way to the host into the frame that answers it (Asks): wherever it  *)
(* is, the frame before the one it names was queued for the decoder, and   *)
(* is still there unless an IDR frame has taken its place or will (Kept,   *)
(* StartsKept).                                                            *)
(***************************************************************************)
EXTENDS VideoRecovery, SequenceTheorems, WellFoundedInduction, TLAPS


-------------------------------------------------------------------------------
(* The operators of a queue, for any set of data. *)

(* flush leaves a queue of items. *)
LEMMA FlushedShape ==
  ASSUME NEW S, NEW u \in QueueOf(S)
  PROVE  /\ Flushed(u) \in QueueOf(S)
         /\ Flushed(u).items = <<>>
         /\ Len(Flushed(u).items) = 0
<1>1. <<>> \in Seq(S) /\ Len(<<>>) = 0
  OBVIOUS
<1> QED
  BY <1>1 DEF Flushed, QueueOf

(* offer leaves a queue of items. *)
LEMMA OfferedShape ==
  ASSUME NEW S, NEW u \in QueueOf(S), NEW x \in S, NEW bound \in Nat,
         Len(u.items) <= bound
  PROVE  /\ Offered(u, bound, x) \in QueueOf(S)
         /\ Len(Offered(u, bound, x).items) <= bound
         /\ \/ Offered(u, bound, x).items = u.items
            \/ Offered(u, bound, x).items = Append(u.items, x)
<1>1. CASE OfferStatus(u, bound) # LBQ_SUCCESS
  BY <1>1 DEF Offered
<1>2. CASE OfferStatus(u, bound) = LBQ_SUCCESS
  <2>1. u.items \in Seq(S) /\ Len(u.items) \in Nat /\ Len(u.items) # bound
    BY <1>2, LenProperties DEF QueueOf, OfferStatus, LBQ_SUCCESS, LBQ_BOUND_EXCEEDED, LBQ_INTERRUPTED
  <2>2. Append(u.items, x) \in Seq(S) /\ Len(Append(u.items, x)) = Len(u.items) + 1
    BY <2>1, AppendProperties
  <2>3. Offered(u, bound, x) = [u EXCEPT !.items = Append(u.items, x), !.used = TRUE]
    BY <1>2 DEF Offered, Link
  <2>4. Offered(u, bound, x) \in QueueOf(S) /\ Offered(u, bound, x).items = Append(u.items, x)
    BY <2>2, <2>3 DEF QueueOf
  <2> QED
    BY <2>1, <2>2, <2>4
<1> QED
  BY <1>1, <1>2

(* poll leaves a queue of items, and hands out one of them. *)
LEMMA PolledShape ==
  ASSUME NEW S, NEW u \in QueueOf(S), PollStatus(u) = LBQ_SUCCESS
  PROVE  /\ Polled(u) \in QueueOf(S)
         /\ u.items # <<>> /\ Polled(u).items = Tail(u.items)
         /\ Len(Polled(u).items) = Len(u.items) - 1
<1>1. u.items \in Seq(S) /\ u.items # <<>>
  BY DEF QueueOf, PollStatus, IsEmpty, LBQ_SUCCESS, LBQ_INTERRUPTED, LBQ_NO_ELEMENT
<1>2. Tail(u.items) \in Seq(S) /\ Len(Tail(u.items)) = Len(u.items) - 1
  BY <1>1, HeadTailProperties
<1>3. Polled(u) = [u EXCEPT !.items = Tail(u.items)]
  BY DEF Polled, Unlink
<1> QED
  BY <1>1, <1>2, <1>3 DEF QueueOf

(* wait leaves a queue of items, and hands out one of them. *)
LEMMA WaitedShape ==
  ASSUME NEW S, NEW u \in QueueOf(S), ~WaitBlocks(u)
  PROVE  /\ Waited(u) \in QueueOf(S)
         /\ WaitStatus(u) = LBQ_SUCCESS =>
              /\ u.items # <<>> /\ Waited(u).items = Tail(u.items)
              /\ Head(u.items) \in S
              /\ Len(Waited(u).items) = Len(u.items) - 1
         /\ WaitStatus(u) # LBQ_SUCCESS => Waited(u).items = u.items
<1>1. CASE WaitStatus(u) = LBQ_SUCCESS
  <2>1. u.items \in Seq(S) /\ u.items # <<>>
    BY <1>1 DEF QueueOf, WaitStatus, IsEmpty, LBQ_SUCCESS, LBQ_INTERRUPTED, LBQ_USER_WAKE
  <2>2. /\ Head(u.items) \in S /\ Tail(u.items) \in Seq(S)
        /\ Len(Tail(u.items)) = Len(u.items) - 1
    BY <2>1, HeadTailProperties
  <2>3. Waited(u) = [u EXCEPT !.items = Tail(u.items)]
    BY <1>1 DEF Waited, Unlink, LBQ_SUCCESS, LBQ_USER_WAKE
  <2> QED
    BY <1>1, <2>1, <2>2, <2>3 DEF QueueOf
<1>2. CASE WaitStatus(u) = LBQ_USER_WAKE
  <2>1. Waited(u) = [u EXCEPT !.pendingUserWake = FALSE]
    BY <1>2 DEF Waited, LBQ_SUCCESS, LBQ_USER_WAKE
  <2> QED
    BY <1>2, <2>1 DEF QueueOf, LBQ_SUCCESS, LBQ_USER_WAKE
<1>3. CASE WaitStatus(u) = LBQ_INTERRUPTED
  BY <1>3 DEF Waited, LBQ_SUCCESS, LBQ_USER_WAKE, LBQ_INTERRUPTED
<1> QED
  BY <1>1, <1>2, <1>3 DEF WaitStatus

(* A shutdown leaves a queue of items. *)
LEMMA ShutDownShape ==
  ASSUME NEW S, NEW u \in QueueOf(S)
  PROVE  ShutDown(u) \in QueueOf(S) /\ ShutDown(u).items = u.items
BY DEF ShutDown, QueueOf

(* A new queue is one. *)
LEMMA NewQueueShape ==
  ASSUME NEW S
  PROVE  NewQueue \in QueueOf(S) /\ NewQueue.items = <<>> /\ Len(NewQueue.items) = 0
<1>1. <<>> \in Seq(S) /\ Len(<<>>) = 0
  OBVIOUS
<1> QED
  BY <1>1 DEF NewQueue, QueueOf

-------------------------------------------------------------------------------
(* Type correctness.  The three parts of the state, and that the receive       *)
(* thread works on a frame of the host whenever it works on one.               *)

LossTypeOK ==
  /\ nextFrameNumber \in Nat \ {0} /\ startFrameNumber \in Nat
  /\ waitingForNextSuccessfulFrame \in BOOLEAN /\ waitingForIdrFrame \in BOOLEAN
  /\ waitingForRefInvalFrame \in BOOLEAN /\ dropStatePending \in BOOLEAN
  /\ idrFrameProcessed \in BOOLEAN
  /\ consecutiveFrameDrops \in 0 .. DropLimit - 1

RecvTypeOK ==
  /\ recvPc \in {"idle", "frame", "queue", "overflow"} /\ recvFrame \in Frames \cup {NoFrame}
  /\ recvPc # "idle" => recvFrame \in Frames

DecTypeOK ==
  /\ decodeUnitQueue \in QueueOf(Frames) /\ Len(decodeUnitQueue.items) <= QueueBound
  /\ decPc \in {"wait", "submit", "refresh_flush", "refresh_pending",
                "refresh_request", "done"}
  /\ decFrame \in Frames \cup {NoFrame}
  /\ refresh \in {"never", "due", "answered"}

CtlTypeOK ==
  /\ idrFrameRequiredEvent \in BOOLEAN
  /\ invalidReferenceFrameTuples \in QueueOf(Ranges)
  /\ Len(invalidReferenceFrameTuples.items) <= RfiBound

TypeInv == LossTypeOK /\ RecvTypeOK /\ DecTypeOK /\ CtlTypeOK

SettingsOK ==
  strictIdrFrameWait \in BOOLEAN /\ directSubmit \in BOOLEAN /\ typedHeaders \in BOOLEAN

(* What the session was set up with stays. *)
LEMMA SettingsStay == [Next]_vars => UNCHANGED settings
BY DEF Next, vars

(* The types of the proof are those of the module. *)
LEMMA TypeInvImpliesTypeOK == TypeInv /\ SettingsOK => TypeOK
BY DEF TypeInv, SettingsOK, LossTypeOK, RecvTypeOK, DecTypeOK, CtlTypeOK, TypeOK

(* A frame has a positive number and a kind. *)
LEMMA FrameFacts ==
  ASSUME NEW f \in Frames
  PROVE  f.n \in Nat \ {0} /\ f.n \in FrameNumbers /\ f.kind \in Kinds
BY FrameNumbersAssumption DEF Frames

(* Every way a step asks the control stream for something keeps its types. *)
LEMMA IdrRequestKeepsTypes ==
  CtlTypeOK /\ LiRequestIdrFrame => CtlTypeOK'
<1> SUFFICES ASSUME CtlTypeOK, LiRequestIdrFrame PROVE CtlTypeOK'
  OBVIOUS
<1>1. /\ Flushed(invalidReferenceFrameTuples) \in QueueOf(Ranges)
      /\ Len(Flushed(invalidReferenceFrameTuples).items) = 0
  BY FlushedShape DEF CtlTypeOK
<1> QED
  BY <1>1, BoundsAssumption DEF CtlTypeOK, LiRequestIdrFrame

(* Requesting an invalidation keeps the types of the control stream. *)
LEMMA InvalidationKeepsTypes ==
  ASSUME CtlTypeOK, NEW event \in BOOLEAN, NEW tuples \in QueueOf(Ranges),
         Len(tuples.items) <= RfiBound, NEW first \in Nat, NEW last \in Nat,
         RequestInvalidation(event, tuples, first, last)
  PROVE  CtlTypeOK'
<1>1. CASE LiRequestIdrFrame
  BY <1>1, IdrRequestKeepsTypes
<1>2. CASE /\ invalidReferenceFrameTuples' = Offered(tuples, RfiBound, <<first, last>>)
           /\ idrFrameRequiredEvent' = event
  <2>1. <<first, last>> \in Ranges /\ RfiBound \in Nat
    BY BoundsAssumption DEF Ranges
  <2>2. /\ Offered(tuples, RfiBound, <<first, last>>) \in QueueOf(Ranges)
        /\ Len(Offered(tuples, RfiBound, <<first, last>>).items) <= RfiBound
    BY <2>1, OfferedShape
  <2> QED
    BY <1>2, <2>2 DEF CtlTypeOK
<1> QED
  BY <1>1, <1>2 DEF RequestInvalidation

(* So does a request after a loss. *)
LEMMA LossRequestKeepsTypes ==
  ASSUME CtlTypeOK, NEW first \in Nat, NEW last \in Nat,
         connectionDetectedFrameLoss(first, last)
  PROVE  CtlTypeOK'
BY InvalidationKeepsTypes DEF connectionDetectedFrameLoss, CtlTypeOK

(* So does no request. *)
LEMMA NoRequestKeepsTypes == CtlTypeOK /\ NoRequest => CtlTypeOK'
BY DEF CtlTypeOK, NoRequest, ctlVars

(* dropFrameState keeps the types of what it touches. *)
LEMMA ZeroDrops == 0 \in 0 .. DropLimit - 1
<1>1. DropLimit \in Nat /\ DropLimit # 0
  BY BoundsAssumption
<1> QED
  BY <1>1

(* Counting a dropped frame keeps the type of the count. *)
LEMMA CountDropKeepsType ==
  ASSUME consecutiveFrameDrops \in 0 .. DropLimit - 1, CountDrop
  PROVE  consecutiveFrameDrops' \in 0 .. DropLimit - 1
BY BoundsAssumption DEF CountDrop, DropLimitReached

(* Dropping a frame keeps the types. *)
LEMMA DropKeepsTypes ==
  ASSUME LossTypeOK, NEW w \in BOOLEAN, DropFrameState(w)
  PROVE  /\ dropStatePending' \in BOOLEAN
         /\ waitingForIdrFrame' \in BOOLEAN
         /\ waitingForRefInvalFrame' \in BOOLEAN
         /\ consecutiveFrameDrops' \in 0 .. DropLimit - 1
<1>1. consecutiveFrameDrops' \in 0 .. DropLimit - 1
  BY CountDropKeepsType DEF LossTypeOK, DropFrameState
<1>2. DropWaitsForIdr(w) \in BOOLEAN /\ DropWaitsForRfi(w) \in BOOLEAN
  BY DEF DropWaitsForIdr, DropWaitsForRfi, LossTypeOK
<1> QED
  BY <1>1, <1>2 DEF DropFrameState

(* The types hold at the start. *)
LEMMA InitTypes == Init => TypeInv
<1> SUFFICES ASSUME Init PROVE TypeInv
  OBVIOUS
<1>1. /\ NewQueue \in QueueOf(Frames) /\ NewQueue \in QueueOf(Ranges)
      /\ Len(NewQueue.items) <= QueueBound /\ Len(NewQueue.items) <= RfiBound
  BY NewQueueShape, BoundsAssumption
<1>2. LossTypeOK
  <2>2. consecutiveFrameDrops \in 0 .. DropLimit - 1
    BY DEF Init
  <2>3. nextFrameNumber \in Nat \ {0} /\ startFrameNumber \in Nat
    BY DEF Init
  <2>4. /\ waitingForNextSuccessfulFrame \in BOOLEAN /\ waitingForIdrFrame \in BOOLEAN
        /\ waitingForRefInvalFrame \in BOOLEAN /\ dropStatePending \in BOOLEAN
        /\ idrFrameProcessed \in BOOLEAN
    BY Zenon DEF Init, FirstMustBeIdr
  <2> QED
    BY <2>2, <2>3, <2>4 DEF LossTypeOK
<1>3. RecvTypeOK
  BY DEF Init, RecvTypeOK
<1>4. DecTypeOK
  BY <1>1 DEF Init, DecTypeOK
<1>5. CtlTypeOK
  BY <1>1 DEF Init, CtlTypeOK
<1> QED
  BY <1>2, <1>3, <1>4, <1>5 DEF TypeInv

(* Every step keeps the types. *)
LEMMA NextTypes == TypeInv /\ [Next]_vars => TypeInv'
<1> SUFFICES ASSUME TypeInv, [Next]_vars PROVE TypeInv'
  OBVIOUS
<1> USE DEF TypeInv
<1>1. ASSUME NEW f \in Frames, DropOldFrame(f) PROVE TypeInv'
  BY <1>1 DEF DropOldFrame, vars, lossVars, recvVars, decVars, ctlVars,
              LossTypeOK, RecvTypeOK, DecTypeOK, CtlTypeOK
<1>2. ASSUME NEW f \in Frames, StartFrame(f) PROVE TypeInv'
  <2> DEFINE atLimit == IsGap(f) /\ DropLimitReached
             tuples == IF atLimit THEN Flushed(invalidReferenceFrameTuples)
                       ELSE invalidReferenceFrameTuples
             rfiWait == IF IsGap(f) THEN DropWaitsForRfi(waitingForIdrFrame)
                        ELSE waitingForRefInvalFrame
  <2>1. f.n \in Nat \ {0} /\ f.n - 1 \in Nat
    BY FrameFacts
  <2>2. LossTypeOK'
    <3>1. consecutiveFrameDrops' \in 0 .. DropLimit - 1
      BY <1>2, CountDropKeepsType DEF StartFrame, LossTypeOK
    <3> QED
      BY <1>2, <2>1, <3>1 DEF StartFrame, LossTypeOK, AwaitsSuccess
  <2>3. CtlTypeOK'
    <3>1. tuples \in QueueOf(Ranges) /\ Len(tuples.items) <= RfiBound
      BY FlushedShape, BoundsAssumption DEF CtlTypeOK
    <3>2. idrFrameRequiredEvent \/ atLimit \in BOOLEAN
      BY DEF CtlTypeOK
    <3>3. CASE RequestInvalidation(idrFrameRequiredEvent \/ atLimit, tuples, startFrameNumber, f.n - 1)
      <4> HIDE DEF tuples, atLimit
      <4> QED
        BY <2>1, <3>1, <3>2, <3>3, InvalidationKeepsTypes DEF LossTypeOK
    <3>4. CASE LiRequestIdrFrame
      BY <3>4, IdrRequestKeepsTypes
    <3>5. CASE NoRequest
      BY <3>5, NoRequestKeepsTypes
    <3> QED
      BY <1>2, <3>3, <3>4, <3>5 DEF StartFrame
  <2> QED
    BY <1>2, <2>2, <2>3 DEF StartFrame, RecvTypeOK, DecTypeOK, decVars
<1>3. ASSUME NEW f \in Frames, CorruptFrame(f) PROVE TypeInv'
  <2>1. f.n \in Nat
    BY FrameFacts
  <2>2. LossTypeOK'
    BY <1>3, <2>1, DropKeepsTypes DEF CorruptFrame, LossTypeOK
  <2>3. CtlTypeOK'
    BY <1>3, <2>1, IdrRequestKeepsTypes, LossRequestKeepsTypes
    DEF CorruptFrame, RequestForLoss, LossTypeOK
  <2> QED
    BY <1>3, <2>2, <2>3 DEF CorruptFrame, RecvTypeOK, DecTypeOK, decVars
<1>4. ASSUME FinishWhileWaiting PROVE TypeInv'
  <2>1. recvFrame.n \in Nat
    BY <1>4, FrameFacts DEF FinishWhileWaiting, RecvTypeOK
  <2>2. LossTypeOK'
    <3>1. /\ dropStatePending' \in BOOLEAN /\ waitingForIdrFrame' \in BOOLEAN
          /\ waitingForRefInvalFrame' \in BOOLEAN
          /\ consecutiveFrameDrops' \in 0 .. DropLimit - 1
      BY <1>4, DropKeepsTypes DEF FinishWhileWaiting, LossTypeOK
    <3>2. nextFrameNumber' \in Nat \ {0} /\ startFrameNumber' \in Nat
      BY <1>4, <2>1 DEF FinishWhileWaiting, LossTypeOK
    <3>3. waitingForNextSuccessfulFrame' \in BOOLEAN /\ idrFrameProcessed' \in BOOLEAN
      BY <1>4 DEF FinishWhileWaiting, LossTypeOK
    <3> QED
      BY <3>1, <3>2, <3>3 DEF LossTypeOK
  <2>3. CtlTypeOK'
    BY <1>4, <2>1, IdrRequestKeepsTypes, LossRequestKeepsTypes, NoRequestKeepsTypes
    DEF FinishWhileWaiting, LossTypeOK
  <2> QED
    BY <1>4, <2>2, <2>3 DEF FinishWhileWaiting, RecvTypeOK, DecTypeOK, decVars
<1>5. ASSUME FinishDropPending PROVE TypeInv'
  <2>1. recvFrame.n \in Nat
    BY <1>5, FrameFacts DEF FinishDropPending, RecvTypeOK
  <2>2. LossTypeOK'
    BY <1>5, <2>1, DropKeepsTypes DEF FinishDropPending, LossTypeOK
  <2>3. CtlTypeOK'
    BY <1>5, IdrRequestKeepsTypes, NoRequestKeepsTypes DEF FinishDropPending
  <2> QED
    BY <1>5, <2>2, <2>3 DEF FinishDropPending, RecvTypeOK, DecTypeOK, decVars
<1>6. ASSUME FinishFrame PROVE TypeInv'
  <2>1. recvFrame \in Frames /\ recvFrame.n \in Nat
    BY <1>6, FrameFacts DEF FinishFrame, RecvTypeOK
  <2>2. LossTypeOK'
    <3>0. nextFrameNumber' = recvFrame.n + 1 /\ dropStatePending' = FALSE
      BY <1>6 DEF FinishFrame
    <3>1. nextFrameNumber' \in Nat \ {0}
      BY <2>1, <3>0
    <3>2. dropStatePending' \in BOOLEAN
      BY <3>0
    <3>3. UNCHANGED <<startFrameNumber, waitingForNextSuccessfulFrame, waitingForIdrFrame,
                      waitingForRefInvalFrame, idrFrameProcessed, consecutiveFrameDrops>>
      BY <1>6 DEF FinishFrame
    <3> QED
      BY <3>1, <3>2, <3>3 DEF LossTypeOK
  <2> QED
    BY <1>6, <2>1, <2>2 DEF FinishFrame, RecvTypeOK, DecTypeOK, CtlTypeOK, decVars, ctlVars
<1>7. ASSUME QueueFrame PROVE TypeInv'
  <2>1. recvFrame \in Frames /\ QueueBound \in Nat
    BY <1>7, BoundsAssumption DEF QueueFrame, RecvTypeOK
  <2>2. decodeUnitQueue' \in QueueOf(Frames) /\ Len(decodeUnitQueue'.items) <= QueueBound
    BY <1>7, <2>1, OfferedShape DEF QueueFrame, DecTypeOK
  <2> QED
    BY <1>7, <2>2, BoundsAssumption
    DEF QueueFrame, LossTypeOK, RecvTypeOK, DecTypeOK, CtlTypeOK, decVars, ctlVars
<1>8. ASSUME QueueOverflow PROVE TypeInv'
  <2>1. LossTypeOK'
    BY <1>8, DropKeepsTypes DEF QueueOverflow, LossTypeOK
  <2>2. CtlTypeOK'
    BY <1>8, IdrRequestKeepsTypes, NoRequestKeepsTypes DEF QueueOverflow
  <2> QED
    BY <1>8, <2>1, <2>2 DEF QueueOverflow, RecvTypeOK, DecTypeOK, decVars
<1>22. ASSUME FlushOverflow PROVE TypeInv'
  <2>1. decodeUnitQueue' \in QueueOf(Frames) /\ Len(decodeUnitQueue'.items) <= QueueBound
    BY <1>22, FlushedShape, BoundsAssumption DEF FlushOverflow, DecTypeOK
  <2>2. CtlTypeOK'
    BY <1>22, IdrRequestKeepsTypes DEF FlushOverflow
  <2> QED
    BY <1>22, <2>1, <2>2
       DEF FlushOverflow, LossTypeOK, RecvTypeOK, DecTypeOK, lossVars, decVars
<1>9. ASSUME NEW ok \in BOOLEAN, SubmitDirect(ok) PROVE TypeInv'
  <2>1. CtlTypeOK'
    BY <1>9, IdrRequestKeepsTypes, NoRequestKeepsTypes DEF SubmitDirect
  <2>2. LossTypeOK'
    <3>0. consecutiveFrameDrops' = 0
      BY <1>9 DEF SubmitDirect
    <3>1. consecutiveFrameDrops' \in 0 .. DropLimit - 1
      BY <3>0, ZeroDrops
    <3>2. /\ waitingForIdrFrame' \in BOOLEAN /\ dropStatePending' \in BOOLEAN
          /\ idrFrameProcessed' \in BOOLEAN
      BY <1>9 DEF SubmitDirect, LossTypeOK, DirectRefresh
    <3>3. nextFrameNumber' \in Nat \ {0} /\ startFrameNumber' \in Nat
      BY <1>9 DEF SubmitDirect, LossTypeOK
    <3>4. waitingForNextSuccessfulFrame' \in BOOLEAN /\ waitingForRefInvalFrame' \in BOOLEAN
      BY <1>9 DEF SubmitDirect, LossTypeOK
    <3> QED
      BY <3>1, <3>2, <3>3, <3>4 DEF LossTypeOK
  <2> QED
    BY <1>9, <2>1, <2>2 DEF SubmitDirect, RecvTypeOK, DecTypeOK, Answered
<1>10. ASSUME NEW n \in FrameNumbers, notifyFrameLost(n) PROVE TypeInv'
  <2>1. n \in Nat
    BY FrameNumbersAssumption
  <2>2. LossTypeOK'
    BY <1>10, <2>1, DropKeepsTypes DEF notifyFrameLost, LossTypeOK, NoLongerExpects
  <2>3. CtlTypeOK'
    BY <1>10, <2>1, IdrRequestKeepsTypes, LossRequestKeepsTypes, NoRequestKeepsTypes
    DEF notifyFrameLost, LossTypeOK
  <2> QED
    BY <1>10, <2>2, <2>3 DEF notifyFrameLost, RecvTypeOK, DecTypeOK, recvVars, decVars
<1>11. ASSUME WaitForFrame PROVE TypeInv'
  <2>1. /\ decodeUnitQueue' \in QueueOf(Frames) /\ Len(decodeUnitQueue'.items) <= QueueBound
        /\ decFrame' \in Frames \cup {NoFrame}
    <3>1. Len(decodeUnitQueue.items) \in Nat
      BY LenProperties DEF DecTypeOK, QueueOf
    <3> QED
      BY <1>11, <3>1, WaitedShape, BoundsAssumption DEF WaitForFrame, DecTypeOK
  <2> QED
    BY <1>11, <2>1 DEF WaitForFrame, LossTypeOK, RecvTypeOK, DecTypeOK, CtlTypeOK,
                       lossVars, recvVars, ctlVars
<1>12. ASSUME CompleteFrame PROVE TypeInv'
  BY <1>12 DEF CompleteFrame, Answered, LossTypeOK, RecvTypeOK, DecTypeOK, CtlTypeOK,
               lossVars, recvVars, ctlVars
<1>13. ASSUME RefreshWaitIdr PROVE TypeInv'
  BY <1>13 DEF RefreshWaitIdr, LossTypeOK, RecvTypeOK, DecTypeOK, CtlTypeOK,
               lossVars, recvVars, ctlVars
<1>14. ASSUME RefreshFlush PROVE TypeInv'
  <2>1. decodeUnitQueue' \in QueueOf(Frames) /\ Len(decodeUnitQueue'.items) <= QueueBound
    BY <1>14, FlushedShape, BoundsAssumption DEF RefreshFlush, DecTypeOK
  <2> QED
    BY <1>14, <2>1 DEF RefreshFlush, LossTypeOK, RecvTypeOK, DecTypeOK, CtlTypeOK,
                       lossVars, recvVars, ctlVars
<1>15. ASSUME RefreshDropPending PROVE TypeInv'
  BY <1>15 DEF RefreshDropPending, LossTypeOK, RecvTypeOK, DecTypeOK, CtlTypeOK,
               lossVars, recvVars, ctlVars
<1>16. ASSUME RefreshRequest PROVE TypeInv'
  <2>1. CtlTypeOK'
    BY <1>16, IdrRequestKeepsTypes DEF RefreshRequest
  <2> QED
    BY <1>16, <2>1 DEF RefreshRequest, LossTypeOK, RecvTypeOK, DecTypeOK, lossVars, recvVars
<1>17. ASSUME ClearIdrEvent PROVE TypeInv'
  <2>1. CtlTypeOK'
    BY <1>17 DEF ClearIdrEvent, CtlTypeOK
  <2> QED
    BY <1>17, <2>1 DEF ClearIdrEvent, depacketizerVars, LossTypeOK, RecvTypeOK, DecTypeOK,
                       lossVars, recvVars, decVars
<1>18. ASSUME FlushInvalidations PROVE TypeInv'
  <2>1. CtlTypeOK'
    BY <1>18, FlushedShape, BoundsAssumption DEF FlushInvalidations, CtlTypeOK
  <2> QED
    BY <1>18, <2>1 DEF FlushInvalidations, depacketizerVars, LossTypeOK, RecvTypeOK,
                       DecTypeOK, lossVars, recvVars, decVars
<1>19. ASSUME TakeInvalidation PROVE TypeInv'
  <2>1. Len(invalidReferenceFrameTuples.items) \in Nat
    BY LenProperties DEF CtlTypeOK, QueueOf
  <2>2. CtlTypeOK'
    BY <1>19, <2>1, PolledShape, BoundsAssumption DEF TakeInvalidation, CtlTypeOK
  <2> QED
    BY <1>19, <2>2 DEF TakeInvalidation, depacketizerVars, LossTypeOK, RecvTypeOK,
                       DecTypeOK, lossVars, recvVars, decVars
<1>20. ASSUME stopVideoDepacketizer PROVE TypeInv'
  <2>1. DecTypeOK'
    BY <1>20, ShutDownShape DEF stopVideoDepacketizer, DecTypeOK, decVars
  <2> QED
    BY <1>20, <2>1 DEF stopVideoDepacketizer, LossTypeOK, RecvTypeOK, CtlTypeOK,
                       lossVars, recvVars, ctlVars
<1>21. ASSUME UNCHANGED vars PROVE TypeInv'
  BY <1>21 DEF vars, lossVars, recvVars, decVars, ctlVars,
               LossTypeOK, RecvTypeOK, DecTypeOK, CtlTypeOK
<1> QED
  BY <1>1, <1>2, <1>3, <1>4, <1>5, <1>6, <1>7, <1>8, <1>9, <1>10, <1>11, <1>12, <1>13,
     <1>14, <1>15, <1>16, <1>17, <1>18, <1>19, <1>20, <1>21, <1>22
  DEF Next, ReceiveThread, DecoderThread, ControlThreads, Refresh

(* The variables keep their types, the queues their bounds and the counter of  *)
(* consecutive drops its range (initializeVideoDepacketizer and all later      *)
(* steps of VideoDepacketizer.c).                                              *)
THEOREM TypeCorrect == Spec => []TypeOK
<1>1. Spec => []TypeInv
  BY InitTypes, NextTypes, PTL DEF Spec
<1>2. Spec => []SettingsOK
  <2>1. Init => SettingsOK
    BY DEF Init, SettingsOK
  <2>2. SettingsOK /\ [Next]_vars => SettingsOK'
    BY SettingsStay DEF SettingsOK, settings
  <2> QED
    BY <2>1, <2>2, PTL DEF Spec
<1> QED
  BY <1>1, <1>2, TypeInvImpliesTypeOK, PTL

-------------------------------------------------------------------------------
(* The order of frames.  The receive thread is at, or just past, the frame it  *)
(* works on, and everything queued or decoded is before the window.  After an  *)
(* overflow an IDR frame is awaited.                                           *)

OrderInv ==
  /\ startFrameNumber <= nextFrameNumber
  /\ recvPc = "frame" => nextFrameNumber = recvFrame.n
  /\ recvPc = "queue" => nextFrameNumber = recvFrame.n + 1 /\ startFrameNumber <= recvFrame.n
  /\ recvPc = "overflow" =>
       ~directSubmit /\ waitingForIdrFrame /\ startFrameNumber < nextFrameNumber
  /\ decFrame.n = 0 \/ decFrame.n < startFrameNumber

QueueOrder ==
  LET q == decodeUnitQueue.items IN
  /\ directSubmit => Len(q) = 0
  /\ \A i \in 1 .. Len(q) : decFrame.n < q[i].n /\ q[i].n < startFrameNumber
  /\ \A i, j \in 1 .. Len(q) : i < j => q[i].n < q[j].n

NoWaits == ~waitingForIdrFrame /\ ~waitingForRefInvalFrame

(* The waits: a frame that may be queued follows the last queued one.          *)
ChainInv ==
  /\ strictIdrFrameWait => ~waitingForRefInvalFrame
  /\ typedHeaders \/ strictIdrFrameWait =>
       /\ recvPc = "idle" /\ NoWaits => startFrameNumber = nextFrameNumber
       /\ recvPc = "frame" /\ recvFrame.kind = "P" /\ NoWaits
            => startFrameNumber = recvFrame.n
  /\ NoReferenceGap

(* The ranges: a wait for an invalidation, or a drop that may lead to one,     *)
(* leaves frames to invalidate.                                                *)
RangeInv ==
  /\ InvalidationsInOrder
  /\ waitingForRefInvalFrame => startFrameNumber < nextFrameNumber
  /\ recvPc = "queue" => ~waitingForRefInvalFrame
  /\ recvPc = "idle" /\ consecutiveFrameDrops > 0 /\ ~waitingForIdrFrame
       => startFrameNumber < nextFrameNumber

IInv == TypeInv /\ OrderInv /\ QueueOrder /\ SuccessWaitIsAWait /\ ChainInv /\ RangeInv

(* Steps that leave the receive thread and what it expects alone. *)
LEMMA QuietSteps ==
  ASSUME \/ \E f \in Frames : DropOldFrame(f)
         \/ WaitForFrame \/ CompleteFrame \/ RefreshFlush
         \/ RefreshDropPending \/ RefreshRequest \/ ClearIdrEvent
         \/ FlushInvalidations \/ TakeInvalidation \/ stopVideoDepacketizer
         \/ UNCHANGED vars
  PROVE  UNCHANGED <<nextFrameNumber, startFrameNumber, waitingForNextSuccessfulFrame,
                     waitingForIdrFrame, waitingForRefInvalFrame, consecutiveFrameDrops,
                     recvPc, recvFrame>>
BY DEF DropOldFrame, WaitForFrame, CompleteFrame, RefreshFlush, RefreshDropPending,
       RefreshRequest, ClearIdrEvent, FlushInvalidations, TakeInvalidation,
       stopVideoDepacketizer, depacketizerVars, vars, lossVars, recvVars

(* The steps one by one. *)
LEMMA NextSplit ==
  ASSUME [Next]_vars
  PROVE  \/ \E f \in Frames : StartFrame(f) \/ CorruptFrame(f)
         \/ FinishWhileWaiting \/ FinishDropPending \/ FinishFrame
         \/ QueueFrame \/ QueueOverflow \/ FlushOverflow
         \/ \E ok \in BOOLEAN : SubmitDirect(ok)
         \/ \E n \in FrameNumbers : MayBeLost(n) /\ notifyFrameLost(n)
         \/ RefreshWaitIdr
         \/ \/ \E f \in Frames : DropOldFrame(f)
            \/ WaitForFrame \/ CompleteFrame \/ RefreshFlush
            \/ RefreshDropPending \/ RefreshRequest \/ ClearIdrEvent
            \/ FlushInvalidations \/ TakeInvalidation \/ stopVideoDepacketizer
            \/ UNCHANGED vars
BY DEF Next, ReceiveThread, DecoderThread, ControlThreads, Refresh

(* dropFrameState always leaves a wait. *)
LEMMA DropWaits ==
  ASSUME NEW w \in BOOLEAN, DropFrameState(w)
  PROVE  waitingForIdrFrame' \/ waitingForRefInvalFrame'
BY DEF DropFrameState, DropWaitsForIdr, DropWaitsForRfi

(* No wait is left at the start. *)
LEMMA InitSuccess == Init => SuccessWaitIsAWait
BY DEF Init, SuccessWaitIsAWait

(* Every step keeps it. *)
LEMMA NextSuccess == TypeInv /\ SuccessWaitIsAWait /\ [Next]_vars => SuccessWaitIsAWait'
<1> SUFFICES ASSUME TypeInv, SuccessWaitIsAWait, [Next]_vars PROVE SuccessWaitIsAWait'
  OBVIOUS
<1>0. waitingForIdrFrame \in BOOLEAN
  BY DEF TypeInv, LossTypeOK
<1>1. ASSUME NEW f \in Frames, StartFrame(f) PROVE SuccessWaitIsAWait'
  <2>1. CASE IsGap(f)
    BY <1>1, <2>1 DEF StartFrame, AwaitsSuccess, SuccessWaitIsAWait, EndsRfiWait,
                      DropWaitsForIdr, DropWaitsForRfi
  <2>2. CASE ~IsGap(f)
    BY <1>1, <2>2 DEF StartFrame, AwaitsSuccess, SuccessWaitIsAWait, EndsRfiWait
  <2> QED
    BY <2>1, <2>2
<1>2. ASSUME NEW f \in Frames, CorruptFrame(f) PROVE SuccessWaitIsAWait'
  BY <1>0, <1>2, DropWaits DEF CorruptFrame, SuccessWaitIsAWait
<1>3. CASE FinishWhileWaiting
  BY <1>3 DEF FinishWhileWaiting, SuccessWaitIsAWait
<1>4. CASE FinishDropPending
  BY <1>0, <1>4, DropWaits DEF FinishDropPending, SuccessWaitIsAWait
<1>5. CASE FinishFrame
  BY <1>5 DEF FinishFrame, SuccessWaitIsAWait
<1>6. CASE QueueFrame
  BY <1>6 DEF QueueFrame, SuccessWaitIsAWait
<1>7. CASE QueueOverflow
  BY <1>7, DropWaits DEF QueueOverflow, SuccessWaitIsAWait
<1>12. CASE FlushOverflow
  BY <1>12 DEF FlushOverflow, lossVars, SuccessWaitIsAWait
<1>8. ASSUME NEW ok \in BOOLEAN, SubmitDirect(ok) PROVE SuccessWaitIsAWait'
  BY <1>8 DEF SubmitDirect, DirectRefresh, SuccessWaitIsAWait
<1>9. ASSUME NEW n \in FrameNumbers, notifyFrameLost(n) PROVE SuccessWaitIsAWait'
  BY <1>0, <1>9, DropWaits DEF notifyFrameLost, SuccessWaitIsAWait
<1>10. CASE RefreshWaitIdr
  BY <1>10 DEF RefreshWaitIdr, SuccessWaitIsAWait
<1>11. ASSUME UNCHANGED <<waitingForNextSuccessfulFrame, waitingForIdrFrame, waitingForRefInvalFrame>>
       PROVE SuccessWaitIsAWait'
  BY <1>11 DEF SuccessWaitIsAWait
<1> QED
  BY <1>1, <1>2, <1>3, <1>4, <1>5, <1>6, <1>7, <1>8, <1>9, <1>10, <1>11, <1>12, NextSplit,
     QuietSteps

(* The wait for a successful frame is over whenever the other waits are: the   *)
(* assertion of processRtpPayload cannot fail.                                 *)
THEOREM SuccessWaitCorrect == Spec => []SuccessWaitIsAWait
<1>1. Init => TypeInv /\ SuccessWaitIsAWait
  BY InitTypes, InitSuccess
<1>2. TypeInv /\ SuccessWaitIsAWait /\ [Next]_vars => (TypeInv /\ SuccessWaitIsAWait)'
  BY NextTypes, NextSuccess
<1> QED
  BY <1>1, <1>2, PTL DEF Spec

-------------------------------------------------------------------------------
(* The order of frames. *)

(* The frames are in order at the start. *)
LEMMA InitOrder == Init => OrderInv /\ QueueOrder
<1> SUFFICES ASSUME Init PROVE OrderInv /\ QueueOrder
  OBVIOUS
<1>1. OrderInv
  BY DEF Init, OrderInv, NoFrame
<1>2. QueueOrder
  <2>1. Len(decodeUnitQueue.items) = 0
    BY NewQueueShape DEF Init
  <2> QED
    BY <2>1 DEF QueueOrder
<1> QED
  BY <1>1, <1>2

(* Every step keeps the order of the window. *)
LEMMA NextOrder == TypeInv /\ OrderInv /\ QueueOrder /\ [Next]_vars => OrderInv'
<1> SUFFICES ASSUME TypeInv, OrderInv, QueueOrder, [Next]_vars PROVE OrderInv'
  OBVIOUS
<1>s. directSubmit' = directSubmit
  BY SettingsStay DEF settings
<1>0. /\ nextFrameNumber \in Nat /\ startFrameNumber \in Nat
      /\ recvPc # "idle" => recvFrame.n \in Nat \ {0}
      /\ decFrame.n \in Nat
  BY FrameFacts DEF TypeInv, LossTypeOK, RecvTypeOK, DecTypeOK, NoFrame
<1>1. ASSUME NEW f \in Frames, StartFrame(f) PROVE OrderInv'
  <2>1. f.n \in Nat /\ nextFrameNumber <= f.n
    BY <1>0, <1>1, FrameFacts DEF StartFrame, IsOld
  <2>2. /\ nextFrameNumber' = f.n /\ recvPc' = "frame" /\ recvFrame' = f
        /\ UNCHANGED <<startFrameNumber, decFrame>>
    BY <1>1 DEF StartFrame, decVars
  <2> QED
    BY <1>0, <2>1, <2>2 DEF OrderInv
<1>2. ASSUME NEW f \in Frames, CorruptFrame(f) PROVE OrderInv'
  <2>1. f.n \in Nat /\ nextFrameNumber <= f.n
    BY <1>0, <1>2, FrameFacts DEF CorruptFrame, IsOld, OrderInv
  <2>2. /\ nextFrameNumber' = f.n + 1 /\ recvPc' = "idle"
        /\ UNCHANGED <<startFrameNumber, decFrame>>
    BY <1>2 DEF CorruptFrame, decVars
  <2> QED
    BY <1>0, <2>1, <2>2 DEF OrderInv
<1>3. CASE FinishWhileWaiting \/ FinishDropPending
  <2>1. /\ recvPc = "frame" /\ nextFrameNumber' = recvFrame.n + 1 /\ recvPc' = "idle"
        /\ UNCHANGED <<startFrameNumber, decFrame>>
    BY <1>3 DEF FinishWhileWaiting, FinishDropPending, decVars
  <2> QED
    BY <1>0, <2>1 DEF OrderInv
<1>4. CASE FinishFrame
  <2>1. /\ recvPc = "frame" /\ nextFrameNumber' = recvFrame.n + 1 /\ recvPc' = "queue"
        /\ UNCHANGED <<startFrameNumber, decFrame, recvFrame>>
    BY <1>4 DEF FinishFrame, decVars
  <2> QED
    BY <1>0, <2>1 DEF OrderInv
<1>5. CASE QueueFrame
  <2>1. /\ recvPc = "queue" /\ startFrameNumber' = nextFrameNumber /\ recvPc' = "idle"
        /\ UNCHANGED <<nextFrameNumber, decFrame>>
    BY <1>5 DEF QueueFrame, decVars
  <2> QED
    BY <1>0, <2>1 DEF OrderInv
<1>6. CASE QueueOverflow
  <2>1. /\ recvPc = "queue" /\ recvPc' = "overflow" /\ ~directSubmit /\ waitingForIdrFrame'
        /\ UNCHANGED <<nextFrameNumber, startFrameNumber, decFrame>>
    BY <1>6, Zenon DEF QueueOverflow, DropFrameState, DropWaitsForIdr, IdrNeeded, decVars
  <2> QED
    BY <1>s, <1>0, <2>1 DEF OrderInv
<1>12. CASE FlushOverflow
  <2>1. /\ recvPc' = "idle"
        /\ UNCHANGED <<nextFrameNumber, startFrameNumber, decFrame>>
    BY <1>12 DEF FlushOverflow, lossVars, decVars
  <2> QED
    BY <1>0, <2>1 DEF OrderInv
<1>7. ASSUME NEW ok \in BOOLEAN, SubmitDirect(ok) PROVE OrderInv'
  <2>1. /\ recvPc = "queue" /\ startFrameNumber' = nextFrameNumber /\ recvPc' = "idle"
        /\ UNCHANGED nextFrameNumber /\ decFrame' = recvFrame
    BY <1>7 DEF SubmitDirect
  <2> QED
    BY <1>0, <2>1 DEF OrderInv
<1>8. ASSUME NEW n \in FrameNumbers, MayBeLost(n), notifyFrameLost(n) PROVE OrderInv'
  <2>1. n \in Nat
    BY FrameNumbersAssumption
  <2>2. /\ recvPc = "idle"
        /\ nextFrameNumber' = nextFrameNumber \/ nextFrameNumber' = n + 1
        /\ UNCHANGED <<startFrameNumber, decFrame, recvPc>>
    BY <1>8 DEF notifyFrameLost, NoLongerExpects, recvVars, decVars
  <2> QED
    BY <1>0, <1>8, <2>1, <2>2 DEF OrderInv, MayBeLost
<1>9. CASE /\ UNCHANGED <<nextFrameNumber, startFrameNumber, recvPc, recvFrame, decFrame>>
           /\ waitingForIdrFrame => waitingForIdrFrame'
  BY <1>s, <1>9 DEF OrderInv
<1>10. ASSUME WaitForFrame PROVE OrderInv'
  <2>1. /\ UNCHANGED <<nextFrameNumber, startFrameNumber, recvPc, recvFrame, waitingForIdrFrame>>
        /\ directSubmit' = directSubmit
    BY <1>s, <1>10, QuietSteps
  <2>2. CASE WaitStatus(decodeUnitQueue) = LBQ_SUCCESS
    <3>1. decodeUnitQueue.items \in Seq(Frames) /\ decodeUnitQueue.items # <<>>
      BY <1>10, <2>2, WaitedShape DEF WaitForFrame, TypeInv, DecTypeOK, QueueOf
    <3>2. 1 \in 1 .. Len(decodeUnitQueue.items) /\ Head(decodeUnitQueue.items) = decodeUnitQueue.items[1]
      BY <3>1, EmptySeq, LenProperties
    <3>3. Head(decodeUnitQueue.items).n < startFrameNumber
      BY <3>2 DEF QueueOrder
    <3>4. decFrame' = Head(decodeUnitQueue.items)
      BY <1>10, <2>2 DEF WaitForFrame
    <3> QED
      BY <2>1, <3>3, <3>4 DEF OrderInv
  <2>3. CASE WaitStatus(decodeUnitQueue) # LBQ_SUCCESS
    BY <1>10, <2>1, <2>3 DEF WaitForFrame, OrderInv
  <2> QED
    BY <2>2, <2>3
<1>11. ASSUME CompleteFrame \/ Refresh \/ ControlThreads \/ stopVideoDepacketizer
                \/ UNCHANGED vars \/ (\E f \in Frames : DropOldFrame(f))
       PROVE /\ UNCHANGED <<nextFrameNumber, startFrameNumber, recvPc, recvFrame, decFrame>>
             /\ waitingForIdrFrame => waitingForIdrFrame'
  BY <1>11 DEF CompleteFrame, Refresh, RefreshWaitIdr, RefreshFlush, RefreshDropPending,
       RefreshRequest, ControlThreads, ClearIdrEvent, FlushInvalidations, TakeInvalidation,
       stopVideoDepacketizer, DropOldFrame, depacketizerVars, vars, lossVars, recvVars, decVars
<1> QED
  BY <1>1, <1>2, <1>3, <1>4, <1>5, <1>6, <1>7, <1>8, <1>9, <1>10, <1>11, <1>12
  DEF Next, ReceiveThread, DecoderThread

(* What an operation does to the order of the queue. *)
LEMMA EmptyQueueInOrder ==
  ASSUME Len(decodeUnitQueue'.items) = 0
  PROVE  QueueOrder'
BY DEF QueueOrder

(* A step that leaves the queue alone keeps its order. *)
LEMMA SameQueueInOrder ==
  ASSUME QueueOrder, UNCHANGED settings,
         UNCHANGED <<decodeUnitQueue, decFrame, startFrameNumber>>
  PROVE  QueueOrder'
BY DEF QueueOrder, settings

(* Every step keeps the order of the queue. *)
LEMMA NextQueueOrder == TypeInv /\ OrderInv /\ QueueOrder /\ [Next]_vars => QueueOrder'
<1> SUFFICES ASSUME TypeInv, OrderInv, QueueOrder, [Next]_vars PROVE QueueOrder'
  OBVIOUS
<1>s. UNCHANGED <<strictIdrFrameWait, directSubmit, typedHeaders>>
  BY SettingsStay DEF settings
<1> DEFINE q == decodeUnitQueue.items
<1>0. /\ decodeUnitQueue \in QueueOf(Frames) /\ q \in Seq(Frames)
      /\ startFrameNumber \in Nat /\ nextFrameNumber \in Nat
      /\ \A i \in 1 .. Len(q) : q[i].n \in Nat
  <2>1. q \in Seq(Frames)
    BY DEF TypeInv, DecTypeOK, QueueOf
  <2>2. \A i \in 1 .. Len(q) : q[i] \in Frames
    BY <2>1, ElementOfSeq
  <2> QED
    BY <2>1, <2>2, FrameFacts DEF TypeInv, DecTypeOK, LossTypeOK
<1>1. CASE QueueFrame
  <2>1. /\ recvFrame \in Frames /\ QueueBound \in Nat /\ Len(q) <= QueueBound
        /\ recvFrame.n \in Nat \ {0} /\ decFrame.n \in Nat
    BY <1>1, FrameFacts, BoundsAssumption DEF QueueFrame, TypeInv, RecvTypeOK, DecTypeOK, NoFrame
  <2>0. ~directSubmit'
    BY <1>s, <1>1 DEF QueueFrame
  <2>2. /\ startFrameNumber' = recvFrame.n + 1 /\ startFrameNumber <= recvFrame.n
        /\ decFrame' = decFrame /\ decFrame.n < recvFrame.n
    BY <1>0, <1>1, <2>1 DEF QueueFrame, OrderInv, decVars
  <2>3. decodeUnitQueue'.items = q \/ decodeUnitQueue'.items = Append(q, recvFrame)
    BY <1>0, <1>1, <2>1, OfferedShape DEF QueueFrame
  <2>4. CASE decodeUnitQueue'.items = q
    BY <1>0, <2>0, <2>1, <2>2, <2>4 DEF QueueOrder
  <2>5. CASE decodeUnitQueue'.items = Append(q, recvFrame)
    <3> DEFINE r == Append(q, recvFrame)
    <3>1. /\ Len(q) \in Nat /\ Len(r) = Len(q) + 1 /\ r[Len(q) + 1] = recvFrame
          /\ \A i \in 1 .. Len(q) : r[i] = q[i]
      BY <1>0, <2>1, AppendProperties, LenProperties
    <3>2. \A i \in 1 .. Len(r) : i \in 1 .. Len(q) \/ i = Len(q) + 1
      BY <3>1
    <3>3. \A i \in 1 .. Len(r) : decFrame.n < r[i].n /\ r[i].n < startFrameNumber'
      BY <1>0, <2>1, <2>2, <3>1, <3>2 DEF QueueOrder
    <3>4. \A i, j \in 1 .. Len(r) : i < j => r[i].n < r[j].n
      BY <1>0, <2>1, <2>2, <3>1, <3>2 DEF QueueOrder
    <3> HIDE DEF r
    <3> QED
      BY <2>0, <2>2, <2>5, <3>3, <3>4 DEF QueueOrder, r
  <2> QED
    BY <2>3, <2>4, <2>5
<1>2. CASE FlushOverflow \/ RefreshFlush
  BY <1>0, <1>2, FlushedShape, EmptyQueueInOrder DEF FlushOverflow, RefreshFlush
<1>3. ASSUME NEW ok \in BOOLEAN, SubmitDirect(ok) PROVE QueueOrder'
  <2>1. Len(q) = 0
    BY <1>3 DEF SubmitDirect, QueueOrder
  <2> QED
    BY <1>3, <2>1, EmptyQueueInOrder DEF SubmitDirect
<1>4. CASE WaitForFrame
  <2>1. UNCHANGED startFrameNumber
    BY <1>4, QuietSteps
  <2>0. ~directSubmit'
    BY <1>s, <1>4 DEF WaitForFrame
  <2>2. CASE WaitStatus(decodeUnitQueue) = LBQ_SUCCESS
    <3>1. /\ q # <<>> /\ decodeUnitQueue'.items = Tail(q) /\ decFrame' = Head(q)
      BY <1>0, <1>4, <2>2, WaitedShape DEF WaitForFrame
    <3>2. /\ Len(q) \in Nat \ {0} /\ Head(q) = q[1] /\ Len(Tail(q)) = Len(q) - 1
          /\ \A i \in 1 .. Len(Tail(q)) : Tail(q)[i] = q[i + 1]
      BY <1>0, <3>1, HeadTailProperties, EmptySeq, LenProperties
    <3>3. \A i \in 1 .. Len(Tail(q)) : i + 1 \in 1 .. Len(q) /\ 1 < i + 1
      BY <3>2
    <3>4. 1 \in 1 .. Len(q)
      BY <3>2
    <3>5. \A i \in 1 .. Len(Tail(q)) : q[1].n < Tail(q)[i].n /\ Tail(q)[i].n < startFrameNumber
      BY <3>2, <3>3, <3>4 DEF QueueOrder
    <3>6. \A i, j \in 1 .. Len(Tail(q)) : i < j => Tail(q)[i].n < Tail(q)[j].n
      <4> SUFFICES ASSUME NEW i \in 1 .. Len(Tail(q)), NEW j \in 1 .. Len(Tail(q)), i < j
                   PROVE Tail(q)[i].n < Tail(q)[j].n
        OBVIOUS
      <4>1. i + 1 \in 1 .. Len(q) /\ j + 1 \in 1 .. Len(q) /\ i + 1 < j + 1
        BY <3>2
      <4> QED
        BY <3>2, <4>1 DEF QueueOrder
    <3> QED
      BY <2>0, <2>1, <3>1, <3>2, <3>5, <3>6 DEF QueueOrder
  <2>3. CASE WaitStatus(decodeUnitQueue) # LBQ_SUCCESS
    <3>1. decodeUnitQueue'.items = q /\ decFrame' = decFrame
      BY <1>0, <1>4, <2>3, WaitedShape DEF WaitForFrame
    <3> QED
      BY <2>0, <2>1, <3>1 DEF QueueOrder
  <2> QED
    BY <2>2, <2>3
<1>5. CASE stopVideoDepacketizer
  <2>1. decodeUnitQueue'.items = q
    BY <1>0, <1>5, ShutDownShape DEF stopVideoDepacketizer
  <2> QED
    BY <1>s, <1>5, <2>1 DEF stopVideoDepacketizer, QueueOrder, decVars, lossVars
<1>6. ASSUME \/ \E f \in Frames : DropOldFrame(f) \/ StartFrame(f) \/ CorruptFrame(f)
             \/ FinishWhileWaiting \/ FinishDropPending \/ FinishFrame \/ QueueOverflow
             \/ \E n \in FrameNumbers : notifyFrameLost(n)
             \/ CompleteFrame \/ RefreshWaitIdr \/ RefreshDropPending \/ RefreshRequest
             \/ ControlThreads \/ UNCHANGED vars
      PROVE UNCHANGED <<decodeUnitQueue, decFrame, startFrameNumber>>
  BY <1>6 DEF DropOldFrame, StartFrame, CorruptFrame, FinishWhileWaiting, FinishDropPending,
       FinishFrame, QueueOverflow, notifyFrameLost, CompleteFrame, RefreshWaitIdr,
       RefreshDropPending, RefreshRequest, ControlThreads, ClearIdrEvent, FlushInvalidations, TakeInvalidation,
       depacketizerVars, vars, lossVars, decVars
<1> QED
  BY <1>s, <1>1, <1>2, <1>3, <1>4, <1>5, <1>6, SameQueueInOrder
  DEF Next, ReceiveThread, DecoderThread, Refresh, settings

(* Frames are queued and decoded once, in the order of their numbers, and lie  *)
(* before the window of the next invalidation (processRtpPayload,              *)
(* reassembleFrame, LiWaitForNextVideoFrame).                                  *)
THEOREM OrderCorrect == Spec => []FramesInOrder
<1>1. Init => TypeInv /\ OrderInv /\ QueueOrder
  BY InitTypes, InitOrder
<1>2. TypeInv /\ OrderInv /\ QueueOrder /\ [Next]_vars => (TypeInv /\ OrderInv /\ QueueOrder)'
  BY NextTypes, NextOrder, NextQueueOrder
<1>3. OrderInv /\ QueueOrder => FramesInOrder
  BY DEF OrderInv, QueueOrder, FramesInOrder
<1> QED
  BY <1>1, <1>2, <1>3, PTL DEF Spec

-------------------------------------------------------------------------------
(* No frame across a loss. *)

(* Nothing is missing at the start. *)
LEMMA InitChain == Init => ChainInv
BY DEF Init, ChainInv, NoReferenceGap, NoWaits, FirstMustBeIdr

(* Every step keeps the chain. *)
LEMMA NextChain == TypeInv /\ OrderInv /\ ChainInv /\ [Next]_vars => ChainInv'
<1> SUFFICES ASSUME TypeInv, OrderInv, ChainInv, [Next]_vars PROVE ChainInv'
  OBVIOUS
<1>s. UNCHANGED <<strictIdrFrameWait, directSubmit, typedHeaders>>
  BY SettingsStay DEF settings
<1> USE <1>s
<1>0. /\ nextFrameNumber \in Nat /\ startFrameNumber \in Nat
      /\ waitingForIdrFrame \in BOOLEAN /\ waitingForRefInvalFrame \in BOOLEAN
      /\ recvPc # "idle" => recvFrame.n \in Nat
  BY FrameFacts DEF TypeInv, LossTypeOK, RecvTypeOK
<1>a. ASSUME NEW w \in BOOLEAN, DropFrameState(w), recvPc' \in {"idle", "overflow"}
      PROVE ChainInv'
  <2>1. ~NoWaits'
    BY <1>a, DropWaits DEF NoWaits
  <2>2. strictIdrFrameWait' => ~waitingForRefInvalFrame'
    BY <1>a DEF DropFrameState, DropWaitsForRfi, IdrNeeded, ChainInv
  <2> QED
    BY <1>a, <2>1, <2>2 DEF ChainInv, NoReferenceGap
<1>1. ASSUME NEW f \in Frames, StartFrame(f) PROVE ChainInv'
  <2>1. f.n \in Nat /\ nextFrameNumber <= f.n
    BY <1>0, <1>1, FrameFacts DEF StartFrame, IsOld
  <2>2. recvPc = "idle" /\ recvPc' = "frame" /\ recvFrame' = f /\ UNCHANGED startFrameNumber
    BY <1>1 DEF StartFrame
  <2>3. strictIdrFrameWait' => ~waitingForRefInvalFrame'
    BY <1>1 DEF StartFrame, DropWaitsForRfi, IdrNeeded, ChainInv
  <2>4. ASSUME typedHeaders \/ strictIdrFrameWait, f.kind = "P", NoWaits' PROVE startFrameNumber = f.n
    <3>1. CASE IsGap(f)
      BY <1>1, <2>4, <3>1 DEF StartFrame, NoWaits, EndsRfiWait, DropWaitsForRfi,
                              DropWaitsForIdr, IdrNeeded, ChainInv
    <3>2. CASE ~IsGap(f)
      <4>1. nextFrameNumber = f.n
        BY <1>0, <2>1, <3>2 DEF IsGap
      <4>2. NoWaits
        BY <1>1, <2>4, <3>2 DEF StartFrame, NoWaits, EndsRfiWait, ChainInv
      <4> QED
        BY <2>2, <2>4, <4>1, <4>2 DEF ChainInv
    <3> QED
      BY <3>1, <3>2
  <2> QED
    BY <2>2, <2>3, <2>4 DEF ChainInv, NoReferenceGap
<1>2. ASSUME NEW f \in Frames, CorruptFrame(f) PROVE ChainInv'
  BY <1>0, <1>2, <1>a DEF CorruptFrame
<1>3. CASE FinishWhileWaiting
  BY <1>0, <1>3, <1>a DEF FinishWhileWaiting
<1>4. CASE FinishDropPending
  BY <1>0, <1>4, <1>a DEF FinishDropPending
<1>5. CASE FinishFrame
  <2>1. /\ recvPc = "frame" /\ recvPc' = "queue" /\ NoWaits
        /\ UNCHANGED <<recvFrame, startFrameNumber, waitingForIdrFrame, waitingForRefInvalFrame>>
    BY <1>5 DEF FinishFrame, NoWaits
  <2> QED
    BY <2>1 DEF ChainInv, NoReferenceGap
<1>6. CASE QueueFrame
  <2>1. /\ recvPc' = "idle" /\ startFrameNumber' = nextFrameNumber
        /\ UNCHANGED <<nextFrameNumber, waitingForRefInvalFrame>>
    BY <1>6 DEF QueueFrame
  <2> QED
    BY <2>1 DEF ChainInv, NoReferenceGap
<1>7. CASE QueueOverflow
  BY <1>7, <1>a DEF QueueOverflow
<1>12. CASE FlushOverflow
  <2>1. /\ recvPc' = "idle" /\ waitingForIdrFrame'
        /\ UNCHANGED <<startFrameNumber, nextFrameNumber, waitingForRefInvalFrame>>
    BY <1>12 DEF FlushOverflow, OrderInv, lossVars
  <2> QED
    BY <2>1 DEF ChainInv, NoReferenceGap, NoWaits
<1>8. ASSUME NEW ok \in BOOLEAN, SubmitDirect(ok) PROVE ChainInv'
  <2>1. /\ recvPc' = "idle" /\ startFrameNumber' = nextFrameNumber
        /\ UNCHANGED <<nextFrameNumber, waitingForRefInvalFrame>>
    BY <1>8 DEF SubmitDirect
  <2> QED
    BY <2>1 DEF ChainInv, NoReferenceGap
<1>9. ASSUME NEW n \in FrameNumbers, notifyFrameLost(n) PROVE ChainInv'
  <2>1. recvPc' = "idle"
    BY <1>9 DEF notifyFrameLost, recvVars
  <2> QED
    BY <1>0, <1>9, <1>a, <2>1 DEF notifyFrameLost
<1>10. CASE RefreshWaitIdr
  <2>1. /\ waitingForIdrFrame' = TRUE
        /\ UNCHANGED <<recvPc, recvFrame, startFrameNumber, nextFrameNumber, waitingForRefInvalFrame>>
    BY <1>10 DEF RefreshWaitIdr, lossVars, recvVars
  <2> QED
    BY <2>1 DEF ChainInv, NoReferenceGap, NoWaits
<1>11. ASSUME UNCHANGED <<nextFrameNumber, startFrameNumber, waitingForIdrFrame,
                         waitingForRefInvalFrame, recvPc, recvFrame>>
       PROVE ChainInv'
  BY <1>11 DEF ChainInv, NoReferenceGap, NoWaits
<1> QED
  BY <1>1, <1>2, <1>3, <1>4, <1>5, <1>6, <1>7, <1>8, <1>9, <1>10, <1>11, <1>12,
     NextSplit, QuietSteps

(* A P-frame is queued only right after the frame it follows, however frames   *)
(* are lost, dropped, found corrupt or refused by the decoder.                 *)
THEOREM GapsAreClosed == Spec => []NoReferenceGap
<1>1. Init => TypeInv /\ OrderInv /\ QueueOrder /\ ChainInv
  BY InitTypes, InitOrder, InitChain
<1>2. TypeInv /\ OrderInv /\ QueueOrder /\ ChainInv /\ [Next]_vars
        => (TypeInv /\ OrderInv /\ QueueOrder /\ ChainInv)'
  BY NextTypes, NextOrder, NextQueueOrder, NextChain
<1>3. ChainInv => NoReferenceGap
  BY DEF ChainInv
<1> QED
  BY <1>1, <1>2, <1>3, PTL DEF Spec

-------------------------------------------------------------------------------
(* The ranges to be invalidated. *)

RangesInOrder(t, limit) ==
  /\ \A i \in 1 .. Len(t) : t[i][1] <= t[i][2] /\ t[i][2] < limit
  /\ \A i, j \in 1 .. Len(t) : i < j => t[i][2] <= t[j][2]

(* The order of the ranges, as a predicate of the queue. *)
LEMMA RangesInOrderIsInvariant ==
  InvalidationsInOrder <=> RangesInOrder(invalidReferenceFrameTuples.items, nextFrameNumber)
BY DEF InvalidationsInOrder, RangesInOrder

(* No ranges are in order. *)
LEMMA EmptyInOrder ==
  ASSUME NEW t, Len(t) = 0, NEW limit
  PROVE  RangesInOrder(t, limit)
BY DEF RangesInOrder

(* They stay so when the next frame number goes up. *)
LEMMA LaterLimit ==
  ASSUME NEW t \in Seq(Ranges), NEW limit \in Nat, NEW later \in Nat, limit <= later,
         RangesInOrder(t, limit)
  PROVE  RangesInOrder(t, later)
<1>1. \A i \in 1 .. Len(t) : t[i] \in Ranges
  BY ElementOfSeq
<1>2. \A i \in 1 .. Len(t) : t[i][1] \in Nat /\ t[i][2] \in Nat
  BY <1>1 DEF Ranges
<1> QED
  BY <1>2 DEF RangesInOrder

(* A range after the last one keeps the order. *)
LEMMA AppendInOrder ==
  ASSUME NEW t \in Seq(Ranges), NEW first \in Nat, NEW last \in Nat, first <= last,
         RangesInOrder(t, last + 1)
  PROVE  RangesInOrder(Append(t, <<first, last>>), last + 1)
<1> DEFINE r == Append(t, <<first, last>>)
<1>1. \A i \in 1 .. Len(t) : t[i] \in Ranges
  BY ElementOfSeq
<1>2. \A i \in 1 .. Len(t) : t[i][1] \in Nat /\ t[i][2] \in Nat
  BY <1>1 DEF Ranges
<1>3. /\ Len(t) \in Nat /\ Len(r) = Len(t) + 1 /\ r[Len(t) + 1] = <<first, last>>
      /\ \A i \in 1 .. Len(t) : r[i] = t[i]
  BY AppendProperties, LenProperties DEF Ranges
<1>4. \A i \in 1 .. Len(r) : i \in 1 .. Len(t) \/ i = Len(t) + 1
  BY <1>3
<1>5. \A i \in 1 .. Len(r) : r[i][1] <= r[i][2] /\ r[i][2] < last + 1
  BY <1>2, <1>3, <1>4 DEF RangesInOrder
<1>6. \A i, j \in 1 .. Len(r) : i < j => r[i][2] <= r[j][2]
  <2> SUFFICES ASSUME NEW i \in 1 .. Len(r), NEW j \in 1 .. Len(r), i < j
               PROVE r[i][2] <= r[j][2]
    OBVIOUS
  <2>1. i \in 1 .. Len(t)
    BY <1>3
  <2>2. CASE j \in 1 .. Len(t)
    BY <1>3, <2>1, <2>2 DEF RangesInOrder
  <2>3. CASE j = Len(t) + 1
    <3>1. t[i][2] < last + 1 /\ t[i][2] \in Nat
      BY <1>2, <2>1 DEF RangesInOrder
    <3> QED
      BY <1>3, <2>1, <2>3, <3>1
  <2> QED
    BY <1>4, <2>2, <2>3
<1> HIDE DEF r
<1> QED
  BY <1>5, <1>6 DEF RangesInOrder, r

(* So does taking the first. *)
LEMMA TailInOrder ==
  ASSUME NEW t \in Seq(Ranges), t # <<>>, NEW limit \in Nat, RangesInOrder(t, limit)
  PROVE  RangesInOrder(Tail(t), limit)
<1>1. /\ Len(t) \in Nat \ {0} /\ Len(Tail(t)) = Len(t) - 1
      /\ \A i \in 1 .. Len(Tail(t)) : Tail(t)[i] = t[i + 1]
  BY HeadTailProperties, EmptySeq, LenProperties
<1>2. \A i \in 1 .. Len(Tail(t)) : i + 1 \in 1 .. Len(t)
  BY <1>1
<1>3. \A i, j \in 1 .. Len(Tail(t)) : i < j => i + 1 < j + 1
  BY <1>1
<1> QED
  BY <1>1, <1>2, <1>3 DEF RangesInOrder

(* What a request leaves in the queue of ranges. *)
LEMMA IdrRequestInOrder ==
  ASSUME CtlTypeOK, LiRequestIdrFrame
  PROVE  InvalidationsInOrder'
<1>1. Len(invalidReferenceFrameTuples'.items) = 0
  BY FlushedShape DEF CtlTypeOK, LiRequestIdrFrame
<1> QED
  BY <1>1 DEF InvalidationsInOrder

(* Requesting an invalidation keeps the order. *)
LEMMA InvalidationInOrder ==
  ASSUME CtlTypeOK, NEW event, NEW tuples \in QueueOf(Ranges),
         Len(tuples.items) <= RfiBound, NEW first \in Nat, NEW last \in Nat,
         first <= last, RangesInOrder(tuples.items, last + 1),
         nextFrameNumber' \in Nat, last < nextFrameNumber',
         RequestInvalidation(event, tuples, first, last)
  PROVE  InvalidationsInOrder'
<1>1. CASE LiRequestIdrFrame
  BY <1>1, IdrRequestInOrder
<1>2. CASE invalidReferenceFrameTuples' = Offered(tuples, RfiBound, <<first, last>>)
  <2> DEFINE t == invalidReferenceFrameTuples'.items
  <2>1. <<first, last>> \in Ranges /\ RfiBound \in Nat /\ tuples.items \in Seq(Ranges)
    BY BoundsAssumption DEF Ranges, QueueOf
  <2>2. t = tuples.items \/ t = Append(tuples.items, <<first, last>>)
    BY <1>2, <2>1, OfferedShape
  <2>a. Append(tuples.items, <<first, last>>) \in Seq(Ranges)
    BY <2>1, AppendProperties
  <2>3. t \in Seq(Ranges)
    BY <2>1, <2>2, <2>a
  <2>4. RangesInOrder(t, last + 1)
    BY <2>1, <2>2, AppendInOrder
  <2>5. last + 1 \in Nat /\ last + 1 <= nextFrameNumber'
    OBVIOUS
  <2> HIDE DEF t
  <2>6. RangesInOrder(t, nextFrameNumber')
    BY <2>3, <2>4, <2>5, LaterLimit
  <2> QED
    BY <2>6 DEF t, RangesInOrder, InvalidationsInOrder
<1> QED
  BY <1>1, <1>2 DEF RequestInvalidation

(* So does a request after a loss. *)
LEMMA LossRequestInOrder ==
  ASSUME CtlTypeOK, InvalidationsInOrder, NEW first \in Nat, NEW last \in Nat,
         first <= last, nextFrameNumber \in Nat, nextFrameNumber <= last + 1,
         nextFrameNumber' \in Nat, last < nextFrameNumber',
         connectionDetectedFrameLoss(first, last)
  PROVE  InvalidationsInOrder'
<1>1. /\ invalidReferenceFrameTuples \in QueueOf(Ranges)
      /\ invalidReferenceFrameTuples.items \in Seq(Ranges)
      /\ Len(invalidReferenceFrameTuples.items) <= RfiBound
  BY DEF CtlTypeOK, QueueOf
<1>2. last + 1 \in Nat
  OBVIOUS
<1>3. RangesInOrder(invalidReferenceFrameTuples.items, last + 1)
  BY <1>1, <1>2, LaterLimit, RangesInOrderIsInvariant
<1> QED
  BY <1>1, <1>3, InvalidationInOrder DEF connectionDetectedFrameLoss

(* So does no request. *)
LEMMA NoRequestInOrder ==
  ASSUME CtlTypeOK, InvalidationsInOrder, nextFrameNumber \in Nat,
         nextFrameNumber' \in Nat, nextFrameNumber <= nextFrameNumber', NoRequest
  PROVE  InvalidationsInOrder'
<1>1. invalidReferenceFrameTuples.items \in Seq(Ranges)
  BY DEF CtlTypeOK, QueueOf
<1>2. RangesInOrder(invalidReferenceFrameTuples.items, nextFrameNumber')
  BY <1>1, LaterLimit, RangesInOrderIsInvariant
<1> QED
  BY <1>2 DEF NoRequest, ctlVars, RangesInOrder, InvalidationsInOrder

(* The ranges are in order at the start. *)
LEMMA InitRange == Init => RangeInv
<1> SUFFICES ASSUME Init PROVE RangeInv
  OBVIOUS
<1>1. Len(invalidReferenceFrameTuples.items) = 0
  BY NewQueueShape DEF Init
<1>2. InvalidationsInOrder
  BY <1>1 DEF InvalidationsInOrder
<1> QED
  BY <1>2 DEF Init, RangeInv

(* Every step keeps the ranges in order. *)
LEMMA NextRange == TypeInv /\ OrderInv /\ RangeInv /\ [Next]_vars => RangeInv'
<1> SUFFICES ASSUME TypeInv, OrderInv, RangeInv, [Next]_vars PROVE RangeInv'
  OBVIOUS
<1>0. /\ nextFrameNumber \in Nat /\ startFrameNumber \in Nat
      /\ waitingForIdrFrame \in BOOLEAN /\ waitingForRefInvalFrame \in BOOLEAN
      /\ consecutiveFrameDrops \in 0 .. DropLimit - 1
      /\ recvPc # "idle" => recvFrame.n \in Nat
      /\ CtlTypeOK /\ InvalidationsInOrder
      /\ startFrameNumber <= nextFrameNumber
  BY FrameFacts DEF TypeInv, LossTypeOK, RecvTypeOK, RangeInv, OrderInv
<1>a. ASSUME startFrameNumber' < nextFrameNumber', InvalidationsInOrder',
             recvPc' # "queue" \/ ~waitingForRefInvalFrame'
      PROVE RangeInv'
  BY <1>a DEF RangeInv
<1>1. ASSUME NEW f \in Frames, StartFrame(f) PROVE RangeInv'
  <2> DEFINE atLimit == IsGap(f) /\ DropLimitReached
             tuples == IF atLimit THEN Flushed(invalidReferenceFrameTuples)
                       ELSE invalidReferenceFrameTuples
             rfiWait == IF IsGap(f) THEN DropWaitsForRfi(waitingForIdrFrame)
                        ELSE waitingForRefInvalFrame
  <2>1. f.n \in Nat /\ nextFrameNumber <= f.n
    BY <1>0, <1>1, FrameFacts DEF StartFrame, IsOld
  <2>2. nextFrameNumber' = f.n /\ recvPc' = "frame" /\ UNCHANGED startFrameNumber
    BY <1>1 DEF StartFrame
  <2>3. rfiWait => startFrameNumber < f.n
    BY <1>0, <2>1 DEF IsGap, RangeInv
  <2>4. waitingForRefInvalFrame' => rfiWait
    BY <1>1 DEF StartFrame
  <2>5. InvalidationsInOrder'
    <3>1. ASSUME rfiWait, RequestInvalidation(idrFrameRequiredEvent \/ atLimit, tuples, startFrameNumber, f.n - 1)
          PROVE InvalidationsInOrder'
      <4>1. /\ tuples \in QueueOf(Ranges) /\ Len(tuples.items) <= RfiBound
            /\ tuples.items \in Seq(Ranges)
        BY <1>0, FlushedShape, BoundsAssumption DEF CtlTypeOK, QueueOf
      <4>2. /\ f.n - 1 \in Nat /\ startFrameNumber <= f.n - 1
            /\ (f.n - 1) + 1 = f.n /\ f.n - 1 < nextFrameNumber'
        BY <1>0, <2>1, <2>2, <2>3, <3>1
      <4>3. RangesInOrder(tuples.items, f.n)
        <5>1. CASE atLimit
          BY <1>0, <5>1, FlushedShape, EmptyInOrder DEF CtlTypeOK
        <5>2. CASE ~atLimit
          BY <1>0, <2>1, <4>1, <5>2, LaterLimit, RangesInOrderIsInvariant
        <5> QED
          BY <5>1, <5>2
      <4> HIDE DEF tuples, atLimit
      <4> QED
        BY <1>0, <2>1, <2>2, <3>1, <4>1, <4>2, <4>3, InvalidationInOrder
    <3>2. CASE LiRequestIdrFrame
      BY <1>0, <3>2, IdrRequestInOrder
    <3>3. CASE NoRequest
      BY <1>0, <2>1, <2>2, <3>3, NoRequestInOrder
    <3> QED
      BY <1>1, <3>1, <3>2, <3>3 DEF StartFrame
  <2> HIDE DEF rfiWait
  <2> QED
    BY <2>2, <2>3, <2>4, <2>5 DEF RangeInv
<1>2. ASSUME NEW f \in Frames, CorruptFrame(f) PROVE RangeInv'
  <2>1. f.n \in Nat /\ nextFrameNumber <= f.n
    BY <1>0, <1>2, FrameFacts DEF CorruptFrame, IsOld, OrderInv
  <2>2. nextFrameNumber' = f.n + 1 /\ UNCHANGED startFrameNumber /\ recvPc' = "idle"
    BY <1>2 DEF CorruptFrame
  <2>3. /\ startFrameNumber <= f.n /\ nextFrameNumber <= f.n + 1 /\ f.n < nextFrameNumber'
        /\ nextFrameNumber' \in Nat
    BY <1>0, <2>1, <2>2
  <2>4. LiRequestIdrFrame \/ connectionDetectedFrameLoss(startFrameNumber, f.n)
    BY <1>2 DEF CorruptFrame, RequestForLoss
  <2>5. InvalidationsInOrder'
    BY <1>0, <2>1, <2>3, <2>4, IdrRequestInOrder, LossRequestInOrder
  <2>6. startFrameNumber' < nextFrameNumber'
    BY <1>0, <2>1, <2>2
  <2> QED
    BY <2>2, <2>5, <2>6, <1>a
<1>3. CASE FinishWhileWaiting \/ FinishDropPending
  <2>1. /\ recvPc = "frame" /\ nextFrameNumber' = recvFrame.n + 1 /\ UNCHANGED startFrameNumber
        /\ recvPc' = "idle"
    BY <1>3 DEF FinishWhileWaiting, FinishDropPending
  <2>2. /\ recvFrame.n \in Nat /\ nextFrameNumber = recvFrame.n
        /\ startFrameNumber <= recvFrame.n /\ nextFrameNumber <= recvFrame.n + 1
        /\ recvFrame.n < nextFrameNumber' /\ nextFrameNumber' \in Nat
        /\ nextFrameNumber <= nextFrameNumber'
    BY <1>0, <2>1 DEF OrderInv
  <2>3. LiRequestIdrFrame \/ NoRequest \/ connectionDetectedFrameLoss(startFrameNumber, recvFrame.n)
    BY <1>3 DEF FinishWhileWaiting, FinishDropPending
  <2>4. InvalidationsInOrder'
    BY <1>0, <2>2, <2>3, IdrRequestInOrder, NoRequestInOrder, LossRequestInOrder
  <2>5. startFrameNumber' < nextFrameNumber'
    BY <1>0, <2>1, <2>2
  <2> QED
    BY <2>1, <2>4, <2>5, <1>a
<1>4. CASE FinishFrame
  <2>1. /\ recvPc = "frame" /\ recvPc' = "queue" /\ nextFrameNumber' = recvFrame.n + 1
        /\ UNCHANGED startFrameNumber /\ NoRequest /\ ~waitingForRefInvalFrame'
    BY <1>4 DEF FinishFrame, NoRequest
  <2>2. /\ nextFrameNumber' \in Nat /\ nextFrameNumber <= nextFrameNumber'
        /\ startFrameNumber' < nextFrameNumber'
    BY <1>0, <2>1 DEF OrderInv
  <2> QED
    BY <1>0, <2>1, <2>2, <1>a, NoRequestInOrder
<1>5. CASE QueueFrame
  <2>1. /\ recvPc = "queue" /\ recvPc' = "idle" /\ consecutiveFrameDrops' = 0
        /\ UNCHANGED <<nextFrameNumber, waitingForRefInvalFrame>> /\ NoRequest
    BY <1>5 DEF QueueFrame, NoRequest
  <2>2. InvalidationsInOrder'
    BY <1>0, <2>1, NoRequestInOrder
  <2> QED
    BY <2>1, <2>2 DEF RangeInv
<1>6. CASE QueueOverflow \/ FlushOverflow
  <2>1. /\ recvPc \in {"queue", "overflow"} /\ recvPc' \in {"overflow", "idle"}
        /\ LiRequestIdrFrame \/ NoRequest
        /\ UNCHANGED <<nextFrameNumber, startFrameNumber>>
    BY <1>6 DEF QueueOverflow, FlushOverflow, lossVars
  <2>2. InvalidationsInOrder'
    BY <1>0, <2>1, IdrRequestInOrder, NoRequestInOrder
  <2>3. startFrameNumber' < nextFrameNumber'
    BY <1>0, <2>1 DEF OrderInv
  <2> QED
    BY <2>1, <2>2, <2>3, <1>a
<1>7. ASSUME NEW ok \in BOOLEAN, SubmitDirect(ok) PROVE RangeInv'
  <2>1. /\ recvPc = "queue" /\ recvPc' = "idle" /\ consecutiveFrameDrops' = 0
        /\ UNCHANGED <<nextFrameNumber, waitingForRefInvalFrame>>
        /\ NoRequest \/ LiRequestIdrFrame
    BY <1>7 DEF SubmitDirect
  <2>2. InvalidationsInOrder'
    BY <1>0, <2>1, NoRequestInOrder, IdrRequestInOrder
  <2> QED
    BY <2>1, <2>2 DEF RangeInv
<1>8. ASSUME NEW n \in FrameNumbers, MayBeLost(n), notifyFrameLost(n) PROVE RangeInv'
  <2>1. /\ n \in Nat /\ startFrameNumber <= n /\ nextFrameNumber <= n + 1
        /\ startFrameNumber < n + 1 /\ n < n + 1 /\ n + 1 \in Nat
    BY <1>0, <1>8, FrameNumbersAssumption DEF MayBeLost
  <2>2. recvPc = "idle" /\ recvPc' = "idle" /\ UNCHANGED startFrameNumber
    BY <1>8 DEF notifyFrameLost, recvVars
  <2>3. CASE ~waitingForIdrFrame'
    <3>1. nextFrameNumber' = n + 1 /\ connectionDetectedFrameLoss(startFrameNumber, n)
      BY <1>8, <2>3 DEF notifyFrameLost, NoLongerExpects
    <3>2. InvalidationsInOrder'
      BY <1>0, <2>1, <3>1, LossRequestInOrder
    <3> QED
      BY <2>1, <2>2, <3>1, <3>2, <1>a
  <2>4. CASE waitingForIdrFrame'
    <3>1. UNCHANGED nextFrameNumber /\ (LiRequestIdrFrame \/ NoRequest)
      BY <1>8, <2>4 DEF notifyFrameLost
    <3>2. InvalidationsInOrder'
      BY <1>0, <3>1, IdrRequestInOrder, NoRequestInOrder
    <3>3. waitingForRefInvalFrame' => startFrameNumber < nextFrameNumber
      <4>1. CASE IdrNeeded(waitingForIdrFrame)
        BY <1>8, <4>1 DEF notifyFrameLost, DropFrameState, DropWaitsForRfi, RangeInv
      <4>2. CASE ~IdrNeeded(waitingForIdrFrame)
        <5>1. DropLimitReached /\ ~waitingForIdrFrame
          BY <1>8, <2>4, <4>2 DEF notifyFrameLost, DropFrameState, DropWaitsForIdr, IdrNeeded
        <5>2. consecutiveFrameDrops > 0
          BY <1>0, <5>1, BoundsAssumption DEF DropLimitReached
        <5> QED
          BY <2>2, <5>1, <5>2 DEF RangeInv
      <4> QED
        BY <4>1, <4>2
    <3> QED
      BY <2>2, <2>4, <3>1, <3>2, <3>3 DEF RangeInv
  <2> QED
    BY <2>3, <2>4
<1>9. CASE RefreshWaitIdr
  <2>1. /\ waitingForIdrFrame' = TRUE /\ NoRequest
        /\ UNCHANGED <<recvPc, startFrameNumber, nextFrameNumber, waitingForRefInvalFrame>>
    BY <1>9 DEF RefreshWaitIdr, lossVars, recvVars, NoRequest
  <2>2. InvalidationsInOrder'
    BY <1>0, <2>1, NoRequestInOrder
  <2> QED
    BY <2>1, <2>2 DEF RangeInv
<1>10. ASSUME UNCHANGED <<nextFrameNumber, startFrameNumber, waitingForIdrFrame,
                         waitingForRefInvalFrame, consecutiveFrameDrops, recvPc>>,
              InvalidationsInOrder'
       PROVE RangeInv'
  BY <1>10 DEF RangeInv
<1>11. CASE RefreshRequest
  BY <1>0, <1>10, <1>11, QuietSteps, IdrRequestInOrder DEF RefreshRequest
<1>12. CASE FlushInvalidations
  <2>1. Len(invalidReferenceFrameTuples'.items) = 0
    BY <1>0, <1>12, FlushedShape DEF FlushInvalidations, CtlTypeOK
  <2>2. InvalidationsInOrder'
    BY <2>1 DEF InvalidationsInOrder
  <2> QED
    BY <1>10, <1>12, <2>2, QuietSteps
<1>13. CASE TakeInvalidation
  <2>1. /\ invalidReferenceFrameTuples.items \in Seq(Ranges)
        /\ invalidReferenceFrameTuples.items # <<>>
        /\ invalidReferenceFrameTuples'.items = Tail(invalidReferenceFrameTuples.items)
    BY <1>0, <1>13, PolledShape DEF TakeInvalidation, CtlTypeOK, QueueOf
  <2>2. RangesInOrder(invalidReferenceFrameTuples'.items, nextFrameNumber)
    BY <1>0, <2>1, TailInOrder, RangesInOrderIsInvariant
  <2>3. UNCHANGED nextFrameNumber
    BY <1>13, QuietSteps
  <2>4. InvalidationsInOrder'
    BY <2>2, <2>3 DEF RangesInOrder, InvalidationsInOrder
  <2> QED
    BY <1>10, <1>13, <2>4, QuietSteps
<1>14. CASE \/ \E f \in Frames : DropOldFrame(f)
            \/ WaitForFrame \/ CompleteFrame \/ RefreshFlush \/ RefreshDropPending
            \/ ClearIdrEvent \/ stopVideoDepacketizer \/ UNCHANGED vars
  <2>1. /\ UNCHANGED <<nextFrameNumber, startFrameNumber, waitingForIdrFrame,
                       waitingForRefInvalFrame, consecutiveFrameDrops, recvPc>>
        /\ UNCHANGED invalidReferenceFrameTuples
    BY <1>14, QuietSteps DEF DropOldFrame, WaitForFrame, CompleteFrame, RefreshFlush,
       RefreshDropPending, ClearIdrEvent, stopVideoDepacketizer, vars, ctlVars
  <2>2. InvalidationsInOrder'
    BY <1>0, <2>1 DEF InvalidationsInOrder
  <2> QED
    BY <1>10, <2>1, <2>2
<1> QED
  BY <1>1, <1>2, <1>3, <1>4, <1>5, <1>6, <1>7, <1>8, <1>9, <1>11, <1>12, <1>13, <1>14, NextSplit

(* The inductive invariant. *)
LEMMA InitIInv == Init => IInv
BY InitTypes, InitOrder, InitSuccess, InitChain, InitRange DEF IInv

(* Every step keeps the invariant. *)
LEMMA NextIInv == IInv /\ [Next]_vars => IInv'
BY NextTypes, NextOrder, NextQueueOrder, NextSuccess, NextChain, NextRange DEF IInv

(* The assertions of queueFrameInvalidationTuple and invalidateRefFramesFunc   *)
(* cannot fail: no range is empty and none ends before one queued earlier.     *)
THEOREM InvalidationsCorrect == Spec => []InvalidationsInOrder
<1>1. IInv => InvalidationsInOrder
  BY DEF IInv, RangeInv
<1> QED
  BY <1>1, InitIInv, NextIInv, PTL DEF Spec

-------------------------------------------------------------------------------
(* What the decoder is given.  As long as the decoder asked for no refresh,    *)
(* and always when it is the receive thread, the frames it gets form a line    *)
(* with those in the queue and the one in hand.                                *)

(* The decoder thread asked for no refresh and is not about to. *)
Smooth == ~directSubmit /\ refresh = "never" /\ decPc \in {"wait", "submit"}

(* The next frame that is reassembled is an IDR frame. *)
NextIsIdr ==
  IF recvPc = "queue" THEN recvFrame.kind = "I"
  ELSE waitingForIdrFrame \/ (recvPc = "frame" /\ recvFrame.kind = "I")

(* The queue takes no more frames. *)
Stopped(q) == q.shutdown \/ q.draining

(* Before the decoder was given an IDR frame, the first frame on the way to it *)
(* is one.                                                                     *)
IdrIsFirst ==
  LET q == decodeUnitQueue.items IN
  /\ decPc = "submit" => decFrame.kind = "I"
  /\ decPc = "wait" /\ q = <<>> => Stopped(decodeUnitQueue) \/ NextIsIdr
  /\ decPc = "wait" /\ q # <<>> => q[1].kind = "I"
IdrInv ==
  /\ directSubmit => decPc = "wait" /\ (~idrFrameProcessed => NextIsIdr)
  /\ Smooth /\ ~idrFrameProcessed => IdrIsFirst

(* A decoder that is the receive thread and asked for a refresh, when frames   *)
(* do not turn out corrupt after their first packet.                           *)
RefreshInv ==
  directSubmit /\ ~CorruptFrames =>
    /\ refresh = "due" => NextIsIdr
    /\ recvPc = "frame" /\ recvFrame.kind = "I" => ~waitingForRefInvalFrame

(* The steps of the receive thread up to the reassembly of a frame. *)
Prepares ==
  \/ \E f \in Frames : StartFrame(f) \/ CorruptFrame(f)
  \/ FinishWhileWaiting \/ FinishDropPending \/ FinishFrame
  \/ \E n \in FrameNumbers : MayBeLost(n) /\ notifyFrameLost(n)

(* The steps that leave the receive thread, its waits and the decoder alone. *)
Bystands ==
  \/ \E f \in Frames : DropOldFrame(f)
  \/ ControlThreads \/ UNCHANGED vars

(* Those steps leave the decoder and its queue alone. *)
LEMMA PreparesAlone ==
  ASSUME Prepares
  PROVE  UNCHANGED <<decodeUnitQueue, decPc, decFrame, refresh, idrFrameProcessed>>
BY DEF Prepares, StartFrame, CorruptFrame, FinishWhileWaiting, FinishDropPending, FinishFrame,
       notifyFrameLost, decVars

(* Nor do the others change anything of the depacketizer. *)
LEMMA BystandsAlone ==
  ASSUME Bystands
  PROVE  UNCHANGED <<depacketizerVars>>
BY DEF Bystands, DropOldFrame, ControlThreads, ClearIdrEvent, FlushInvalidations,
       TakeInvalidation, depacketizerVars, vars

(* Every step is one of these, or of the decoder, or of one of the queue. *)
LEMMA NextParts ==
  ASSUME [Next]_vars
  PROVE  \/ Prepares \/ Bystands \/ QueueFrame \/ QueueOverflow \/ FlushOverflow
         \/ \E ok \in BOOLEAN : SubmitDirect(ok)
         \/ WaitForFrame \/ CompleteFrame \/ Refresh \/ stopVideoDepacketizer
BY DEF Next, ReceiveThread, DecoderThread, Prepares, Bystands

(* A frame that is lost or dropped leaves the wait for an IDR frame, and starts *)
(* it while none was decoded.                                                   *)
LEMMA DropKeepsIdrWait ==
  ASSUME DropFrameState(waitingForIdrFrame), waitingForIdrFrame \/ ~idrFrameProcessed
  PROVE  waitingForIdrFrame'
BY DEF DropFrameState, DropWaitsForIdr, IdrNeeded

(* An IDR frame that is next stays so until it is reassembled, unless one was   *)
(* decoded before and the next one proves corrupt.                              *)
LEMMA IdrStaysNext ==
  ASSUME TypeInv, NextIsIdr, Prepares,
         \/ ~idrFrameProcessed
         \/ /\ ~CorruptFrames
            /\ recvPc = "frame" /\ recvFrame.kind = "I" => ~waitingForRefInvalFrame
  PROVE  NextIsIdr'
<1>1. ASSUME NEW f \in Frames, StartFrame(f) PROVE NextIsIdr'
  <2>1. recvPc = "idle" /\ recvPc' = "frame" /\ recvFrame' = f
    BY <1>1 DEF StartFrame
  <2>2. waitingForIdrFrame
    BY <2>1 DEF NextIsIdr
  <2>3. waitingForIdrFrame' <=> f.kind # "I"
    BY <1>1, <2>2 DEF StartFrame, DropWaitsForIdr, IdrNeeded
  <2> QED
    BY <2>1, <2>3 DEF NextIsIdr
<1>2. ASSUME DropFrameState(waitingForIdrFrame), recvPc' = "idle",
             waitingForIdrFrame \/ ~idrFrameProcessed
      PROVE  NextIsIdr'
  BY <1>2, DropKeepsIdrWait DEF NextIsIdr
<1>3. ASSUME NEW f \in Frames, CorruptFrame(f) PROVE NextIsIdr'
  <2>1. recvPc = "idle" \/ CorruptFrames
    BY <1>3 DEF CorruptFrame
  <2> QED
    BY <1>2, <1>3, <2>1 DEF CorruptFrame, NextIsIdr
<1>4. CASE FinishWhileWaiting
  BY <1>2, <1>4 DEF FinishWhileWaiting, NextIsIdr
<1>5. CASE FinishDropPending
  BY <1>5 DEF FinishDropPending, NextIsIdr
<1>6. CASE FinishFrame
  BY <1>6 DEF FinishFrame, NextIsIdr
<1>7. ASSUME NEW n \in FrameNumbers, notifyFrameLost(n) PROVE NextIsIdr'
  <2>1. recvPc = "idle" /\ recvPc' = "idle" /\ DropFrameState(waitingForIdrFrame)
    BY <1>7 DEF notifyFrameLost, recvVars
  <2> QED
    BY <1>2, <2>1 DEF NextIsIdr
<1> QED
  BY <1>1, <1>3, <1>4, <1>5, <1>6, <1>7 DEF Prepares

(* Who is smooth now was so before. *)
LEMMA SmoothBefore ==
  ASSUME DecTypeOK, [Next]_vars, Smooth'
  PROVE  Smooth
<1>s. UNCHANGED <<strictIdrFrameWait, directSubmit, typedHeaders>>
  BY SettingsStay DEF settings
<1>1. CASE Prepares
  BY <1>s, <1>1, PreparesAlone DEF Smooth
<1>2. CASE Bystands \/ QueueFrame \/ QueueOverflow \/ FlushOverflow \/ stopVideoDepacketizer
  <2>1. UNCHANGED <<decPc, refresh>>
    BY <1>2, BystandsAlone
       DEF QueueFrame, QueueOverflow, FlushOverflow, stopVideoDepacketizer, depacketizerVars,
           decVars
  <2> QED
    BY <1>s, <2>1 DEF Smooth
<1>3. ASSUME NEW ok \in BOOLEAN, SubmitDirect(ok) PROVE Smooth
  BY <1>s, <1>3 DEF SubmitDirect, Smooth
<1>4. CASE WaitForFrame \/ CompleteFrame
  BY <1>s, <1>4 DEF WaitForFrame, CompleteFrame, Answered, Smooth, DecTypeOK
<1>5. CASE Refresh
  BY <1>5 DEF Refresh, RefreshWaitIdr, RefreshFlush, RefreshDropPending, RefreshRequest, Smooth
<1> QED
  BY <1>1, <1>2, <1>3, <1>4, <1>5, NextParts

(* The frames in the queue after an offer, and after a wait that got one. *)
LEMMA OfferedItems ==
  ASSUME TypeInv, QueueFrame
  PROVE  /\ Stopped(decodeUnitQueue) => decodeUnitQueue' = decodeUnitQueue
         /\ ~Stopped(decodeUnitQueue)
              => decodeUnitQueue'.items = Append(decodeUnitQueue.items, recvFrame)
         /\ decodeUnitQueue.items \in Seq(Frames) /\ recvFrame \in Frames
<1>1. decodeUnitQueue \in QueueOf(Frames) /\ recvFrame \in Frames
  BY DEF TypeInv, DecTypeOK, RecvTypeOK, QueueFrame
<1>2. decodeUnitQueue' = Offered(decodeUnitQueue, QueueBound, recvFrame)
      /\ OfferStatus(decodeUnitQueue, QueueBound) # LBQ_BOUND_EXCEEDED
  BY DEF QueueFrame
<1>3. CASE Stopped(decodeUnitQueue)
  BY <1>1, <1>2, <1>3 DEF Stopped, Offered, OfferStatus, LBQ_INTERRUPTED, LBQ_SUCCESS, QueueOf
<1>4. CASE ~Stopped(decodeUnitQueue)
  <2>1. OfferStatus(decodeUnitQueue, QueueBound) = LBQ_SUCCESS
    BY <1>2, <1>4 DEF Stopped, OfferStatus
  <2>2. decodeUnitQueue' = [decodeUnitQueue EXCEPT !.items = Append(@, recvFrame), !.used = TRUE]
    BY <1>2, <2>1 DEF Offered, Link
  <2> QED
    BY <1>1, <1>4, <2>2 DEF QueueOf
<1> QED
  BY <1>1, <1>3, <1>4 DEF QueueOf

(* The frame a wait takes is the first one. *)
LEMMA TakenItems ==
  ASSUME TypeInv, WaitForFrame
  PROVE  LET q == decodeUnitQueue.items IN
         \/ /\ decPc' = "submit" /\ q \in Seq(Frames) /\ q # <<>> /\ decFrame' = q[1]
            /\ decodeUnitQueue'.items = Tail(q)
         \/ decPc' = "done" /\ decFrame' = decFrame /\ decodeUnitQueue'.items = q
<1>1. decodeUnitQueue \in QueueOf(Frames) /\ decodeUnitQueue.items \in Seq(Frames)
  BY DEF TypeInv, DecTypeOK, QueueOf
<1>2. ~WaitBlocks(decodeUnitQueue) /\ decodeUnitQueue' = Waited(decodeUnitQueue)
  BY DEF WaitForFrame
<1>3. CASE WaitStatus(decodeUnitQueue) = LBQ_SUCCESS
  <2>1. decodeUnitQueue.items # <<>> /\ decodeUnitQueue'.items = Tail(decodeUnitQueue.items)
    BY <1>1, <1>2, <1>3, WaitedShape
  <2>2. decPc' = "submit" /\ decFrame' = Head(decodeUnitQueue.items)
    BY <1>3 DEF WaitForFrame
  <2> QED
    BY <1>1, <2>1, <2>2
<1>4. CASE WaitStatus(decodeUnitQueue) # LBQ_SUCCESS
  BY <1>1, <1>2, <1>4, WaitedShape DEF WaitForFrame
<1> QED
  BY <1>3, <1>4

(* At the start no frame was decoded and an IDR frame is waited for. *)
LEMMA InitIdr == Init => IdrInv /\ RefreshInv
<1> SUFFICES ASSUME Init PROVE IdrInv /\ RefreshInv
  OBVIOUS
<1>1. NextIsIdr /\ decPc = "wait" /\ decodeUnitQueue.items = <<>>
  BY NewQueueShape DEF Init, NextIsIdr, FirstMustBeIdr
<1> QED
  BY <1>1 DEF Init, IdrInv, IdrIsFirst, RefreshInv

(* The first frame on the way stays an IDR frame until it is decoded. *)
LEMMA NextIdr == TypeInv /\ OrderInv /\ QueueOrder /\ IdrInv /\ [Next]_vars => IdrInv'
<1> SUFFICES ASSUME TypeInv, OrderInv, QueueOrder, IdrInv, [Next]_vars PROVE IdrInv'
  OBVIOUS
<1> DEFINE q == decodeUnitQueue.items
<1>s. directSubmit' = directSubmit
  BY SettingsStay DEF settings
<1>0. Smooth' => Smooth
  BY SmoothBefore DEF TypeInv
<1>1. CASE Prepares
  <2>1. UNCHANGED <<decodeUnitQueue, decPc, decFrame, idrFrameProcessed>>
    BY <1>1, PreparesAlone
  <2>2. NextIsIdr /\ ~idrFrameProcessed => NextIsIdr'
    BY <1>1, IdrStaysNext
  <2> QED
    BY <1>s, <1>0, <2>1, <2>2 DEF IdrInv, IdrIsFirst, Stopped
<1>2. CASE Bystands
  <2>1. UNCHANGED <<recvPc, recvFrame, waitingForIdrFrame, decodeUnitQueue, decPc, decFrame,
                    idrFrameProcessed>>
    BY <1>2, BystandsAlone DEF depacketizerVars, recvVars, decVars
  <2>2. NextIsIdr' <=> NextIsIdr
    BY <2>1 DEF NextIsIdr
  <2> QED
    BY <1>s, <1>0, <2>1, <2>2 DEF IdrInv, IdrIsFirst, Stopped
<1>3. CASE QueueFrame
  <2>1. /\ UNCHANGED <<decPc, decFrame, idrFrameProcessed>>
        /\ ~directSubmit /\ recvPc = "queue"
    BY <1>3 DEF QueueFrame, decVars
  <2> SUFFICES ASSUME Smooth, ~idrFrameProcessed PROVE IdrIsFirst'
    BY <1>s, <1>0, <2>1 DEF IdrInv
  <2>2. IdrIsFirst
    BY DEF IdrInv
  <2>3. CASE Stopped(decodeUnitQueue)
    BY <1>3, <2>1, <2>2, <2>3, OfferedItems DEF IdrIsFirst
  <2>4. CASE ~Stopped(decodeUnitQueue)
    <3>1. q \in Seq(Frames) /\ decodeUnitQueue'.items = Append(q, recvFrame)
      BY <1>3, <2>4, OfferedItems
    <3>2. /\ Append(q, recvFrame) # <<>>
          /\ Append(q, recvFrame)[1] = IF q = <<>> THEN recvFrame ELSE q[1]
      BY <1>3, <3>1, OfferedItems
    <3>3. decPc = "wait" => (IF q = <<>> THEN recvFrame ELSE q[1]).kind = "I"
      BY <2>1, <2>2, <2>4 DEF IdrIsFirst, NextIsIdr
    <3> QED
      BY <2>1, <2>2, <3>1, <3>2, <3>3 DEF IdrIsFirst
  <2> QED
    BY <2>3, <2>4
<1>4. CASE QueueOverflow
  <2>1. /\ UNCHANGED <<decPc, decFrame, idrFrameProcessed>>
        /\ decodeUnitQueue' = decodeUnitQueue
        /\ ~directSubmit /\ recvPc' = "overflow" /\ waitingForIdrFrame'
    BY <1>4 DEF QueueOverflow, decVars, DropFrameState, DropWaitsForIdr, IdrNeeded
  <2> QED
    BY <1>s, <1>0, <2>1 DEF IdrInv, IdrIsFirst, NextIsIdr, Stopped
<1>10. CASE FlushOverflow
  <2>1. /\ UNCHANGED <<decPc, decFrame, idrFrameProcessed>>
        /\ ~directSubmit /\ recvPc' = "idle" /\ waitingForIdrFrame'
    BY <1>10 DEF FlushOverflow, OrderInv, decVars
  <2>2. decodeUnitQueue'.items = <<>>
    BY <1>10, FlushedShape DEF FlushOverflow, TypeInv, DecTypeOK
  <2> QED
    BY <1>s, <1>0, <2>1, <2>2 DEF IdrInv, IdrIsFirst, NextIsIdr
<1>5. ASSUME NEW ok \in BOOLEAN, SubmitDirect(ok) PROVE IdrInv'
  <2>1. /\ directSubmit /\ decPc' = decPc /\ recvPc = "queue" /\ recvPc' = "idle"
        /\ ok => idrFrameProcessed' = (idrFrameProcessed \/ recvFrame.kind = "I")
        /\ ~ok => waitingForIdrFrame'
    BY <1>5 DEF SubmitDirect, DirectRefresh
  <2>2. ok => idrFrameProcessed'
    BY <2>1 DEF IdrInv, NextIsIdr, TypeInv, LossTypeOK
  <2> QED
    BY <1>s, <1>0, <2>1, <2>2 DEF IdrInv, NextIsIdr, Smooth
<1>6. CASE WaitForFrame
  <2>1. /\ ~directSubmit /\ decPc = "wait"
        /\ UNCHANGED idrFrameProcessed
    BY <1>6 DEF WaitForFrame
  <2>2. \/ decPc' = "submit" /\ q # <<>> /\ decFrame' = q[1]
        \/ decPc' = "done"
    BY <1>6, TakenItems
  <2> QED
    BY <1>s, <1>0, <2>1, <2>2 DEF IdrInv, IdrIsFirst, Smooth
<1>7. CASE CompleteFrame
  <2>1. decPc = "submit" /\ idrFrameProcessed' = (idrFrameProcessed \/ decFrame.kind = "I")
    BY <1>7 DEF CompleteFrame
  <2>2. ~directSubmit
    BY <2>1 DEF IdrInv
  <2>3. Smooth => idrFrameProcessed'
    BY <2>1 DEF IdrInv, IdrIsFirst, TypeInv, LossTypeOK
  <2> QED
    BY <1>s, <1>0, <2>2, <2>3 DEF IdrInv
<1>8. CASE Refresh
  <2>1. decPc # "wait" /\ ~Smooth'
    BY <1>8 DEF Refresh, RefreshWaitIdr, RefreshFlush, RefreshDropPending, RefreshRequest, Smooth
  <2> QED
    BY <1>s, <2>1 DEF IdrInv
<1>9. CASE stopVideoDepacketizer
  <2>1. UNCHANGED <<recvPc, recvFrame, waitingForIdrFrame, decPc, decFrame, idrFrameProcessed>>
    BY <1>9 DEF stopVideoDepacketizer, recvVars, decVars
  <2>2. decodeUnitQueue'.items = q /\ Stopped(decodeUnitQueue)'
    <3>1. decodeUnitQueue \in QueueOf(Frames)
      BY DEF TypeInv, DecTypeOK
    <3> QED
      BY <1>9, <3>1 DEF stopVideoDepacketizer, ShutDown, QueueOf, Stopped
  <2>3. NextIsIdr' <=> NextIsIdr
    BY <2>1 DEF NextIsIdr
  <2> QED
    BY <1>s, <1>0, <2>1, <2>2, <2>3 DEF IdrInv, IdrIsFirst
<1> QED
  BY <1>1, <1>2, <1>3, <1>4, <1>5, <1>6, <1>7, <1>8, <1>9, <1>10, NextParts

(* A refresh that was asked for waits for its IDR frame. *)
LEMMA NextRefresh == TypeInv /\ OrderInv /\ IdrInv /\ RefreshInv /\ [Next]_vars => RefreshInv'
<1> SUFFICES ASSUME TypeInv, OrderInv, IdrInv, RefreshInv, [Next]_vars, directSubmit, ~CorruptFrames
             PROVE  RefreshInv'
  BY SettingsStay DEF RefreshInv, settings
<1>0. decPc = "wait" /\ directSubmit'
  BY SettingsStay DEF IdrInv, settings
<1>1. CASE Prepares
  <2>1. UNCHANGED refresh
    BY <1>1, PreparesAlone
  <2>2. refresh' = "due" => NextIsIdr'
    BY <1>1, <2>1, IdrStaysNext DEF RefreshInv
  <2>3. recvPc' = "frame" /\ recvFrame'.kind = "I" => ~waitingForRefInvalFrame'
    BY <1>1 DEF Prepares, StartFrame, CorruptFrame, FinishWhileWaiting, FinishDropPending,
                FinishFrame, notifyFrameLost, recvVars, RefreshInv
  <2> QED
    BY <2>2, <2>3 DEF RefreshInv
<1>2. CASE Bystands \/ stopVideoDepacketizer
  <2>1. UNCHANGED <<recvPc, recvFrame, waitingForIdrFrame, waitingForRefInvalFrame, refresh>>
    BY <1>2, BystandsAlone
       DEF depacketizerVars, recvVars, decVars, lossVars, stopVideoDepacketizer
  <2> QED
    BY <2>1 DEF RefreshInv, NextIsIdr
<1>3. ASSUME NEW ok \in BOOLEAN, SubmitDirect(ok) PROVE RefreshInv'
  <2>1. /\ recvPc = "queue" /\ recvPc' = "idle"
        /\ ok => refresh' = Answered(recvFrame)
        /\ ~ok => waitingForIdrFrame'
    BY <1>3 DEF SubmitDirect, DirectRefresh
  <2>2. ok => refresh' # "due"
    BY <2>1 DEF Answered, RefreshInv, NextIsIdr
  <2> QED
    BY <2>1, <2>2 DEF RefreshInv, NextIsIdr
<1>4. ~(QueueFrame \/ QueueOverflow \/ FlushOverflow \/ WaitForFrame \/ CompleteFrame \/ Refresh)
  BY <1>0 DEF QueueFrame, QueueOverflow, FlushOverflow, OrderInv, WaitForFrame, CompleteFrame, Refresh, RefreshWaitIdr,
              RefreshFlush, RefreshDropPending, RefreshRequest
<1> QED
  BY <1>1, <1>2, <1>3, <1>4, NextParts

(* The decoder sees no gap: each P-frame follows the frame before it in the    *)
(* line, and the window of the next invalidation starts after the last of them *)
(* unless the frame to come is no P-frame.                                     *)
Follows(f, g) == g.kind = "P" => g.n = f.n + 1

InLine(f, q) ==
  /\ q # <<>> => Follows(f, q[1])
  /\ \A i \in 1 .. Len(q) - 1 : Follows(q[i], q[i + 1])

LastOf(f, q) == IF q = <<>> THEN f ELSE q[Len(q)]

Detached == startFrameNumber < (IF recvPc = "queue" THEN recvFrame.n ELSE nextFrameNumber)

Attached(f) == startFrameNumber = f.n + 1 \/ Detached

LineInv ==
  LET q == decodeUnitQueue.items IN
  typedHeaders \/ strictIdrFrameWait =>
    /\ directSubmit => Attached(decFrame)
    /\ Smooth => /\ InLine(decFrame, q)
                 /\ Stopped(decodeUnitQueue) \/ Attached(LastOf(decFrame, q))

(* A line that grows at its end, and one that its first frame leaves. *)
LEMMA LineGrows ==
  ASSUME NEW f, NEW q \in Seq(Frames), NEW g \in Frames, InLine(f, q), Follows(LastOf(f, q), g)
  PROVE  InLine(f, Append(q, g)) /\ LastOf(f, Append(q, g)) = g
<1> DEFINE r == Append(q, g)
<1>1. /\ Len(q) \in Nat /\ Len(r) = Len(q) + 1 /\ r[Len(q) + 1] = g /\ r # <<>>
      /\ \A i \in 1 .. Len(q) : r[i] = q[i]
      /\ q = <<>> <=> Len(q) = 0
  BY AppendProperties, EmptySeq, LenProperties
<1> HIDE DEF r
<1>2. r[1] = IF q = <<>> THEN g ELSE q[1]
  BY <1>1
<1>3. Follows(f, r[1])
  BY <1>2 DEF InLine, LastOf
<1>4. ASSUME NEW i \in 1 .. Len(r) - 1 PROVE Follows(r[i], r[i + 1])
  <2>1. CASE i = Len(q)
    <3>1. q # <<>> /\ r[i] = q[Len(q)] /\ r[i + 1] = g
      BY <1>1, <2>1
    <3> QED
      BY <3>1 DEF LastOf
  <2>2. CASE i # Len(q)
    <3>1. i \in 1 .. Len(q) - 1
      BY <1>1, <2>2
    <3>2. r[i] = q[i] /\ r[i + 1] = q[i + 1]
      BY <1>1, <3>1
    <3> QED
      BY <3>1, <3>2 DEF InLine
  <2> QED
    BY <2>1, <2>2
<1>5. InLine(f, r) /\ LastOf(f, r) = g
  BY <1>1, <1>3, <1>4 DEF InLine, LastOf
<1> QED
  BY <1>5 DEF r

(* A line without its first frame is one. *)
LEMMA LineShrinks ==
  ASSUME NEW f, NEW q \in Seq(Frames), q # <<>>, InLine(f, q)
  PROVE  InLine(q[1], Tail(q)) /\ LastOf(q[1], Tail(q)) = LastOf(f, q)
<1> DEFINE r == Tail(q)
<1>1. /\ Len(q) \in Nat \ {0} /\ Len(r) = Len(q) - 1 /\ r \in Seq(Frames)
      /\ \A i \in 1 .. Len(r) : r[i] = q[i + 1]
      /\ r = <<>> <=> Len(r) = 0
  BY HeadTailProperties, EmptySeq, LenProperties
<1> HIDE DEF r
<1>2. r # <<>> => Follows(q[1], r[1])
  <2> SUFFICES ASSUME r # <<>> PROVE Follows(q[1], r[1])
    OBVIOUS
  <2>1. 1 \in 1 .. Len(q) - 1 /\ r[1] = q[1 + 1]
    BY <1>1
  <2> QED
    BY <2>1 DEF InLine
<1>3. ASSUME NEW i \in 1 .. Len(r) - 1 PROVE Follows(r[i], r[i + 1])
  <2>1. i + 1 \in 1 .. Len(q) - 1 /\ r[i] = q[i + 1] /\ r[i + 1] = q[(i + 1) + 1]
    BY <1>1
  <2> QED
    BY <2>1 DEF InLine
<1>4. LastOf(q[1], r) = LastOf(f, q)
  <2>1. CASE r = <<>>
    <3>1. Len(q) = 1
      BY <1>1, <2>1
    <3> QED
      BY <2>1, <3>1 DEF LastOf
  <2>2. CASE r # <<>>
    <3>1. Len(r) \in 1 .. Len(r) /\ Len(r) + 1 = Len(q)
      BY <1>1, <2>2
    <3>2. r[Len(r)] = q[Len(q)]
      BY <1>1, <3>1
    <3> QED
      BY <2>2, <3>2 DEF LastOf
  <2> QED
    BY <2>1, <2>2
<1>5. InLine(q[1], r) /\ LastOf(q[1], r) = LastOf(f, q)
  BY <1>2, <1>3, <1>4 DEF InLine
<1> QED
  BY <1>5 DEF r

(* The frames to come are later and later. *)
LEMMA DetachedStays ==
  ASSUME TypeInv, OrderInv, Prepares
  PROVE  startFrameNumber' = startFrameNumber /\ (Detached => Detached')
<1>0. /\ nextFrameNumber \in Nat /\ startFrameNumber \in Nat
      /\ recvPc # "idle" => recvFrame.n \in Nat
      /\ recvPc = "frame" => nextFrameNumber = recvFrame.n
  BY FrameFacts DEF TypeInv, LossTypeOK, RecvTypeOK, OrderInv
<1>1. ASSUME NEW f \in Frames, StartFrame(f) \/ CorruptFrame(f)
      PROVE  startFrameNumber' = startFrameNumber /\ (Detached => Detached')
  <2>1. /\ f.n \in Nat /\ nextFrameNumber <= f.n /\ recvPc \in {"idle", "frame"}
        /\ startFrameNumber' = startFrameNumber /\ recvPc' \in {"idle", "frame"}
        /\ nextFrameNumber' \in {f.n, f.n + 1}
    BY <1>0, <1>1, FrameFacts DEF StartFrame, CorruptFrame, IsOld
  <2> QED
    BY <1>0, <2>1 DEF Detached
<1>2. CASE FinishWhileWaiting \/ FinishDropPending \/ FinishFrame
  <2>1. /\ recvPc = "frame" /\ recvPc' \in {"idle", "queue"} /\ recvFrame' = recvFrame
        /\ startFrameNumber' = startFrameNumber /\ nextFrameNumber' = recvFrame.n + 1
    BY <1>2 DEF FinishWhileWaiting, FinishDropPending, FinishFrame
  <2> QED
    BY <1>0, <2>1 DEF Detached
<1>3. ASSUME NEW n \in FrameNumbers, MayBeLost(n), notifyFrameLost(n)
      PROVE  startFrameNumber' = startFrameNumber /\ (Detached => Detached')
  <2>1. /\ n \in Nat /\ nextFrameNumber <= n + 1 /\ recvPc = "idle" /\ recvPc' = "idle"
        /\ startFrameNumber' = startFrameNumber
        /\ nextFrameNumber' \in {nextFrameNumber, n + 1}
    BY <1>3, FrameNumbersAssumption DEF notifyFrameLost, MayBeLost, NoLongerExpects, recvVars
  <2> QED
    BY <1>0, <2>1 DEF Detached
<1> QED
  BY <1>1, <1>2, <1>3 DEF Prepares

(* No frame is in line at the start. *)
LEMMA InitLine == Init => LineInv
<1> SUFFICES ASSUME Init PROVE LineInv
  OBVIOUS
<1>1. Detached /\ decodeUnitQueue.items = <<>>
  BY NewQueueShape DEF Init, Detached
<1>2. Len(<<>>) = 0
  OBVIOUS
<1>3. InLine(decFrame, <<>>)
  BY <1>2 DEF InLine
<1> QED
  BY <1>1, <1>3 DEF LineInv, Attached

(* Every step keeps the line. *)
LEMMA NextLine ==
  TypeInv /\ OrderInv /\ QueueOrder /\ ChainInv /\ LineInv /\ [Next]_vars => LineInv'
<1> SUFFICES ASSUME TypeInv, OrderInv, QueueOrder, ChainInv, LineInv, [Next]_vars,
                    typedHeaders \/ strictIdrFrameWait
             PROVE  LineInv'
  BY SettingsStay DEF LineInv, settings
<1> DEFINE q == decodeUnitQueue.items
<1>s. directSubmit' = directSubmit
  BY SettingsStay DEF settings
<1>0. /\ Smooth' => Smooth
      /\ Smooth => ~directSubmit
      /\ startFrameNumber \in Nat /\ decodeUnitQueue \in QueueOf(Frames) /\ q \in Seq(Frames)
  BY SmoothBefore DEF TypeInv, Smooth, LossTypeOK, DecTypeOK, QueueOf
<1>1. CASE Prepares
  <2>1. UNCHANGED <<decodeUnitQueue, decFrame>>
    BY <1>1, PreparesAlone
  <2>2. \A f : Attached(f) => Attached(f)'
    BY <1>1, DetachedStays DEF Attached
  <2> QED
    BY <1>s, <1>0, <2>1, <2>2 DEF LineInv
<1>2. CASE Bystands
  <2>1. UNCHANGED <<recvPc, recvFrame, nextFrameNumber, startFrameNumber, decodeUnitQueue,
                    decFrame>>
    BY <1>2, BystandsAlone DEF depacketizerVars, recvVars, decVars, lossVars
  <2>2. \A f : Attached(f)' <=> Attached(f)
    BY <2>1 DEF Attached, Detached
  <2> QED
    BY <1>s, <1>0, <2>1, <2>2 DEF LineInv
<1>a. ASSUME recvPc = "queue", NEW f, Attached(f) PROVE Follows(f, recvFrame)
  <2> SUFFICES ASSUME recvFrame.kind = "P" PROVE recvFrame.n = f.n + 1
    BY DEF Follows
  <2>1. recvFrame.n = startFrameNumber
    BY <1>a DEF ChainInv, NoReferenceGap
  <2> QED
    BY <1>0, <1>a, <2>1 DEF Attached, Detached
<1>b. recvPc = "queue" => nextFrameNumber = recvFrame.n + 1 /\ startFrameNumber <= recvFrame.n
                          /\ recvFrame \in Frames
  BY DEF OrderInv, TypeInv, RecvTypeOK
<1>3. CASE QueueFrame
  <2>1. /\ decFrame' = decFrame /\ ~directSubmit /\ recvPc = "queue"
        /\ startFrameNumber' = recvFrame.n + 1
    BY <1>b, <1>3 DEF QueueFrame, decVars
  <2> SUFFICES ASSUME Smooth
               PROVE  /\ InLine(decFrame, q)' /\ (Stopped(decodeUnitQueue)
                            \/ Attached(LastOf(decFrame, q)))'
    BY <1>s, <1>0, <2>1 DEF LineInv
  <2>2. /\ InLine(decFrame, q)
        /\ Stopped(decodeUnitQueue) \/ Attached(LastOf(decFrame, q))
    BY DEF LineInv
  <2>3. CASE Stopped(decodeUnitQueue)
    BY <1>3, <2>1, <2>2, <2>3, OfferedItems
  <2>4. CASE ~Stopped(decodeUnitQueue)
    <3>1. decodeUnitQueue'.items = Append(q, recvFrame)
      BY <1>3, <2>4, OfferedItems
    <3>2. Follows(LastOf(decFrame, q), recvFrame)
      BY <1>a, <2>1, <2>2, <2>4
    <3>3. /\ InLine(decFrame, Append(q, recvFrame))
          /\ LastOf(decFrame, Append(q, recvFrame)) = recvFrame
      BY <1>0, <1>b, <2>1, <2>2, <3>2, LineGrows
    <3> QED
      BY <2>1, <3>1, <3>3 DEF Attached
  <2> QED
    BY <2>3, <2>4
<1>4. CASE QueueOverflow
  <2>1. /\ UNCHANGED <<decFrame, decodeUnitQueue, startFrameNumber, nextFrameNumber>>
        /\ ~directSubmit /\ recvPc = "queue" /\ recvPc' = "overflow"
    BY <1>4 DEF QueueOverflow, decVars
  <2>2. Detached'
    BY <1>0, <1>b, <2>1, FrameFacts DEF Detached
  <2> QED
    BY <1>s, <1>0, <2>1, <2>2 DEF LineInv, Attached
<1>9. CASE FlushOverflow
  <2>1. /\ decFrame' = decFrame /\ ~directSubmit /\ recvPc' = "idle"
        /\ UNCHANGED <<startFrameNumber, nextFrameNumber>>
        /\ startFrameNumber < nextFrameNumber
    BY <1>9 DEF FlushOverflow, OrderInv, decVars, lossVars
  <2>2. decodeUnitQueue'.items = <<>> /\ Len(<<>>) = 0
    BY <1>0, <1>9, FlushedShape DEF FlushOverflow
  <2>3. Detached'
    BY <2>1 DEF Detached
  <2>4. InLine(decFrame, q)'
    BY <2>2 DEF InLine
  <2> QED
    BY <1>s, <2>1, <2>3, <2>4 DEF LineInv, Attached
<1>5. ASSUME NEW ok \in BOOLEAN, SubmitDirect(ok) PROVE LineInv'
  <2>1. /\ directSubmit /\ recvPc = "queue" /\ decFrame' = recvFrame
        /\ startFrameNumber' = recvFrame.n + 1
    BY <1>b, <1>5 DEF SubmitDirect
  <2> QED
    BY <1>s, <1>0, <2>1 DEF LineInv, Attached
<1>6. CASE WaitForFrame
  <2>1. /\ ~directSubmit
        /\ UNCHANGED <<recvPc, recvFrame, nextFrameNumber, startFrameNumber>>
    BY <1>6 DEF WaitForFrame, lossVars, recvVars
  <2>2. \A f : Attached(f)' <=> Attached(f)
    BY <2>1 DEF Attached, Detached
  <2>3. Stopped(decodeUnitQueue) => Stopped(decodeUnitQueue)'
    BY <1>0, <1>6 DEF WaitForFrame, Waited, Stopped, QueueOf
  <2>4. CASE decPc' = "done"
    BY <1>s, <2>1, <2>4 DEF LineInv, Smooth
  <2>5. CASE /\ q # <<>> /\ decFrame' = q[1] /\ decodeUnitQueue'.items = Tail(q)
    <3>1. Smooth => /\ InLine(q[1], Tail(q))
                    /\ LastOf(q[1], Tail(q)) = LastOf(decFrame, q)
      BY <1>0, <2>5, LineShrinks DEF LineInv
    <3> QED
      BY <1>s, <1>0, <2>1, <2>2, <2>3, <2>5, <3>1 DEF LineInv
  <2> QED
    BY <1>6, <2>4, <2>5, TakenItems
<1>7. CASE CompleteFrame \/ stopVideoDepacketizer
  <2>1. /\ UNCHANGED <<recvPc, recvFrame, nextFrameNumber, startFrameNumber, decFrame>>
    BY <1>7 DEF CompleteFrame, stopVideoDepacketizer, lossVars, recvVars, decVars
  <2>2. \A f : Attached(f)' <=> Attached(f)
    BY <2>1 DEF Attached, Detached
  <2>3. decodeUnitQueue'.items = q /\ (Stopped(decodeUnitQueue) => Stopped(decodeUnitQueue)')
    BY <1>0, <1>7, ShutDownShape
       DEF CompleteFrame, stopVideoDepacketizer, ShutDown, Stopped, QueueOf
  <2> QED
    BY <1>s, <1>0, <2>1, <2>2, <2>3 DEF LineInv
<1>8. CASE Refresh
  <2>1. ~Smooth' /\ UNCHANGED <<recvPc, recvFrame, nextFrameNumber, startFrameNumber, decFrame>>
    BY <1>8 DEF Refresh, RefreshWaitIdr, RefreshFlush, RefreshDropPending, RefreshRequest, Smooth,
                lossVars, recvVars, decVars
  <2> QED
    BY <1>s, <2>1 DEF LineInv, Attached, Detached
<1> QED
  BY <1>1, <1>2, <1>3, <1>4, <1>5, <1>6, <1>7, <1>8, <1>9, NextParts

(* The invariant of this section and the ones it rests on. *)
GivenInv == TypeInv /\ OrderInv /\ QueueOrder /\ ChainInv /\ IdrInv /\ LineInv /\ RefreshInv

(* Both hold throughout. *)
LEMMA GivenInvariance == Spec => []GivenInv
<1>1. Init => GivenInv
  BY InitTypes, InitOrder, InitChain, InitIdr, InitLine DEF GivenInv
<1>2. GivenInv /\ [Next]_vars => GivenInv'
  BY NextTypes, NextOrder, NextQueueOrder, NextChain, NextIdr, NextLine, NextRefresh
     DEF GivenInv
<1> QED
  BY <1>1, <1>2, PTL DEF Spec

(* No other frame is decoded before an IDR frame was, as long as the decoder   *)
(* asked for no refresh or is the receive thread (the last assertion of        *)
(* validateDecodeUnitForPlayback).                                             *)
THEOREM IdrComesFirst == Spec => []IdrDecodedBeforeP
<1>1. GivenInv => IdrDecodedBeforeP
  <2> SUFFICES ASSUME GivenInv PROVE IdrDecodedBeforeP
    OBVIOUS
  <2>1. directSubmit => decPc = "wait"
    BY DEF GivenInv, IdrInv
  <2> QED
    BY <2>1 DEF GivenInv, IdrInv, IdrIsFirst, IdrDecodedBeforeP, NextIsIdr, Smooth
<1> QED
  BY <1>1, GivenInvariance, PTL

(* The frame the decoder is given next, if it is a P-frame, follows the one it *)
(* was given last (reassembleFrame, LiWaitForNextVideoFrame).                  *)
THEOREM DecoderIsInLine == Spec => DecoderSeesNoGap
<1>1. GivenInv /\ [Next]_vars =>
        (decFrame' # decFrame /\ decFrame'.kind = "P" /\ (typedHeaders \/ strictIdrFrameWait)
           /\ (directSubmit \/ refresh = "never")
         => decFrame'.n = decFrame.n + 1)
  <2> SUFFICES ASSUME GivenInv, [Next]_vars, decFrame' # decFrame, decFrame'.kind = "P",
                      typedHeaders \/ strictIdrFrameWait, directSubmit \/ refresh = "never"
               PROVE  decFrame'.n = decFrame.n + 1
    OBVIOUS
  <2>1. WaitForFrame \/ \E ok \in BOOLEAN : SubmitDirect(ok)
    <3>1. ~Prepares
      BY PreparesAlone
    <3>2. ~Bystands
      BY BystandsAlone DEF depacketizerVars, decVars
    <3>3. ~(QueueFrame \/ QueueOverflow \/ FlushOverflow \/ CompleteFrame \/ Refresh
              \/ stopVideoDepacketizer)
      BY DEF QueueFrame, QueueOverflow, FlushOverflow, CompleteFrame, Refresh, RefreshWaitIdr, RefreshFlush,
             RefreshDropPending, RefreshRequest, stopVideoDepacketizer, decVars
    <3> QED
      BY <3>1, <3>2, <3>3, NextParts
  <2>2. CASE WaitForFrame
    <3>1. Smooth /\ decodeUnitQueue.items # <<>> /\ decFrame' = decodeUnitQueue.items[1]
      BY <2>2, TakenItems DEF GivenInv, WaitForFrame, Smooth
    <3> QED
      BY <3>1 DEF GivenInv, LineInv, InLine, Follows
  <2>3. ASSUME NEW ok \in BOOLEAN, SubmitDirect(ok) PROVE decFrame'.n = decFrame.n + 1
    <3>1. directSubmit /\ recvPc = "queue" /\ decFrame' = recvFrame
      BY <2>3 DEF SubmitDirect
    <3>2. recvFrame.n = startFrameNumber /\ startFrameNumber \in Nat
      BY <3>1 DEF GivenInv, ChainInv, NoReferenceGap, TypeInv, LossTypeOK
    <3>3. Attached(decFrame)
      BY <3>1 DEF GivenInv, LineInv
    <3> QED
      BY <3>1, <3>2, <3>3 DEF Attached, Detached
  <2> QED
    BY <2>1, <2>2, <2>3
<1> QED
  BY <1>1, GivenInvariance, PTL DEF Spec, DecoderSeesNoGap

(* What requestDecoderRefresh announces holds for a decoder that is the        *)
(* receive thread, unless the IDR frame proves corrupt after its first packet: *)
(* the next frame it is given is an IDR frame.  (A decoder of its own may get  *)
(* another one, which was past the test of dropStatePending.)                  *)
DirectRefreshIsHonoured ==
  [][ directSubmit /\ ~CorruptFrames /\ refresh = "due" /\ decFrame' # decFrame
      => decFrame'.kind = "I" ]_vars

(* So it is: a wait for an IDR frame, once asked for, outlasts what precedes it. *)
THEOREM RefreshesDirectly == Spec => DirectRefreshIsHonoured
<1>1. GivenInv /\ [Next]_vars =>
        (directSubmit /\ ~CorruptFrames /\ refresh = "due" /\ decFrame' # decFrame
         => decFrame'.kind = "I")
  <2> SUFFICES ASSUME GivenInv, [Next]_vars, decFrame' # decFrame, directSubmit,
                      ~CorruptFrames, refresh = "due"
               PROVE  decFrame'.kind = "I"
    OBVIOUS
  <2>1. ~(QueueFrame \/ QueueOverflow \/ FlushOverflow \/ CompleteFrame \/ Refresh
          \/ stopVideoDepacketizer
          \/ WaitForFrame \/ Prepares \/ Bystands)
    BY PreparesAlone, BystandsAlone
       DEF QueueFrame, QueueOverflow, FlushOverflow, CompleteFrame, Refresh, RefreshWaitIdr,
           RefreshFlush, RefreshDropPending, RefreshRequest, stopVideoDepacketizer, WaitForFrame,
           depacketizerVars, decVars
  <2>2. PICK ok \in BOOLEAN : SubmitDirect(ok)
    BY <2>1, NextParts
  <2>3. recvPc = "queue" /\ decFrame' = recvFrame
    BY <2>2 DEF SubmitDirect
  <2> QED
    BY <2>3 DEF GivenInv, RefreshInv, NextIsIdr
<1> QED
  BY <1>1, GivenInvariance, PTL DEF Spec, DirectRefreshIsHonoured

-------------------------------------------------------------------------------
(* The system: RTP video queue, depacketizer, decoder, network and host. *)

(* A call into the depacketizer and the frame it is about. *)
Calls == {"frame", "lost", "predicted"} \X Nat

(* The depacketizer may be told this of the frame: it was encoded, is not too *)
(* old, and is complete if it is submitted.                                   *)
Fits(call) ==
  LET k == call[2] IN
  /\ k \in 1 .. Len(encoded) /\ MayBeLost(k) /\ k <= currentFrameNumber
  /\ call[1] = "frame" => k < currentFrameNumber

(* Frame numbers do not decrease, and nothing follows the submission of a *)
(* frame.                                                                 *)
InRow(q) == \A i, j \in 1 .. Len(q) : i < j => q[i][1] # "frame" /\ q[i][2] <= q[j][2]

(* The frames of the host. *)
Encoded ==
  /\ encoded \in Seq(Range(encoded)) /\ Len(encoded) <= MaxFrame
  /\ \A n \in 1 .. Len(encoded) : encoded[n].kind \in Kinds

(* How far the depacketizer may be in comparison with the RTP video queue. *)
Near ==
  /\ currentFrameNumber \in Nat \ {0}
  /\ startFrameNumber <= currentFrameNumber /\ nextFrameNumber <= currentFrameNumber + 1
  /\ recvPc # "idle" => calls = <<>> /\ recvFrame.n < currentFrameNumber

(* The calls that remain to be made. *)
CallsInv ==
  /\ calls \in Seq(Calls)
  /\ \A i \in 1 .. Len(calls) : Fits(calls[i])
  /\ InRow(calls)

(* The inductive invariant behind the refinement; the first three parts are *)
(* those of the depacketizer alone.                                         *)
RecoveryInv == TypeInv /\ OrderInv /\ QueueOrder /\ Encoded /\ Near /\ CallsInv

(* What a step of the RTP video queue makes a call about. *)
Made(call) ==
  /\ call[2] \in currentFrameNumber .. Len(encoded) /\ call[2] <= currentFrameNumber'
  /\ call[1] = "frame" => call[2] < currentFrameNumber'

(* A packet of frame n leads to one call at most about frame n, after those *)
(* that were made before.                                                   *)
LEMMA Outcomes ==
  ASSUME currentFrameNumber \in Nat \ {0}, Len(encoded) \in Nat,
         NEW n \in currentFrameNumber .. Len(encoded), NEW b, NEW reported, NEW before,
         Rtp!Outcome(n, b, reported, before)
  PROVE  /\ currentFrameNumber' \in {n, n + 1}
         /\ \/ calls' = before
            \/ \E call \in Calls : calls' = Append(before, call) /\ call[2] = n
                 /\ Made(call)
<1>1. n \in Nat /\ n \in currentFrameNumber .. Len(encoded)
  OBVIOUS
<1>2. CASE Rtp!Pending(n, b, reported, before)
  <2>1. <<"predicted", n>> \in Calls /\ <<"predicted", n>>[1] # "frame"
    BY <1>1 DEF Calls
  <2>2. currentFrameNumber' = n
    BY <1>2 DEF Rtp!Pending, Rtp!At
  <2>3. Made(<<"predicted", n>>)
    BY <1>1, <2>1, <2>2 DEF Made
  <2> QED
    BY <1>2, <2>1, <2>2, <2>3 DEF Rtp!Pending
<1>3. CASE Rtp!BlockDone(n, b, reported, before)
  BY <1>3 DEF Rtp!BlockDone, Rtp!At
<1>4. CASE Rtp!FrameDone(n, b, reported, before)
  <2>1. <<"frame", n>> \in Calls
    BY <1>1 DEF Calls
  <2>2. currentFrameNumber' = n + 1
    BY <1>4 DEF Rtp!FrameDone, Rtp!At
  <2>3. Made(<<"frame", n>>)
    BY <1>1, <2>2 DEF Made
  <2> QED
    BY <1>4, <2>1, <2>2, <2>3 DEF Rtp!FrameDone
<1> QED
  BY <1>2, <1>3, <1>4 DEF Rtp!Outcome

(* A step of the RTP video queue makes at most two calls: a report of a loss *)
(* and a call about the frame of the packet.                                 *)
LEMMA StepsMake ==
  ASSUME Encoded, Near, RtpStep
  PROVE  /\ currentFrameNumber' \in Nat /\ currentFrameNumber <= currentFrameNumber'
         /\ \/ calls' = <<>>
            \/ \E a \in Calls : calls' = <<a>> /\ Made(a)
            \/ \E a, z \in Calls : /\ calls' = Append(<<a>>, z) /\ Made(a) /\ Made(z)
                                   /\ a[1] # "frame" /\ a[2] <= z[2]
<1> DEFINE c == currentFrameNumber
<1>0. c \in Nat \ {0} /\ Len(encoded) \in Nat
  BY LenProperties DEF Near, Encoded
<1>1. ASSUME NEW n \in c .. Len(encoded), Rtp!Begin(n)
      PROVE  /\ c' \in Nat /\ c <= c'
             /\ \/ calls' = <<>>
                \/ \E a \in Calls : calls' = <<a>> /\ Made(a)
                \/ \E a, z \in Calls : /\ calls' = Append(<<a>>, z) /\ Made(a) /\ Made(z)
                                       /\ a[1] # "frame" /\ a[2] <= z[2]
  <2>1. PICK b : Rtp!Outcome(n, b, FALSE, Rtp!GapReport(n))
    BY <1>1 DEF Rtp!Begin
  <2>2. /\ c' \in {n, n + 1}
        /\ \/ calls' = Rtp!GapReport(n)
           \/ \E z \in Calls : calls' = Append(Rtp!GapReport(n), z) /\ z[2] = n /\ Made(z)
    BY <1>0, <2>1, Outcomes
  <2>3. n \in Nat /\ c <= n /\ n <= Len(encoded)
    BY <1>0
  <2>4. CASE Rtp!GapReport(n) = <<>>
    <3>1. \A z : Append(<<>>, z) = <<z>>
      OBVIOUS
    <3> QED
      BY <1>0, <2>2, <2>3, <2>4, <3>1
  <2>5. CASE Rtp!GapReport(n) # <<>>
    <3> DEFINE a == <<"lost", n - 1>>
    <3>1. Rtp!GapReport(n) = <<a>> /\ n # c
      BY <2>5 DEF Rtp!GapReport
    <3>2. a \in Calls /\ a[1] # "frame" /\ a[2] = n - 1
      BY <1>0, <2>3, <3>1 DEF Calls
    <3>3. Made(a) /\ a[2] <= n
      BY <1>0, <2>2, <2>3, <3>1, <3>2 DEF Made
    <3> HIDE DEF a
    <3> QED
      BY <1>0, <2>2, <2>3, <3>1, <3>2, <3>3
  <2> QED
    BY <2>4, <2>5
<1>2. ASSUME c \in c .. Len(encoded), Rtp!Continue
      PROVE  /\ c' \in Nat /\ c <= c'
             /\ \/ calls' = <<>>
                \/ \E a \in Calls : calls' = <<a>> /\ Made(a)
  <2>1. /\ c' \in {c, c + 1}
        /\ \/ calls' = <<>>
           \/ \E z \in Calls : calls' = Append(<<>>, z) /\ z[2] = c /\ Made(z)
    <3>1. PICK b, r : Rtp!Outcome(c, b, r, <<>>)
      BY <1>2 DEF Rtp!Continue
    <3> QED
      BY <1>0, <1>2, <3>1, Outcomes
  <2>2. \A z : Append(<<>>, z) = <<z>>
    OBVIOUS
  <2> QED
    BY <1>0, <2>1, <2>2
<1>3. ASSUME NEW n \in c .. Len(encoded), Rtp!LoseBlock(n)
      PROVE  /\ c' \in Nat /\ c <= c'
             /\ \/ calls' = <<>>
                \/ \E a \in Calls : calls' = <<a>> /\ Made(a)
  <2> DEFINE a == <<"lost", c>>
  <2>1. c' = n + 1 /\ n \in Nat /\ c <= n /\ c <= Len(encoded)
    BY <1>0, <1>3 DEF Rtp!LoseBlock, Rtp!At
  <2>2. calls' = <<>> \/ calls' = <<a>>
    BY <1>3 DEF Rtp!LoseBlock
  <2>3. a \in Calls /\ a[1] # "frame" /\ a[2] = c
    BY <1>0 DEF Calls
  <2>4. Made(a)
    BY <1>0, <2>1, <2>3 DEF Made
  <2> HIDE DEF a
  <2> QED
    BY <1>0, <2>1, <2>2, <2>3, <2>4
<1> QED
  BY <1>1, <1>2, <1>3 DEF RtpStep

(* The calls that were just made fit. *)
LEMMA StepFits ==
  ASSUME TypeInv, Encoded, Near, RtpStep
  PROVE  Near' /\ CallsInv'
<1>0. /\ currentFrameNumber \in Nat \ {0} /\ Len(encoded) \in Nat
      /\ startFrameNumber \in Nat /\ nextFrameNumber \in Nat
      /\ currentFrameNumber' \in Nat /\ currentFrameNumber <= currentFrameNumber'
      /\ startFrameNumber <= currentFrameNumber /\ nextFrameNumber <= currentFrameNumber + 1
  BY LenProperties, StepsMake DEF Near, Encoded, TypeInv, LossTypeOK
<1>1. /\ recvPc' = "idle" /\ encoded' = encoded
      /\ startFrameNumber' = startFrameNumber /\ nextFrameNumber' = nextFrameNumber
  BY DEF RtpStep, vars, lossVars, recvVars, hostVars
<1>2. Near'
  <2>1. currentFrameNumber' \in Nat \ {0} /\ startFrameNumber <= currentFrameNumber'
    BY <1>0
  <2>2. nextFrameNumber <= currentFrameNumber' + 1
    <3>1. ASSUME NEW x \in Nat, NEW c \in Nat, NEW d \in Nat, x <= c + 1, c <= d
          PROVE  x <= d + 1
      BY <3>1
    <3> QED
      BY <1>0, <3>1
  <2> QED
    BY <1>1, <2>1, <2>2 DEF Near
<1>3. ASSUME NEW a \in Calls, Made(a) PROVE Fits(a)'
  BY <1>0, <1>1, <1>3 DEF Made, Fits, MayBeLost, Calls
<1>4. CASE calls' = <<>>
  <2>1. <<>> \in Seq(Calls) /\ Len(<<>>) = 0
    OBVIOUS
  <2> QED
    BY <1>2, <1>4, <2>1 DEF CallsInv, InRow
<1>5. ASSUME NEW a \in Calls, calls' = <<a>>, Made(a) PROVE CallsInv'
  <2>1. <<a>> \in Seq(Calls) /\ Len(<<a>>) = 1 /\ <<a>>[1] = a
    OBVIOUS
  <2> QED
    BY <1>3, <1>5, <2>1 DEF CallsInv, InRow
<1>6. ASSUME NEW a \in Calls, NEW z \in Calls, calls' = Append(<<a>>, z), Made(a), Made(z),
             a[1] # "frame", a[2] <= z[2]
      PROVE  CallsInv'
  <2>1. <<a>> \in Seq(Calls) /\ Len(<<a>>) = 1 /\ <<a>>[1] = a
    OBVIOUS
  <2>2. calls' \in Seq(Calls) /\ Len(calls') = 2 /\ calls'[1] = a /\ calls'[2] = z
    BY <1>6, <2>1, AppendProperties
  <2> QED
    BY <1>3, <1>6, <2>2 DEF CallsInv, InRow
<1> QED
  BY <1>2, <1>4, <1>5, <1>6, StepsMake

(* The calls that remain fit when the first one was made. *)
LEMMA CallFits ==
  ASSUME TypeInv, Encoded, Near, CallsInv, MakeCall
  PROVE  /\ Near' /\ CallsInv'
         /\ [Next]_vars
<1> DEFINE call == Head(calls)  n == call[2]
<1>0. /\ currentFrameNumber \in Nat \ {0} /\ Len(encoded) \in Nat
      /\ startFrameNumber \in Nat /\ nextFrameNumber \in Nat
      /\ startFrameNumber <= currentFrameNumber /\ nextFrameNumber <= currentFrameNumber + 1
      /\ Len(encoded) <= MaxFrame /\ MaxFrame \in Nat /\ FrameNumbers = 1 .. MaxFrame + 1
  BY LenProperties, RecoveryAssumption DEF Near, Encoded, TypeInv, LossTypeOK
<1>1. /\ calls # <<>> /\ Len(calls) \in Nat /\ Len(calls) > 0 /\ call = calls[1]
      /\ call \in Calls /\ call[2] \in Nat
      /\ Tail(calls) \in Seq(Calls) /\ Len(Tail(calls)) = Len(calls) - 1
      /\ \A i \in 1 .. Len(Tail(calls)) : Tail(calls)[i] = calls[i + 1]
  <2>1. calls # <<>> /\ calls \in Seq(Calls)
    BY DEF MakeCall, CallsInv
  <2>2. Len(calls) \in Nat \ {0} /\ call = calls[1] /\ call \in Calls
    BY <2>1, HeadTailProperties, EmptySeq
  <2>3. call[2] \in Nat
    BY <2>2 DEF Calls
  <2> QED
    BY <2>1, <2>2, <2>3, HeadTailProperties
<1>2. /\ Fits(call) /\ n \in 1 .. Len(encoded) /\ n <= currentFrameNumber /\ MayBeLost(n)
      /\ call[1] = "frame" => n < currentFrameNumber
      /\ call[1] = "frame" => Len(calls) = 1
  <2>1. 1 \in 1 .. Len(calls)
    BY <1>1
  <2>2. Fits(call)
    BY <1>1, <2>1 DEF CallsInv
  <2>3. ASSUME Len(calls) # 1 PROVE call[1] # "frame"
    <3>1. 2 \in 1 .. Len(calls)
      BY <1>1, <2>3
    <3> QED
      BY <1>1, <2>1, <3>1 DEF CallsInv, InRow
  <2> QED
    BY <2>2, <2>3 DEF Fits
<1>3. /\ recvPc = "idle" /\ UNCHANGED <<currentFrameNumber, encoded, startFrameNumber>>
      /\ UNCHANGED settings /\ calls' = Tail(calls)
      /\ nextFrameNumber' \in {nextFrameNumber, n, n + 1}
      /\ recvPc' = "idle" \/ (recvPc' = "frame" /\ recvFrame'.n = n /\ call[1] = "frame")
      /\ call[1] # "frame" => recvPc' = "idle"
  <2>1. /\ UNCHANGED <<currentFrameNumber, encoded>> /\ UNCHANGED settings
        /\ calls' = Tail(calls)
    BY DEF MakeCall, rtpQueueVars, hostVars
  <2>2. CASE call[1] = "frame"
    <3> DEFINE f == KindOf(n)
    <3>1. f.n = n
      BY DEF KindOf
    <3>2. StartFrame(f) \/ DropOldFrame(f)
      BY <2>2 DEF MakeCall
    <3> HIDE DEF f
    <3> QED
      BY <2>1, <2>2, <3>1, <3>2 DEF StartFrame, DropOldFrame, vars, lossVars, recvVars
  <2>3. CASE call[1] # "frame"
    <3>1. notifyFrameLost(n)
      BY <2>3 DEF MakeCall
    <3> QED
      BY <2>1, <2>3, <3>1 DEF notifyFrameLost, NoLongerExpects, recvVars
  <2> QED
    BY <2>2, <2>3
<1>4. Near'
  <2>1. recvPc' # "idle" => calls' = <<>>
    <3>1. Len(calls) = 1 => Tail(calls) = <<>>
      <4>1. Tail(calls) \in Seq(Calls) /\ Len(Tail(calls)) = Len(calls) - 1
        BY <1>1
      <4>2. Tail(calls) # <<>> => Len(Tail(calls)) \in Nat \ {0}
        BY <4>1, EmptySeq
      <4> QED
        BY <4>1, <4>2
    <3> QED
      BY <1>2, <1>3, <3>1
  <2> QED
    BY <1>0, <1>1, <1>2, <1>3, <2>1 DEF Near
<1>5. CallsInv'
  <2>1. ASSUME NEW i \in 1 .. Len(Tail(calls)), NEW z \in Calls, z = Tail(calls)[i]
        PROVE  Fits(z)'
    <3>1. /\ i + 1 \in 1 .. Len(calls) /\ 1 \in 1 .. Len(calls) /\ 1 < i + 1
          /\ z = calls[i + 1]
      BY <1>1, <2>1
    <3>2. Fits(z) /\ n <= z[2]
      BY <1>1, <3>1 DEF CallsInv, InRow
    <3>3. /\ z[2] \in 1 .. Len(encoded) /\ z[2] <= currentFrameNumber
          /\ startFrameNumber <= z[2] /\ nextFrameNumber <= z[2] + 1 /\ n <= z[2]
          /\ z[1] = "frame" => z[2] < currentFrameNumber
      BY <3>2 DEF Fits, MayBeLost
    <3>4. nextFrameNumber' <= z[2] + 1
      BY <1>0, <1>1, <1>3, <3>3
    <3> QED
      BY <1>3, <3>3, <3>4 DEF Fits, MayBeLost
  <2>2. InRow(Tail(calls))
    <3> SUFFICES ASSUME NEW i \in 1 .. Len(Tail(calls)), NEW j \in 1 .. Len(Tail(calls)),
                        i < j
                 PROVE  /\ Tail(calls)[i][1] # "frame"
                        /\ Tail(calls)[i][2] <= Tail(calls)[j][2]
      BY DEF InRow
    <3>1. /\ i + 1 \in 1 .. Len(calls) /\ j + 1 \in 1 .. Len(calls) /\ i + 1 < j + 1
          /\ Tail(calls)[i] = calls[i + 1] /\ Tail(calls)[j] = calls[j + 1]
      BY <1>1
    <3> QED
      BY <3>1 DEF CallsInv, InRow
  <2>3. \A i \in 1 .. Len(Tail(calls)) : Tail(calls)[i] \in Calls
    BY <1>1
  <2> QED
    BY <1>1, <1>3, <2>1, <2>2, <2>3 DEF CallsInv, InRow
<1>6. [Next]_vars
  <2>1. n \in FrameNumbers
    BY <1>0, <1>1, <1>2
  <2>2. CASE call[1] = "frame"
    <3>1. KindOf(n) \in Frames
      BY <1>2, <2>1 DEF KindOf, Frames, Encoded
    <3>2. StartFrame(KindOf(n)) \/ DropOldFrame(KindOf(n))
      BY <2>2 DEF MakeCall
    <3> QED
      BY <1>3, <3>1, <3>2 DEF Next, ReceiveThread
  <2>3. CASE call[1] # "frame"
    <3>1. notifyFrameLost(n)
      BY <2>3 DEF MakeCall
    <3> QED
      BY <1>2, <1>3, <2>1, <3>1 DEF Next, ReceiveThread
  <2> QED
    BY <2>2, <2>3
<1> QED
  BY <1>4, <1>5, <1>6

(* The receive thread and its frame stay behind the RTP video queue. *)
LEMMA ReceiveFits ==
  ASSUME TypeInv, OrderInv, Near, CallsInv, Receive
  PROVE  Near' /\ CallsInv' /\ [Next]_vars
<1>1. UNCHANGED settings /\ UNCHANGED <<currentFrameNumber, calls, encoded>>
  BY DEF Receive, rtpVars, rtpQueueVars, hostVars
<1>2. /\ recvPc # "idle" /\ recvFrame' = recvFrame
      /\ startFrameNumber' \in {startFrameNumber, nextFrameNumber}
      /\ nextFrameNumber' \in {recvFrame.n + 1, nextFrameNumber}
      /\ startFrameNumber' = nextFrameNumber
           => recvPc = "queue" \/ startFrameNumber' = startFrameNumber
  BY DEF Receive, FinishWhileWaiting, FinishFrame, QueueFrame, QueueOverflow, FlushOverflow,
         SubmitDirect, lossVars
<1>3. /\ calls = <<>> /\ Len(<<>>) = 0 /\ recvFrame.n < currentFrameNumber
      /\ recvFrame.n \in Nat /\ currentFrameNumber \in Nat \ {0}
      /\ startFrameNumber \in Nat /\ nextFrameNumber \in Nat
      /\ startFrameNumber <= currentFrameNumber /\ nextFrameNumber <= currentFrameNumber + 1
      /\ recvPc = "queue" => nextFrameNumber = recvFrame.n + 1
  BY <1>2, FrameFacts DEF Near, TypeInv, LossTypeOK, RecvTypeOK, OrderInv
<1>4. Near'
  BY <1>1, <1>2, <1>3 DEF Near
<1>5. CallsInv'
  BY <1>1, <1>3 DEF CallsInv, InRow
<1>6. [Next]_vars
  BY <1>1 DEF Receive, Next, ReceiveThread
<1> QED
  BY <1>4, <1>5, <1>6

(* The other threads disturb neither. *)
LEMMA OthersFit ==
  ASSUME RecoveryNext, ~RtpStep, ~MakeCall, ~Receive
  PROVE  /\ UNCHANGED <<startFrameNumber, nextFrameNumber, recvPc, recvFrame,
              currentFrameNumber, calls>>
         /\ [Next]_vars
<1>1. CASE Decode
  BY <1>1
     DEF Decode, Next, DecoderThread, WaitForFrame, CompleteFrame, lossVars, recvVars,
         rtpVars, rtpQueueVars
<1>2. CASE IdrThread
  <2>1. UNCHANGED <<settings, currentFrameNumber, calls>>
    BY <1>2 DEF IdrThread, rtpVars, rtpQueueVars
  <2>2. UNCHANGED vars \/ ClearIdrEvent \/ FlushInvalidations
    BY <1>2 DEF IdrThread, IdrWait, IdrClear, IdrFlush, IdrSend
  <2>3. UNCHANGED <<startFrameNumber, nextFrameNumber, recvPc, recvFrame>>
    BY <2>2
       DEF vars, ClearIdrEvent, FlushInvalidations, depacketizerVars, lossVars, recvVars
  <2> QED
    BY <2>1, <2>2, <2>3 DEF Next, ControlThreads
<1>3. CASE RfiThread
  <2>1. UNCHANGED <<settings, currentFrameNumber, calls>>
    BY <1>3 DEF RfiThread, rtpVars, rtpQueueVars
  <2>2. UNCHANGED vars \/ TakeInvalidation
    BY <1>3 DEF RfiThread, RfiWait, RfiMore, RfiSend
  <2>3. UNCHANGED <<startFrameNumber, nextFrameNumber, recvPc, recvFrame>>
    BY <2>2 DEF vars, TakeInvalidation, depacketizerVars, lossVars, recvVars
  <2> QED
    BY <2>1, <2>2, <2>3 DEF Next, ControlThreads
<1>4. CASE Host
  BY <1>4 DEF Host, vars, lossVars, recvVars, rtpVars, rtpQueueVars
<1> QED
  BY <1>1, <1>2, <1>3, <1>4 DEF RecoveryNext, ReceiveSide

(* The host appends frames, and no other step touches them. *)
LEMMA EncodedNext ==
  ASSUME Encoded, RecoveryNext
  PROVE  /\ Encoded'
         /\ Len(encoded) \in Nat /\ Len(encoded') \in Nat /\ Len(encoded) <= Len(encoded')
         /\ \A n \in 1 .. Len(encoded) : encoded'[n] = encoded[n]
<1>0. Len(encoded) \in Nat
  BY LenProperties DEF Encoded
<1>1. CASE Host
  <2> DEFINE n == Len(encoded)
  <2>1. PICK requests : encoded' = Append(encoded, Answer(requests)) /\ n < MaxFrame
    BY <1>1 DEF Host
  <2> DEFINE a == Answer(requests)
  <2>2. a.kind \in Kinds
    BY DEF Answer, Kinds
  <2> HIDE DEF a
  <2>3. encoded \in Seq(Range(encoded) \cup {a}) /\ a \in Range(encoded) \cup {a}
    BY DEF Encoded
  <2>4. /\ encoded' \in Seq(Range(encoded) \cup {a}) /\ Len(encoded') = n + 1
        /\ \A i \in 1 .. n : encoded'[i] = encoded[i]
        /\ encoded'[n + 1] = a
    BY <2>1, <2>3, AppendProperties DEF a
  <2>5. DOMAIN encoded' = 1 .. n + 1
    BY <2>4, LenProperties
  <2>6. \A i \in 1 .. n + 1 : encoded'[i] \in Range(encoded')
    BY <2>5 DEF Range
  <2>7. encoded' \in Seq(Range(encoded'))
    BY <1>0, <2>4, <2>5, <2>6
  <2>8. \A i \in 1 .. n + 1 : encoded'[i].kind \in Kinds
    BY <1>0, <2>2, <2>4 DEF Encoded
  <2>9. MaxFrame \in Nat
    BY RecoveryAssumption
  <2> QED
    BY <1>0, <2>1, <2>4, <2>7, <2>8, <2>9 DEF Encoded
<1>2. CASE encoded' = encoded
  BY <1>0, <1>2 DEF Encoded
<1> QED
  BY <1>1, <1>2
     DEF RecoveryNext, ReceiveSide, RtpStep, MakeCall, Receive, Decode, IdrThread,
         RfiThread, hostVars

(* Every step keeps the invariant, and is one of the depacketizer or leaves *)
(* it alone.                                                                *)
LEMMA RecoveryStep ==
  ASSUME RecoveryInv, [RecoveryNext]_allVars
  PROVE  RecoveryInv' /\ [Next]_vars
<1>0. TypeInv /\ OrderInv /\ QueueOrder /\ Encoded /\ Near /\ CallsInv
  BY DEF RecoveryInv
<1>1. CASE UNCHANGED allVars
  <2>1. UNCHANGED vars
    BY <1>1 DEF allVars
  <2>2. TypeInv' /\ OrderInv' /\ QueueOrder'
    BY <1>0, <2>1, NextTypes, NextOrder, NextQueueOrder
  <2>3. Encoded' /\ Near' /\ CallsInv'
    BY <1>0, <1>1
       DEF Encoded, Near, CallsInv, Fits, MayBeLost, InRow, allVars, vars, lossVars,
           recvVars, rtpVars, rtpQueueVars, hostVars
  <2> QED
    BY <2>1, <2>2, <2>3 DEF RecoveryInv
<1>2. CASE RecoveryNext
  <2>1. Near' /\ CallsInv' /\ [Next]_vars
    <3>1. CASE RtpStep
      BY <1>0, <3>1, StepFits DEF RtpStep
    <3>2. CASE MakeCall
      BY <1>0, <3>2, CallFits
    <3>3. CASE Receive
      BY <1>0, <3>3, ReceiveFits
    <3>4. CASE ~RtpStep /\ ~MakeCall /\ ~Receive
      <4>1. /\ UNCHANGED <<startFrameNumber, nextFrameNumber, recvPc, recvFrame,
                           currentFrameNumber, calls>>
            /\ [Next]_vars
        BY <1>2, <3>4, OthersFit
      <4>2. Near'
        BY <1>0, <4>1 DEF Near
      <4>3. \A i \in 1 .. Len(calls) : Fits(calls[i])'
        BY <1>0, <1>2, <4>1, EncodedNext DEF CallsInv, Fits, MayBeLost
      <4> QED
        BY <1>0, <4>1, <4>2, <4>3 DEF CallsInv, InRow
    <3> QED
      BY <3>1, <3>2, <3>3, <3>4
  <2>2. TypeInv' /\ OrderInv' /\ QueueOrder'
    BY <1>0, <2>1, NextTypes, NextOrder, NextQueueOrder
  <2> QED
    BY <1>0, <1>2, <2>1, <2>2, EncodedNext DEF RecoveryInv
<1> QED
  BY <1>1, <1>2

(* The initial states satisfy the invariant. *)
LEMMA RecoveryStarts == RecoveryInit => RecoveryInv
<1> SUFFICES ASSUME RecoveryInit PROVE RecoveryInv
  OBVIOUS
<1>1. TypeInv /\ OrderInv /\ QueueOrder
  BY InitTypes, InitOrder DEF RecoveryInit
<1>2. /\ <<>> \in Seq(Calls) /\ <<>> \in Seq(Range(encoded)) /\ Len(<<>>) = 0
      /\ MaxFrame \in Nat
  BY RecoveryAssumption
<1>3. Encoded
  BY <1>2 DEF RecoveryInit, Encoded
<1>4. Near /\ CallsInv
  BY <1>2 DEF RecoveryInit, Init, Rtp!Init, Near, CallsInv, InRow
<1> QED
  BY <1>1, <1>3, <1>4 DEF RecoveryInv

(* The invariant holds throughout. *)
LEMMA RecoveryInvariance == RecoverySpec => []RecoveryInv
<1>1. RecoveryInv /\ [RecoveryNext]_allVars => RecoveryInv'
  BY RecoveryStep
<1> QED
  BY <1>1, RecoveryStarts, PTL DEF RecoverySpec

(* The system implements VideoDepacketizer: what that module assumes of its *)
(* caller, the order of the frames and of the reports of losses, the RTP    *)
(* video queue keeps.                                                       *)
THEOREM Implements == RecoverySpec => DepacketizerSpec
<1>1. RecoveryInit => Init
  BY DEF RecoveryInit
<1>2. RecoveryInv /\ [RecoveryNext]_allVars => [Next]_vars
  BY RecoveryStep
<1> QED
  BY <1>1, <1>2, RecoveryInvariance, PTL DEF RecoverySpec, DepacketizerSpec, Spec

(* A frame the host encoded. *)
Genuine(f, frames) == f.n \in 1 .. Len(frames) /\ f.kind = frames[f.n].kind

(* An IDR frame of the host. *)
IsIdr(n) == encoded[n].kind = "I"

(* The frames the decoder was given since an IDR frame, or will be given. *)
Line == shown \cup { decodeUnitQueue.items[i].n : i \in 1 .. Len(decodeUnitQueue.items) }

(* Every frame there is was encoded by the host, and what the decoder was *)
(* given is no newer than the last one.                                   *)
HostsFrames ==
  /\ currentFrameNumber <= Len(encoded) + 1
  /\ recvPc # "idle" => Genuine(recvFrame, encoded)
  /\ \A i \in 1 .. Len(decodeUnitQueue.items) : Genuine(decodeUnitQueue.items[i], encoded)
  /\ \A n \in shown : n \in 1 .. Len(encoded) /\ n <= decFrame.n
  /\ decFrame.n > 0 => decFrame.n \in shown

(* The decoder never asks for a refresh and never stops; an IDR frame ended *)
(* the wait before it is queued.                                            *)
Calm ==
  /\ refresh = "never" /\ ~dropStatePending
  /\ ~decodeUnitQueue.shutdown /\ ~decodeUnitQueue.draining
  /\ ~decodeUnitQueue.pendingUserWake
  /\ recvPc = "frame" /\ recvFrame.kind = "I"
       => ~waitingForIdrFrame /\ ~waitingForRefInvalFrame
  /\ recvPc = "queue" => ~waitingForIdrFrame

(* Frame r was queued for the decoder, and is still there or given to it, *)
(* unless an IDR frame after it is; or one is awaited; or one is being    *)
(* received.                                                              *)
Kept(r) ==
  \/ \E k \in Line : k = r \/ (r < k /\ IsIdr(k))
  \/ waitingForIdrFrame /\ recvPc # "queue"
  \/ recvPc # "idle" /\ recvFrame.kind = "I"

(* The first frames of ranges that are to be invalidated. *)
Firsts(u) == { u.items[i][1] : i \in 1 .. Len(u.items) }

(* The frames a request, on whatever part of its way, begins with, and the *)
(* frame the next request will begin with.                                 *)
Asks(s) ==
  \/ s = startFrameNumber
  \/ s \in Firsts(invalidReferenceFrameTuples)
  \/ rfiPc # "wait" /\ s = rfiRange[1]
  \/ \E i \in 1 .. Len(toHost) : toHost[i][1] = "rfi" /\ s = toHost[i][2]
  \/ \E m \in 1 .. Len(encoded) : encoded[m].kind = "R" /\ s = encoded[m].ref + 1

(* The host refers to the frame before, or by a request to a frame after *)
(* which it encoded no IDR frame.                                        *)
Refers ==
  \A m \in 1 .. Len(encoded) :
    /\ m = 1 => encoded[m].kind = "I"
    /\ encoded[m].kind = "P" => encoded[m].ref = m - 1
    /\ encoded[m].kind = "R" =>
         /\ encoded[m].ref \in 1 .. m - 1
         /\ \A k \in encoded[m].ref + 1 .. m - 1 : ~IsIdr(k)

(* A frame in the queue that refers to one before a range finds that frame *)
(* with the decoder or before itself in the queue.                         *)
InReach ==
  LET q == decodeUnitQueue.items IN
  \A i \in 1 .. Len(q) : q[i].kind = "R" =>
    encoded[q[i].n].ref \in shown \cup { q[j].n : j \in 1 .. i - 1 }

(* What is sent to the host. *)
Requests == {<<"idr">>} \cup { <<"rfi", p[1], p[2]>> : p \in Ranges }

(* The types of what is on its way. *)
Requested == toHost \in Seq(Requests) /\ rfiRange \in Ranges

(* Every request begins after a frame that is kept. *)
StartsKept == \A s : Asks(s) => s \in Nat /\ s <= startFrameNumber /\ (s > 0 => Kept(s - 1))

(* The frames of the line are older than any the depacketizer expects. *)
LEMMA LineTypes ==
  ASSUME TypeInv, OrderInv, QueueOrder, Encoded, HostsFrames
  PROVE  /\ Len(encoded) \in Nat /\ startFrameNumber \in Nat
         /\ \A k \in Line : k \in 1 .. Len(encoded) /\ k < startFrameNumber
<1> DEFINE q == decodeUnitQueue.items
<1>1. Len(encoded) \in Nat /\ startFrameNumber \in Nat
  BY LenProperties DEF Encoded, TypeInv, LossTypeOK
<1>2. ASSUME NEW k \in shown PROVE k \in 1 .. Len(encoded) /\ k < startFrameNumber
  <2>1. k \in 1 .. Len(encoded) /\ k <= decFrame.n
    BY <1>2 DEF HostsFrames
  <2>2. decFrame.n \in Nat
    BY FrameFacts DEF TypeInv, DecTypeOK, NoFrame
  <2> QED
    BY <1>1, <2>1, <2>2 DEF OrderInv
<1>3. ASSUME NEW i \in 1 .. Len(q)
      PROVE  q[i].n \in 1 .. Len(encoded) /\ q[i].n < startFrameNumber
  BY <1>3 DEF HostsFrames, Genuine, QueueOrder
<1> QED
  BY <1>1, <1>2, <1>3 DEF Line

(* The kinds of steps the proofs tell apart: those that touch neither the     *)
(* frame that is received nor the queue, the first packet of a frame, a frame *)
(* that is dropped, the last packet, a frame that is queued or refused, the   *)
(* flush after a refusal, and a frame that is given to the decoder, directly  *)
(* or from the queue.                                                         *)
Aside ==
  UNCHANGED <<startFrameNumber, recvPc, recvFrame, waitingForIdrFrame,
              waitingForRefInvalFrame, dropStatePending, refresh, decFrame, shown,
              decodeUnitQueue>>

Begins ==
  /\ \E n \in 1 .. Len(encoded) : StartFrame(KindOf(n)) /\ n < currentFrameNumber
  /\ UNCHANGED <<encoded, currentFrameNumber, shown>>

Drops ==
  /\ FinishWhileWaiting \/ \E n : notifyFrameLost(n)
  /\ UNCHANGED <<encoded, currentFrameNumber, shown>>

Ends == FinishFrame /\ UNCHANGED <<encoded, currentFrameNumber, shown>>

Queues == QueueFrame /\ UNCHANGED <<encoded, currentFrameNumber, shown>>

Refuses == QueueOverflow /\ UNCHANGED <<encoded, currentFrameNumber, shown>>

Overflows == FlushOverflow /\ UNCHANGED <<encoded, currentFrameNumber, shown>>

Shows ==
  shown' = IF decFrame'.kind = "I" THEN {decFrame'.n} ELSE shown \cup {decFrame'.n}

Submits == SubmitDirect(TRUE) /\ UNCHANGED <<encoded, currentFrameNumber>> /\ Shows

Takes ==
  /\ WaitForFrame /\ decodeUnitQueue.items # <<>>
  /\ decFrame' = Head(decodeUnitQueue.items)
  /\ decodeUnitQueue'.items = Tail(decodeUnitQueue.items)
  /\ UNCHANGED <<encoded, currentFrameNumber>> /\ Shows

(* There are no other steps. *)
LEMMA KindsOfSteps ==
  ASSUME RecoveryInv, HostsFrames, Calm, RecoveryNext
  PROVE  \/ Aside \/ Begins \/ Drops \/ Ends
         \/ Queues \/ Refuses \/ Overflows \/ Submits \/ Takes
<1> USE DEF RecoveryInv
<1>1. CASE RtpStep \/ Host
  BY <1>1 DEF RtpStep, Host, Aside, vars, lossVars, recvVars, decVars
<1>2. CASE IdrThread \/ RfiThread
  <2>1. shown' = shown
    BY <1>2 DEF IdrThread, RfiThread
  <2>2. UNCHANGED vars \/ UNCHANGED depacketizerVars
    BY <1>2
       DEF IdrThread, RfiThread, IdrWait, IdrClear, IdrFlush, IdrSend, RfiWait, RfiMore,
           RfiSend, ClearIdrEvent, FlushInvalidations, TakeInvalidation
  <2> QED
    BY <2>1, <2>2 DEF Aside, vars, depacketizerVars, lossVars, recvVars, decVars
<1>3. CASE MakeCall
  <2>1. UNCHANGED <<encoded, currentFrameNumber, shown>>
    BY <1>3 DEF MakeCall, rtpQueueVars, hostVars
  <2> DEFINE call == Head(calls)
  <2>2. CASE call[1] # "frame"
    BY <1>3, <2>1, <2>2 DEF MakeCall, Drops
  <2>3. CASE call[1] = "frame"
    <3>1. call = calls[1] /\ 1 \in 1 .. Len(calls)
      <4>1. calls \in Seq(Calls) /\ calls # <<>>
        BY <1>3 DEF MakeCall, CallsInv
      <4> QED
        BY <4>1, EmptySeq
    <3>2. call[2] \in 1 .. Len(encoded) /\ call[2] < currentFrameNumber
      BY <2>3, <3>1 DEF CallsInv, Fits
    <3>3. StartFrame(KindOf(call[2])) \/ DropOldFrame(KindOf(call[2]))
      BY <1>3, <2>3 DEF MakeCall
    <3>4. CASE StartFrame(KindOf(call[2]))
      BY <2>1, <3>2, <3>4 DEF Begins
    <3>5. CASE DropOldFrame(KindOf(call[2]))
      BY <2>1, <3>5 DEF DropOldFrame, Aside, vars, lossVars, recvVars, decVars
    <3> QED
      BY <3>3, <3>4, <3>5
  <2> QED
    BY <2>2, <2>3
<1>4. CASE Receive
  <2>1. UNCHANGED <<encoded, currentFrameNumber>>
    BY <1>4 DEF Receive, rtpVars, rtpQueueVars, hostVars
  <2>2. CASE FinishWhileWaiting \/ FinishFrame \/ QueueFrame \/ QueueOverflow \/ FlushOverflow
    <3>1. decFrame' = decFrame
      BY <2>2 DEF FinishWhileWaiting, FinishFrame, QueueFrame, QueueOverflow, FlushOverflow, decVars
    <3>2. shown' = shown
      BY <1>4, <3>1 DEF Receive
    <3> QED
      BY <2>1, <2>2, <3>2 DEF Drops, Ends, Queues, Refuses, Overflows
  <2>3. CASE SubmitDirect(TRUE)
    <3>1. /\ decFrame' = recvFrame /\ recvPc = "queue"
      BY <2>3 DEF SubmitDirect
    <3>2. recvFrame.n \in Nat /\ decFrame.n \in Nat /\ startFrameNumber <= recvFrame.n
          /\ startFrameNumber \in Nat /\ recvFrame.n # 0
      BY <3>1, FrameFacts DEF TypeInv, RecvTypeOK, DecTypeOK, LossTypeOK, OrderInv, NoFrame
    <3>3. decFrame' # decFrame
      BY <3>1, <3>2 DEF OrderInv
    <3> QED
      BY <1>4, <2>1, <2>3, <3>3 DEF Receive, Submits, Shows
  <2> QED
    BY <1>4, <2>2, <2>3 DEF Receive
<1>5. CASE Decode
  <2>1. UNCHANGED <<encoded, currentFrameNumber>>
    BY <1>5 DEF Decode, rtpVars, rtpQueueVars, hostVars
  <2>2. CASE CompleteFrame
    <3>1. refresh' = refresh
      BY <2>2 DEF CompleteFrame, Answered, Calm
    <3> QED
      BY <1>5, <2>2, <3>1 DEF Decode, CompleteFrame, Aside, lossVars, recvVars
  <2>3. CASE WaitForFrame
    <3> DEFINE q == decodeUnitQueue.items
    <3>0. decodeUnitQueue \in QueueOf(Frames)
      BY DEF TypeInv, DecTypeOK
    <3>1. CASE WaitStatus(decodeUnitQueue) = LBQ_SUCCESS
      <4>1. /\ q # <<>> /\ decodeUnitQueue'.items = Tail(q) /\ Head(q) \in Frames
            /\ decFrame' = Head(q)
        BY <2>3, <3>0, <3>1, WaitedShape DEF WaitForFrame
      <4>2. q \in Seq(Frames)
        BY <3>0 DEF QueueOf
      <4>3. 1 \in 1 .. Len(q) /\ Head(q) = q[1]
        BY <4>1, <4>2, EmptySeq
      <4>4. decFrame.n < q[1].n /\ q[1].n \in Nat /\ decFrame.n \in Nat
        BY <4>1, <4>3, FrameFacts DEF QueueOrder, TypeInv, DecTypeOK, NoFrame
      <4>5. decFrame' # decFrame
        BY <4>1, <4>3, <4>4
      <4> QED
        BY <1>5, <2>1, <2>3, <4>1, <4>5 DEF Decode, Takes, Shows
    <3>2. CASE WaitStatus(decodeUnitQueue) # LBQ_SUCCESS
      <4>1. decodeUnitQueue.pendingUserWake
        BY <2>3, <3>2
           DEF WaitForFrame, WaitBlocks, WaitStatus, Calm, LBQ_SUCCESS, LBQ_INTERRUPTED,
               LBQ_USER_WAKE
      <4> QED
        BY <4>1, <1>5, <2>1, <2>3, <3>2 DEF Decode, WaitForFrame, Calm
    <3> QED
      BY <3>1, <3>2
  <2> QED
    BY <1>5, <2>2, <2>3 DEF Decode
<1> QED
  BY <1>1, <1>2, <1>3, <1>4, <1>5 DEF RecoveryNext, ReceiveSide

(* What was encoded stays so. *)
LEMMA FramesStay ==
  ASSUME Encoded, RecoveryNext
  PROVE  /\ \A f : Genuine(f, encoded) => Genuine(f, encoded')
         /\ \A k \in 1 .. Len(encoded) : k \in 1 .. Len(encoded')
              /\ encoded'[k] = encoded[k]
<1>1. /\ Len(encoded) \in Nat /\ Len(encoded') \in Nat /\ Len(encoded) <= Len(encoded')
      /\ \A n \in 1 .. Len(encoded) : encoded'[n] = encoded[n]
  BY EncodedNext
<1> QED
  BY <1>1 DEF Genuine

(* No step of this module disturbs the calm. *)
LEMMA CalmNext ==
  ASSUME RecoveryInv, HostsFrames, Calm, RecoveryNext
  PROVE  Calm'
<1>1. CASE Aside
  BY <1>1 DEF Aside, Calm
<1>2. CASE Begins
  <2>1. PICK f : StartFrame(f)
    BY <1>2 DEF Begins
  <2> QED
    BY <2>1 DEF StartFrame, Calm, decVars
<1>3. CASE Drops
  <2>1. /\ UNCHANGED <<refresh, decodeUnitQueue>> /\ recvPc' = "idle"
        /\ dropStatePending' = FALSE
    BY <1>3
       DEF Drops, FinishWhileWaiting, notifyFrameLost, DropFrameState, decVars, recvVars
  <2> QED
    BY <2>1 DEF Calm
<1>4. CASE Ends
  BY <1>4 DEF Ends, FinishFrame, Calm, decVars
<1>5. CASE Queues
  <2>1. /\ decodeUnitQueue'.shutdown = decodeUnitQueue.shutdown
        /\ decodeUnitQueue'.draining = decodeUnitQueue.draining
        /\ decodeUnitQueue'.pendingUserWake = decodeUnitQueue.pendingUserWake
    BY <1>5 DEF Queues, QueueFrame, Offered, Link, RecoveryInv, TypeInv, DecTypeOK, QueueOf
  <2> QED
    BY <1>5, <2>1 DEF Queues, QueueFrame, Calm, decVars
<1>6. CASE Overflows
  <2>1. /\ decodeUnitQueue'.shutdown = decodeUnitQueue.shutdown
        /\ decodeUnitQueue'.draining = decodeUnitQueue.draining
        /\ decodeUnitQueue'.pendingUserWake = decodeUnitQueue.pendingUserWake
    BY <1>6 DEF Overflows, FlushOverflow, Flushed, RecoveryInv, TypeInv, DecTypeOK, QueueOf
  <2> QED
    BY <1>6, <2>1 DEF Overflows, FlushOverflow, Calm, decVars
<1>9. CASE Refuses
  BY <1>9 DEF Refuses, QueueOverflow, DropFrameState, Calm, decVars
<1>7. CASE Submits
  BY <1>7 DEF Submits, SubmitDirect, Answered, Calm
<1>8. CASE Takes
  <2>1. /\ decodeUnitQueue'.shutdown = decodeUnitQueue.shutdown
        /\ decodeUnitQueue'.draining = decodeUnitQueue.draining
        /\ decodeUnitQueue'.pendingUserWake = decodeUnitQueue.pendingUserWake
    <3>1. decodeUnitQueue \in QueueOf(Frames)
      BY DEF RecoveryInv, TypeInv, DecTypeOK
    <3> QED
      BY <1>8, <3>1
         DEF Takes, WaitForFrame, Waited, Unlink, WaitStatus, Calm, QueueOf, LBQ_SUCCESS,
             LBQ_INTERRUPTED, LBQ_USER_WAKE
  <2> QED
    BY <1>8, <2>1 DEF Takes, WaitForFrame, Calm, recvVars, lossVars
<1> QED
  BY <1>1, <1>2, <1>3, <1>4, <1>5, <1>6, <1>7, <1>8, <1>9, KindsOfSteps

(* What a step makes of the queue: it is left alone, grows, is emptied or *)
(* loses its head.                                                        *)
LEMMA QueueSteps ==
  ASSUME RecoveryInv, Calm
  PROVE  LET q == decodeUnitQueue.items IN
         /\ q \in Seq(Frames) /\ Len(q) \in Nat
         /\ Begins \/ Drops \/ Ends \/ Refuses \/ Submits => decodeUnitQueue' = decodeUnitQueue
         /\ Queues => /\ decodeUnitQueue'.items = Append(q, recvFrame)
                      /\ Len(Append(q, recvFrame)) = Len(q) + 1
                      /\ Append(q, recvFrame)[Len(q) + 1] = recvFrame
                      /\ \A i \in 1 .. Len(q) : Append(q, recvFrame)[i] = q[i]
         /\ Overflows => decodeUnitQueue'.items = <<>>
         /\ Takes => /\ 1 \in 1 .. Len(q) /\ decFrame' = q[1]
                     /\ Len(decodeUnitQueue'.items) = Len(q) - 1
                     /\ \A i \in 1 .. Len(q) - 1 : decodeUnitQueue'.items[i] = q[i + 1]
<1> DEFINE q == decodeUnitQueue.items
<1>0. decodeUnitQueue \in QueueOf(Frames) /\ q \in Seq(Frames) /\ Len(q) \in Nat
  BY LenProperties DEF RecoveryInv, TypeInv, DecTypeOK, QueueOf
<1>1. ASSUME Begins \/ Drops \/ Ends \/ Refuses \/ Submits
      PROVE  decodeUnitQueue' = decodeUnitQueue
  BY <1>1
     DEF Begins, Drops, Ends, Refuses, Submits, StartFrame, FinishWhileWaiting,
         notifyFrameLost, FinishFrame, QueueOverflow, SubmitDirect
<1>2. ASSUME Queues
      PROVE  /\ decodeUnitQueue'.items = Append(q, recvFrame)
             /\ Len(Append(q, recvFrame)) = Len(q) + 1
             /\ Append(q, recvFrame)[Len(q) + 1] = recvFrame
             /\ \A i \in 1 .. Len(q) : Append(q, recvFrame)[i] = q[i]
  <2>1. QueueFrame /\ ~Stopped(decodeUnitQueue)
    BY <1>2 DEF Queues, Calm, Stopped
  <2>2. decodeUnitQueue'.items = Append(q, recvFrame)
    BY <1>0, <2>1, OfferedItems DEF RecoveryInv
  <2>3. recvFrame \in Frames
    BY <2>1 DEF QueueFrame, RecoveryInv, TypeInv, RecvTypeOK
  <2> QED
    BY <1>0, <2>2, <2>3, AppendProperties
<1>3. ASSUME Overflows PROVE decodeUnitQueue'.items = <<>>
  BY <1>0, <1>3, FlushedShape DEF Overflows, FlushOverflow
<1>4. ASSUME Takes
      PROVE  /\ 1 \in 1 .. Len(q) /\ decFrame' = q[1]
             /\ Len(decodeUnitQueue'.items) = Len(q) - 1
             /\ \A i \in 1 .. Len(q) - 1 : decodeUnitQueue'.items[i] = q[i + 1]
  <2>1. q # <<>> /\ decFrame' = Head(q) /\ decodeUnitQueue'.items = Tail(q)
    BY <1>4 DEF Takes
  <2>2. Len(q) \in Nat \ {0} /\ Head(q) = q[1]
    BY <1>0, <2>1, EmptySeq
  <2> QED
    BY <1>0, <2>1, <2>2, HeadTailProperties
<1> QED
  BY <1>0, <1>1, <1>2, <1>3, <1>4

(* Frames come from the host alone. *)
LEMMA HostsFramesNext ==
  ASSUME RecoveryInv, HostsFrames, Calm, RecoveryNext
  PROVE  HostsFrames'
<1> DEFINE q == decodeUnitQueue.items
<1>0. TypeInv /\ OrderInv /\ QueueOrder /\ Encoded /\ Near /\ CallsInv
  BY DEF RecoveryInv
<1>a. /\ \A f : Genuine(f, encoded) => Genuine(f, encoded')
      /\ \A k \in 1 .. Len(encoded) : k \in 1 .. Len(encoded')
      /\ Len(encoded) \in Nat /\ Len(encoded') \in Nat /\ Len(encoded) <= Len(encoded')
  BY <1>0, FramesStay, EncodedNext
<1>b. /\ q \in Seq(Frames) /\ Len(q) \in Nat /\ startFrameNumber \in Nat
      /\ decFrame.n \in Nat
      /\ recvPc # "idle" => recvFrame.n \in Nat \ {0}
      /\ recvPc = "queue" => startFrameNumber <= recvFrame.n
      /\ decFrame.n = 0 \/ decFrame.n < startFrameNumber
  BY <1>0, LenProperties, FrameFacts
     DEF TypeInv, LossTypeOK, DecTypeOK, RecvTypeOK, QueueOf, OrderInv, NoFrame
<1>1. (currentFrameNumber <= Len(encoded) + 1)'
  <2>1. CASE RtpStep
    <3>1. \E n \in currentFrameNumber .. Len(encoded) : currentFrameNumber' <= n + 1
      <4>1. currentFrameNumber \in Nat \ {0}
        BY <1>0 DEF Near
      <4>2. ASSUME NEW n \in currentFrameNumber .. Len(encoded), Rtp!Begin(n)
            PROVE  currentFrameNumber' <= n + 1
        <5>1. PICK b : Rtp!Outcome(n, b, FALSE, Rtp!GapReport(n))
          BY <4>2 DEF Rtp!Begin
        <5>2. currentFrameNumber' \in {n, n + 1}
          BY <1>a, <4>1, <5>1, Outcomes
        <5> QED
          BY <1>a, <4>1, <5>2
      <4>3. ASSUME currentFrameNumber \in currentFrameNumber .. Len(encoded), Rtp!Continue
            PROVE  currentFrameNumber' <= currentFrameNumber + 1
        <5>1. PICK b, r : Rtp!Outcome(currentFrameNumber, b, r, <<>>)
          BY <4>3 DEF Rtp!Continue
        <5> QED
          BY <1>a, <4>1, <4>3, <5>1, Outcomes
      <4>4. ASSUME NEW n \in currentFrameNumber .. Len(encoded), Rtp!LoseBlock(n)
            PROVE  currentFrameNumber' <= n + 1
        BY <4>1, <4>4 DEF Rtp!LoseBlock, Rtp!At
      <4> QED
        BY <2>1, <4>2, <4>3, <4>4 DEF RtpStep
    <3>2. encoded' = encoded /\ currentFrameNumber' \in Nat /\ currentFrameNumber \in Nat
      BY <1>0, <2>1, StepsMake DEF RtpStep, hostVars, Near
    <3> QED
      BY <1>a, <3>1, <3>2
  <2>2. CASE ~RtpStep
    <3>1. currentFrameNumber' = currentFrameNumber /\ currentFrameNumber \in Nat
      BY <1>0, <2>2
         DEF RecoveryNext, ReceiveSide, MakeCall, Receive, Decode, IdrThread, RfiThread,
             Host, rtpVars, rtpQueueVars, Near
    <3> QED
      BY <1>a, <3>1 DEF HostsFrames
  <2> QED
    BY <2>1, <2>2
<1>2. recvPc' # "idle" => Genuine(recvFrame', encoded')
  <2>1. CASE Begins
    <3>1. PICK n \in 1 .. Len(encoded) : StartFrame(KindOf(n))
      BY <2>1 DEF Begins
    <3>2. recvFrame' = KindOf(n) /\ encoded' = encoded
      BY <2>1, <3>1 DEF StartFrame, Begins
    <3> QED
      BY <3>1, <3>2 DEF KindOf, Genuine
  <2>2. CASE ~Begins
    <3>1. recvPc' # "idle" => recvFrame' = recvFrame /\ recvPc # "idle"
      BY <2>2, KindsOfSteps
         DEF Aside, Drops, Ends, Queues, Refuses, Overflows, Submits, Takes,
             FinishWhileWaiting, notifyFrameLost, FinishFrame, QueueFrame, QueueOverflow,
             FlushOverflow, SubmitDirect, WaitForFrame, recvVars
    <3> QED
      BY <1>a, <3>1 DEF HostsFrames
  <2> QED
    BY <2>1, <2>2
<1>3. \A i \in 1 .. Len(q') : Genuine(q'[i], encoded')
  <2>0. \A i \in 1 .. Len(q) : Genuine(q[i], encoded')
    BY <1>a DEF HostsFrames
  <2>1. CASE Aside \/ Begins \/ Drops \/ Ends \/ Refuses \/ Submits
    <3>1. decodeUnitQueue' = decodeUnitQueue
      BY <2>1, QueueSteps DEF Aside
    <3> QED
      BY <2>0, <3>1
  <2>2. CASE Queues
    <3>2. /\ Len(q') = Len(q) + 1 /\ q'[Len(q) + 1] = recvFrame
          /\ \A i \in 1 .. Len(q) : q'[i] = q[i]
      BY <2>2, QueueSteps
    <3>3. ASSUME NEW i \in 1 .. Len(q'), NEW f, f = q'[i] PROVE Genuine(f, encoded')
      <4>1. i \in 1 .. Len(q) \/ i = Len(q) + 1
        BY <1>b, <3>2
      <4>2. CASE i = Len(q) + 1
        <5>1. f = recvFrame
          BY <3>2, <3>3, <4>2
        <5> QED
          BY <1>a, <2>2, <5>1 DEF Queues, QueueFrame, HostsFrames
      <4>3. CASE i \in 1 .. Len(q)
        <5>1. f = q[i] /\ Genuine(q[i], encoded)
          BY <3>2, <3>3, <4>3 DEF HostsFrames
        <5> QED
          BY <1>a, <5>1
      <4> QED
        BY <4>1, <4>2, <4>3
    <3> QED
      BY <3>3
  <2>3. CASE Overflows
    <3>1. q' = <<>> /\ Len(<<>>) = 0
      BY <2>3, QueueSteps
    <3> QED
      BY <3>1
  <2>4. CASE Takes
    <3>1. /\ Len(q') = Len(q) - 1 /\ \A i \in 1 .. Len(q) - 1 : q'[i] = q[i + 1]
      BY <2>4, QueueSteps
    <3>2. ASSUME NEW i \in 1 .. Len(q'), NEW f, f = q'[i] PROVE Genuine(f, encoded')
      <4>1. i + 1 \in 1 .. Len(q) /\ f = q[i + 1]
        BY <1>b, <3>1, <3>2
      <4>2. Genuine(f, encoded)
        BY <4>1 DEF HostsFrames
      <4> QED
        BY <1>a, <4>2
    <3> QED
      BY <3>2
  <2> QED
    BY <2>1, <2>2, <2>3, <2>4, KindsOfSteps
<1>4. /\ \A n \in shown' : n \in 1 .. Len(encoded') /\ n <= decFrame'.n
      /\ decFrame'.n > 0 => decFrame'.n \in shown'
  <2>1. CASE UNCHANGED <<shown, decFrame>>
    BY <1>a, <2>1 DEF HostsFrames
  <2>2. CASE Shows /\ decFrame'.n \in 1 .. Len(encoded) /\ decFrame.n <= decFrame'.n
    BY <1>a, <1>b, <2>2 DEF Shows, HostsFrames
  <2>3. Submits => decFrame'.n \in 1 .. Len(encoded) /\ decFrame.n <= decFrame'.n /\ Shows
    BY <1>b DEF Submits, SubmitDirect, HostsFrames, Genuine
  <2>4. Takes => decFrame'.n \in 1 .. Len(encoded) /\ decFrame.n <= decFrame'.n /\ Shows
    <3> SUFFICES ASSUME Takes
                 PROVE  decFrame'.n \in 1 .. Len(encoded) /\ decFrame.n <= decFrame'.n
      BY DEF Takes
    <3>1. 1 \in 1 .. Len(q) /\ decFrame' = q[1]
      BY QueueSteps
    <3>2. Genuine(q[1], encoded) /\ decFrame.n < q[1].n
      BY <1>0, <3>1 DEF HostsFrames, QueueOrder
    <3> QED
      BY <1>b, <3>1, <3>2 DEF Genuine
  <2>5. Aside \/ Begins \/ Drops \/ Ends \/ Queues \/ Refuses \/ Overflows
          => UNCHANGED <<shown, decFrame>>
    BY DEF Aside, Begins, Drops, Ends, Queues, Refuses, Overflows, StartFrame,
           FinishWhileWaiting, notifyFrameLost, FinishFrame, QueueFrame, QueueOverflow,
           FlushOverflow, decVars
  <2> QED
    BY <2>1, <2>2, <2>3, <2>4, <2>5, KindsOfSteps
<1> QED
  BY <1>1, <1>2, <1>3, <1>4 DEF HostsFrames

(* A frame that is kept stays so: when the queue is emptied an IDR frame is *)
(* awaited, and the wait ends when one is received.                         *)
LEMMA KeptStays ==
  ASSUME RecoveryInv, HostsFrames, Calm, RecoveryNext,
         NEW r \in Nat, r < startFrameNumber, Kept(r)
  PROVE  Kept(r)'
<1> DEFINE q == decodeUnitQueue.items
<1>0. TypeInv /\ OrderInv /\ QueueOrder /\ Encoded
  BY DEF RecoveryInv
<1>a. /\ \A k \in Line : k \in 1 .. Len(encoded) /\ k < startFrameNumber
      /\ \A k \in 1 .. Len(encoded) : encoded'[k] = encoded[k]
      /\ startFrameNumber \in Nat /\ Len(q) \in Nat
  BY <1>0, LineTypes, FramesStay, LenProperties DEF TypeInv, DecTypeOK, QueueOf
<1>b. \A k \in Line : IsIdr(k)' <=> IsIdr(k)
  BY <1>a DEF IsIdr
<1>c. recvPc \in {"idle", "frame", "queue", "overflow"}
  BY <1>0 DEF TypeInv, RecvTypeOK
<1>d. recvPc = "queue" => startFrameNumber <= recvFrame.n /\ recvFrame.n \in Nat
  BY <1>0, FrameFacts DEF OrderInv, TypeInv, RecvTypeOK
<1>1. CASE Aside
  BY <1>a, <1>1 DEF Aside, Kept, Line, IsIdr
<1>2. CASE Begins
  <2>1. PICK n \in 1 .. Len(encoded) : StartFrame(KindOf(n))
    BY <1>2 DEF Begins
  <2>2. Line' = Line /\ recvPc = "idle" /\ recvPc' = "frame" /\ recvFrame' = KindOf(n)
    BY <1>2, <2>1, QueueSteps DEF Begins, StartFrame, Line
  <2>3. waitingForIdrFrame /\ KindOf(n).kind # "I" => waitingForIdrFrame'
    BY <2>1 DEF StartFrame, DropWaitsForIdr, IdrNeeded
  <2> QED
    BY <1>b, <2>2, <2>3 DEF Kept
<1>3. CASE Drops
  <2>1. /\ recvPc' = "idle" /\ recvPc \in {"idle", "frame"}
        /\ DropFrameState(waitingForIdrFrame)
    BY <1>3 DEF Drops, FinishWhileWaiting, notifyFrameLost, recvVars
  <2>3. waitingForIdrFrame => waitingForIdrFrame'
    BY <2>1 DEF DropFrameState, DropWaitsForIdr, IdrNeeded
  <2>4. Line' = Line
    BY <1>3, QueueSteps DEF Drops, Line
  <2>2. ~(recvPc # "idle" /\ recvFrame.kind = "I")
    BY <1>3 DEF Drops, FinishWhileWaiting, notifyFrameLost, Calm
  <2> QED
    BY <1>b, <2>1, <2>2, <2>3, <2>4 DEF Kept
<1>4. CASE Ends
  <2>1. Line' = Line /\ recvPc = "frame" /\ recvPc' = "queue" /\ recvFrame' = recvFrame
        /\ ~waitingForIdrFrame
    BY <1>4, QueueSteps DEF Ends, FinishFrame, Line
  <2> QED
    BY <1>b, <2>1 DEF Kept
<1>5. CASE Queues
  <2>1. /\ Len(q') = Len(q) + 1 /\ q'[Len(q) + 1] = recvFrame
        /\ \A i \in 1 .. Len(q) : q'[i] = q[i]
        /\ shown' = shown /\ encoded' = encoded
    BY <1>5, QueueSteps DEF Queues
  <2>2. Line \cup {recvFrame.n} \subseteq Line'
    <3>1. ASSUME NEW i \in 1 .. Len(q) PROVE q[i].n \in Line'
      <4>1. i \in 1 .. Len(q') /\ q'[i] = q[i]
        BY <1>a, <2>1
      <4> QED
        BY <4>1 DEF Line
    <3>2. recvFrame.n \in Line'
      <4>1. Len(q) + 1 \in 1 .. Len(q')
        BY <1>a, <2>1
      <4> QED
        BY <2>1, <4>1 DEF Line
    <3> QED
      BY <2>1, <3>1, <3>2 DEF Line
  <2>3. recvPc = "queue" /\ recvFrame.kind = "I"
          => encoded'[recvFrame.n].kind = "I" /\ r < recvFrame.n
    BY <1>a, <1>d, <2>1 DEF HostsFrames, Genuine, IsIdr
  <2>4. recvPc = "queue"
    BY <1>5 DEF Queues, QueueFrame
  <2> QED
    BY <1>b, <2>2, <2>3, <2>4 DEF Kept, IsIdr
<1>6. CASE Overflows
  <2>1. waitingForIdrFrame' /\ recvPc' = "idle"
    BY <1>0, <1>6 DEF Overflows, FlushOverflow, OrderInv
  <2> QED
    BY <2>1 DEF Kept
<1>9. CASE Refuses
  <2>1. waitingForIdrFrame' /\ recvPc' = "overflow"
    BY <1>9, Zenon DEF Refuses, QueueOverflow, DropFrameState, DropWaitsForIdr, IdrNeeded
  <2> QED
    BY <2>1 DEF Kept
<1>7. CASE Submits
  <2>1. /\ recvPc = "queue" /\ recvPc' = "idle" /\ decFrame' = recvFrame
        /\ encoded' = encoded
        /\ decodeUnitQueue' = decodeUnitQueue
        /\ shown' = IF recvFrame.kind = "I" THEN {recvFrame.n} ELSE shown \cup {recvFrame.n}
    BY <1>7, QueueSteps DEF Submits, SubmitDirect, Shows
  <2>2. r < recvFrame.n /\ recvFrame.n \in Line'
    BY <1>a, <1>d, <2>1 DEF Line
  <2>3. CASE recvFrame.kind = "I"
    <3>1. encoded'[recvFrame.n].kind = "I"
      BY <2>1, <2>3 DEF HostsFrames, Genuine, IsIdr
    <3> QED
      BY <2>2, <3>1 DEF Kept, IsIdr
  <2>4. CASE recvFrame.kind # "I"
    <3>1. Line \subseteq Line'
      BY <2>1, <2>4 DEF Line
    <3> QED
      BY <1>b, <2>1, <2>4, <3>1 DEF Kept
  <2> QED
    BY <2>3, <2>4
<1>8. CASE Takes
  <2>1. /\ encoded' = encoded /\ 1 \in 1 .. Len(q) /\ Len(q') = Len(q) - 1
        /\ \A i \in 1 .. Len(q) - 1 : q'[i] = q[i + 1]
        /\ shown' = IF q[1].kind = "I" THEN {q[1].n} ELSE shown \cup {q[1].n}
        /\ UNCHANGED <<recvPc, recvFrame, waitingForIdrFrame>>
    BY <1>8, QueueSteps DEF Takes, WaitForFrame, Shows, recvVars
  <2>2. /\ q[1].n \in Line' /\ Genuine(q[1], encoded)
        /\ \A k \in shown : k < q[1].n /\ q[1].n \in Nat /\ k \in Nat
    <3>1. /\ Genuine(q[1], encoded) /\ decFrame.n < q[1].n /\ q[1].n \in Nat
          /\ decFrame.n \in Nat
          /\ \A k \in shown : k \in Nat /\ k <= decFrame.n
      BY <1>0, <2>1, FrameFacts
         DEF HostsFrames, Genuine, QueueOrder, TypeInv, DecTypeOK, NoFrame
    <3> QED
      BY <2>1, <3>1 DEF Line
  <2>3. ASSUME NEW i \in 1 .. Len(q) PROVE q[i].n \in Line'
    <3>1. CASE i = 1
      BY <2>2, <3>1
    <3>2. CASE i # 1
      <4>1. i - 1 \in 1 .. Len(q') /\ q'[i - 1] = q[i]
        BY <1>a, <2>1, <3>2
      <4> QED
        BY <4>1 DEF Line
    <3> QED
      BY <3>1, <3>2
  <2>4. CASE \E k \in Line : k = r \/ (r < k /\ IsIdr(k))
    <3>1. PICK k \in Line : k = r \/ (r < k /\ IsIdr(k))
      BY <2>4
    <3>2. CASE k \in Line'
      BY <1>b, <3>1, <3>2 DEF Kept
    <3>3. CASE k \notin Line'
      <4>1. k \in shown /\ q[1].kind = "I"
        BY <2>1, <2>3, <3>3 DEF Line
      <4>2. r < q[1].n /\ encoded'[q[1].n].kind = "I"
        BY <2>1, <2>2, <3>1, <4>1 DEF Genuine, IsIdr
      <4> QED
        BY <2>2, <4>2 DEF Kept, IsIdr
    <3> QED
      BY <3>2, <3>3
  <2>5. CASE \/ waitingForIdrFrame /\ recvPc # "queue"
             \/ recvPc # "idle" /\ recvFrame.kind = "I"
    BY <2>1, <2>5 DEF Kept
  <2> QED
    BY <2>4, <2>5 DEF Kept
<1> QED
  BY <1>1, <1>2, <1>3, <1>4, <1>5, <1>6, <1>7, <1>8, <1>9, KindsOfSteps

(* When startFrameNumber advances, the frame before it was queued or an IDR *)
(* frame is awaited.                                                        *)
LEMMA NewestKept ==
  ASSUME RecoveryInv, HostsFrames, Calm, RecoveryNext
  PROVE  \/ startFrameNumber' = startFrameNumber
         \/ \E r \in Nat : startFrameNumber' = r + 1 /\ startFrameNumber <= r /\ Kept(r)'
<1> DEFINE q == decodeUnitQueue.items
<1>1. CASE Queues \/ Submits
  <2>1. /\ recvPc = "queue" /\ startFrameNumber' = nextFrameNumber
    BY <1>1 DEF Queues, Submits, QueueFrame, SubmitDirect
  <2>2. /\ startFrameNumber' = recvFrame.n + 1 /\ startFrameNumber <= recvFrame.n
        /\ recvFrame.n \in Nat
    BY <2>1, FrameFacts DEF RecoveryInv, OrderInv, TypeInv, RecvTypeOK
  <2>3. recvFrame.n \in Line'
    <3>1. CASE Submits
      BY <3>1 DEF Submits, SubmitDirect, Shows, Line
    <3>2. CASE Queues
      <4>1. Len(q) \in Nat /\ Len(q') = Len(q) + 1 /\ q'[Len(q) + 1] = recvFrame
        BY <3>2, QueueSteps
      <4>2. Len(q) + 1 \in 1 .. Len(q')
        BY <4>1
      <4> QED
        BY <4>1, <4>2 DEF Line
    <3> QED
      BY <1>1, <3>1, <3>2
  <2> QED
    BY <2>2, <2>3 DEF Kept
<1>2. CASE ~(Queues \/ Submits)
  <2>1. startFrameNumber' = startFrameNumber
    BY <1>2, KindsOfSteps
       DEF Aside, Begins, Drops, Ends, Refuses, Overflows, Takes, StartFrame,
           FinishWhileWaiting, notifyFrameLost, FinishFrame, QueueOverflow, FlushOverflow,
           WaitForFrame, lossVars
  <2> QED
    BY <2>1
<1> QED
  BY <1>1, <1>2

(* A flush leaves no tuple. *)
LEMMA FlushedFirsts ==
  ASSUME NEW u \in QueueOf(Ranges)
  PROVE  Firsts(Flushed(u)) = {}
BY FlushedShape DEF Firsts

(* An offer adds one tuple at most. *)
LEMMA OfferedFirsts ==
  ASSUME NEW u \in QueueOf(Ranges), NEW x \in Ranges, NEW bound
  PROVE  Firsts(Offered(u, bound, x)) \subseteq Firsts(u) \cup {x[1]}
<1>1. CASE Offered(u, bound, x) = u
  BY <1>1
<1>2. CASE Offered(u, bound, x) # u
  <2>1. u.items \in Seq(Ranges)
    BY DEF QueueOf
  <2>2. Offered(u, bound, x).items = Append(u.items, x)
    BY <1>2 DEF Offered, Link, QueueOf
  <2>3. /\ Len(Append(u.items, x)) = Len(u.items) + 1
        /\ Append(u.items, x)[Len(u.items) + 1] = x
        /\ \A i \in 1 .. Len(u.items) : Append(u.items, x)[i] = u.items[i]
        /\ Len(u.items) \in Nat
    BY <2>1, AppendProperties, LenProperties
  <2> DEFINE v == Append(u.items, x)
  <2> HIDE DEF v
  <2>4. ASSUME NEW i \in 1 .. Len(v) PROVE v[i][1] \in Firsts(u) \cup {x[1]}
    <3>1. i \in 1 .. Len(u.items) \/ i = Len(u.items) + 1
      BY <2>3 DEF v
    <3> QED
      BY <2>3, <3>1 DEF v, Firsts
  <2> QED
    BY <2>2, <2>4 DEF v, Firsts
<1> QED
  BY <1>1, <1>2

(* A poll takes one of the tuples. *)
LEMMA PolledFirsts ==
  ASSUME NEW u \in QueueOf(Ranges), PollStatus(u) = LBQ_SUCCESS
  PROVE  Firsts(Polled(u)) \subseteq Firsts(u) /\ Head(u.items)[1] \in Firsts(u)
<1>1. /\ u.items # <<>> /\ Polled(u).items = Tail(u.items) /\ u.items \in Seq(Ranges)
  BY PolledShape DEF QueueOf
<1>2. /\ Len(u.items) \in Nat \ {0} /\ Head(u.items) = u.items[1]
      /\ Len(Tail(u.items)) = Len(u.items) - 1
      /\ \A i \in 1 .. Len(Tail(u.items)) : Tail(u.items)[i] = u.items[i + 1]
  BY <1>1, HeadTailProperties, EmptySeq
<1>3. ASSUME NEW i \in 1 .. Len(Tail(u.items)) PROVE Tail(u.items)[i][1] \in Firsts(u)
  <2>1. i + 1 \in 1 .. Len(u.items)
    BY <1>2
  <2> QED
    BY <1>2, <2>1 DEF Firsts
<1>4. 1 \in 1 .. Len(u.items)
  BY <1>2
<1> QED
  BY <1>1, <1>2, <1>3, <1>4 DEF Firsts

(* A request for an invalidation adds a range that begins with the frame it *)
(* names.                                                                   *)
LEMMA RequestFirsts ==
  ASSUME NEW event, NEW tuples \in QueueOf(Ranges),
         invalidReferenceFrameTuples \in QueueOf(Ranges),
         NEW first \in Nat, NEW last \in Nat,
           RequestInvalidation(event, tuples, first, last)
  PROVE  Firsts(invalidReferenceFrameTuples') \subseteq Firsts(tuples) \cup {first}
<1>1. CASE LiRequestIdrFrame
  BY <1>1, FlushedFirsts DEF LiRequestIdrFrame
<1>2. CASE invalidReferenceFrameTuples' = Offered(tuples, RfiBound, <<first, last>>)
  <2>1. <<first, last>> \in Ranges /\ <<first, last>>[1] = first
    BY DEF Ranges
  <2> QED
    BY <1>2, <2>1, OfferedFirsts
<1> QED
  BY <1>1, <1>2 DEF RequestInvalidation

(* The receive thread asks for ranges that begin with startFrameNumber. *)
LEMMA ReceiveFirsts ==
  ASSUME RecoveryInv, HostsFrames, Calm, MakeCall \/ Receive
  PROVE  Firsts(invalidReferenceFrameTuples') \subseteq
           Firsts(invalidReferenceFrameTuples) \cup {startFrameNumber}
<1> DEFINE u == invalidReferenceFrameTuples
<1>0. u \in QueueOf(Ranges) /\ startFrameNumber \in Nat /\ u = invalidReferenceFrameTuples
  BY DEF RecoveryInv, TypeInv, CtlTypeOK, LossTypeOK
<1>1. LiRequestIdrFrame => Firsts(u') = {}
  BY <1>0, FlushedFirsts DEF LiRequestIdrFrame
<1>2. NoRequest => u' = u
  BY DEF NoRequest, ctlVars
<1>3. ASSUME NEW last \in Nat, connectionDetectedFrameLoss(startFrameNumber, last)
      PROVE  Firsts(u') \subseteq Firsts(u) \cup {startFrameNumber}
  BY <1>0, <1>3, RequestFirsts DEF connectionDetectedFrameLoss
<1>4. ASSUME MakeCall PROVE Firsts(u') \subseteq Firsts(u) \cup {startFrameNumber}
  <2> DEFINE call == Head(calls)  n == call[2]
  <2>0. calls \in Seq(Calls) /\ calls # <<>>
    BY <1>4 DEF MakeCall, RecoveryInv, CallsInv
  <2>1. call = calls[1] /\ 1 \in 1 .. Len(calls)
    BY <2>0, EmptySeq
  <2>2. n \in 1 .. Len(encoded) /\ Len(encoded) \in Nat
    BY <2>1, LenProperties DEF RecoveryInv, CallsInv, Fits, Encoded
  <2>3. n \in Nat /\ n - 1 \in Nat
    BY <2>2
  <2> HIDE DEF n
  <2>4. ASSUME notifyFrameLost(n)
        PROVE  Firsts(u') \subseteq Firsts(u) \cup {startFrameNumber}
    BY <1>1, <1>2, <1>3, <2>3, <2>4 DEF notifyFrameLost
  <2>5. ASSUME DropOldFrame(KindOf(n))
        PROVE  Firsts(u') \subseteq Firsts(u) \cup {startFrameNumber}
    BY <2>5 DEF DropOldFrame, vars, ctlVars
  <2>6. ASSUME StartFrame(KindOf(n))
        PROVE  Firsts(u') \subseteq Firsts(u) \cup {startFrameNumber}
    <3> DEFINE atLimit == IsGap(KindOf(n)) /\ DropLimitReached
               tuples == IF atLimit THEN Flushed(u) ELSE u
    <3>1. tuples \in QueueOf(Ranges) /\ Firsts(tuples) \subseteq Firsts(u)
      BY <1>0, FlushedShape, FlushedFirsts
    <3>2. KindOf(n).n = n
      BY DEF KindOf
    <3>3. CASE RequestInvalidation(idrFrameRequiredEvent
                 \/ atLimit, tuples, startFrameNumber,
                                   KindOf(n).n - 1)
      <4> HIDE DEF tuples, atLimit
      <4> QED
        BY <1>0, <2>3, <3>1, <3>2, <3>3, RequestFirsts
    <3> QED
      BY <1>1, <1>2, <2>6, <3>3 DEF StartFrame
  <2> QED
    BY <1>4, <2>4, <2>5, <2>6 DEF MakeCall, n
<1>5. ASSUME Receive PROVE Firsts(u') \subseteq Firsts(u) \cup {startFrameNumber}
  <2>1. ASSUME FinishWhileWaiting
        PROVE  Firsts(u') \subseteq Firsts(u) \cup {startFrameNumber}
    <3>1. recvFrame.n \in Nat
      BY <2>1, FrameFacts DEF FinishWhileWaiting, RecoveryInv, TypeInv, RecvTypeOK
    <3> QED
      BY <1>1, <1>2, <1>3, <2>1, <3>1 DEF FinishWhileWaiting
  <2>2. ASSUME FinishFrame \/ QueueFrame \/ QueueOverflow \/ FlushOverflow \/ SubmitDirect(TRUE)
        PROVE  u' = u \/ LiRequestIdrFrame
    BY <1>2, <2>2
       DEF FinishFrame, QueueFrame, QueueOverflow, FlushOverflow, SubmitDirect, NoRequest, ctlVars
  <2> QED
    BY <1>1, <1>5, <2>1, <2>2 DEF Receive
<1> QED
  BY <1>4, <1>5

(* A set of numbers has a smallest element. *)
LEMMA SmallestElement ==
  ASSUME NEW S \in SUBSET Nat, NEW s \in S
  PROVE  \E m \in S : \A t \in S : m <= t
<1> DEFINE R == { p \in Nat \X Nat : p[1] < p[2] }
<1>1. IsWellFoundedOn(R, Nat)
  BY NatLessThanWellFounded DEF OpToRel
<1>2. PICK m \in S : \A t \in S : ~ (<<t, m>> \in R)
  <2> HIDE DEF R
  <2> QED
    BY <1>1, WFMin
<1>3. ASSUME NEW t \in S PROVE m <= t
  <2>1. m \in Nat /\ t \in Nat /\ ~ (t < m)
    BY <1>2
  <2> QED
    BY <2>1
<1> QED
  BY <1>3

(* A set of numbers that has a bound has a largest element. *)
LEMMA LargestElement ==
  ASSUME NEW S \in SUBSET Nat, NEW s \in S, NEW bound \in Nat, \A t \in S : t <= bound
  PROVE  \E m \in S : \A t \in S : t <= m
<1> DEFINE D == { bound - t : t \in S }
<1>1. D \in SUBSET Nat /\ bound - s \in D
  <2>1. \A t \in S : bound - t \in Nat
    OBVIOUS
  <2> QED
    BY <2>1
<1>2. PICK d \in D : \A t \in D : d <= t
  BY <1>1, SmallestElement
<1>3. PICK m \in S : d = bound - m
  BY <1>2
<1>4. ASSUME NEW t \in S PROVE t <= m
  <2>1. d <= bound - t
    BY <1>2
  <2> QED
    BY <1>3, <2>1
<1> QED
  BY <1>4

(* The host encoded an IDR frame, and none after the last one. *)
LEMMA LastIdrIsLast ==
  ASSUME Encoded, Refers, Len(encoded) # 0
  PROVE  /\ LastIdr \in 1 .. Len(encoded)
         /\ \A k \in LastIdr + 1 .. Len(encoded) : ~IsIdr(k)
<1> DEFINE S == { n \in 1 .. Len(encoded) : encoded[n].kind = "I" }
<1>0. Len(encoded) \in Nat \ {0} /\ DOMAIN encoded = 1 .. Len(encoded)
  BY LenProperties DEF Encoded
<1>1. S \in SUBSET Nat /\ 1 \in S /\ \A t \in S : t <= Len(encoded)
  BY <1>0 DEF Refers
<1>2. \E m \in S : \A t \in S : t <= m
  <2> HIDE DEF S
  <2> QED
    BY <1>0, <1>1, LargestElement
<1>3. \E n \in DOMAIN encoded :
        encoded[n].kind = "I" /\ \A k \in DOMAIN encoded : encoded[k].kind = "I" => k <= n
  BY <1>0, <1>2
<1>4. /\ LastIdr \in DOMAIN encoded
      /\ \A k \in DOMAIN encoded : encoded[k].kind = "I" => k <= LastIdr
  BY <1>3 DEF LastIdr
<1>5. ASSUME NEW k \in LastIdr + 1 .. Len(encoded) PROVE ~IsIdr(k)
  <2>1. LastIdr \in Nat /\ k \in DOMAIN encoded /\ ~(k <= LastIdr)
    BY <1>0, <1>4
  <2> QED
    BY <1>4, <2>1 DEF IsIdr
<1> QED
  BY <1>0, <1>4, <1>5

(* An answer refers to the frame before, or to the one before a range that *)
(* was requested if the host encoded no IDR frame since.                   *)
LEMMA Answers ==
  ASSUME Encoded, Refers, NEW requests,
         \A q \in requests : q[1] = "rfi" => q[2] \in Nat /\ q[2] <= Len(encoded) + 1
  PROVE  LET a == Answer(requests)  n == Len(encoded) + 1 IN
         /\ n = 1 => a.kind = "I"
         /\ a.kind = "P" => a.ref = n - 1
         /\ a.kind = "R" =>
              /\ \E q \in requests : q[1] = "rfi" /\ q[2] = a.ref + 1
              /\ a.ref \in 1 .. n - 1
              /\ \A k \in a.ref + 1 .. n - 1 : ~IsIdr(k)
<1> DEFINE n == Len(encoded) + 1
           starts == { r[2] : r \in { q \in requests : q[1] = "rfi" } }
           first == CHOOSE s \in starts : \A t \in starts : s <= t
           a == Answer(requests)
<1>0. Len(encoded) \in Nat
  BY LenProperties DEF Encoded
<1>1. a = IF n = 1 \/ <<"idr">> \in requests THEN [kind |-> "I", ref |-> 0]
          ELSE IF starts = {} THEN [kind |-> "P", ref |-> n - 1]
          ELSE IF first <= LastIdr THEN [kind |-> "I", ref |-> 0]
          ELSE [kind |-> "R", ref |-> first - 1]
  BY DEF Answer
<1>2. starts \in SUBSET Nat /\ \A s \in starts : s <= n
  OBVIOUS
<1>3. starts # {} => first \in starts
  <2> SUFFICES ASSUME starts # {} PROVE first \in starts
    OBVIOUS
  <2>1. PICK s : s \in starts
    OBVIOUS
  <2>2. \E m \in starts : \A t \in starts : m <= t
    <3> HIDE DEF starts
    <3> QED
      BY <1>2, <2>1, SmallestElement
  <2> HIDE DEF starts
  <2> QED
    BY <2>2
<1>4. \A s \in starts : \E q \in requests : q[1] = "rfi" /\ q[2] = s
  OBVIOUS
<1> HIDE DEF starts, first, a
<1>5. ASSUME a.kind = "R"
      PROVE  /\ \E q \in requests : q[1] = "rfi" /\ q[2] = a.ref + 1
             /\ a.ref \in 1 .. n - 1
             /\ \A k \in a.ref + 1 .. n - 1 : ~IsIdr(k)
  <2>1. /\ n # 1 /\ starts # {} /\ ~(first <= LastIdr) /\ a.ref = first - 1
    BY <1>1, <1>5
  <2>2. first \in starts /\ first \in Nat /\ first <= n
    BY <1>2, <1>3, <2>1
  <2>3. LastIdr \in 1 .. Len(encoded) /\ \A k \in LastIdr + 1 .. Len(encoded) : ~IsIdr(k)
    BY <1>0, <2>1, LastIdrIsLast
  <2>4. a.ref \in 1 .. n - 1 /\ a.ref + 1 = first /\ LastIdr + 1 <= first
    BY <1>0, <2>1, <2>2, <2>3
  <2>5. ASSUME NEW k \in a.ref + 1 .. n - 1 PROVE ~IsIdr(k)
    <3>1. k \in LastIdr + 1 .. Len(encoded)
      BY <1>0, <2>2, <2>3, <2>4
    <3> QED
      BY <2>3, <3>1
  <2> QED
    BY <1>4, <2>2, <2>4, <2>5
<1>6. (n = 1 => a.kind = "I") /\ (a.kind = "P" => a.ref = n - 1)
  BY <1>1
<1> QED
  BY <1>5, <1>6 DEF a

(* The requests on the way are what the depacketizer asked for. *)
LEMMA RequestedNext ==
  ASSUME RecoveryInv, Requested, RecoveryNext
  PROVE  Requested'
<1>0. invalidReferenceFrameTuples \in QueueOf(Ranges)
  BY DEF RecoveryInv, TypeInv, CtlTypeOK
<1>1. CASE RfiThread
  <2>1. CASE RfiWait
    <3>1. Head(invalidReferenceFrameTuples.items) \in Ranges
      <4>1. /\ invalidReferenceFrameTuples.items # <<>>
            /\ invalidReferenceFrameTuples.items \in Seq(Ranges)
        BY <1>0, <2>1, PolledShape DEF RfiWait, TakeInvalidation, QueueOf
      <4> QED
        BY <4>1, HeadTailProperties
    <3> QED
      BY <2>1, <3>1 DEF RfiWait, Requested
  <2>2. CASE RfiMore
    <3>1. CASE rfiRange' = rfiRange
      BY <2>2, <3>1 DEF RfiMore, Requested
    <3>2. CASE /\ TakeInvalidation
               /\ rfiRange' = Extended(rfiRange, Head(invalidReferenceFrameTuples.items))
      <4>1. /\ invalidReferenceFrameTuples.items # <<>>
            /\ invalidReferenceFrameTuples.items \in Seq(Ranges)
        BY <1>0, <3>2, PolledShape DEF TakeInvalidation, QueueOf
      <4>2. Head(invalidReferenceFrameTuples.items) \in Ranges
        BY <4>1, HeadTailProperties
      <4>3. Extended(rfiRange, Head(invalidReferenceFrameTuples.items)) \in Ranges
        BY <4>2 DEF Extended, Ranges, Requested
      <4> QED
        BY <2>2, <3>2, <4>3 DEF RfiMore, Requested
    <3> QED
      BY <2>2, <3>1, <3>2 DEF RfiMore
  <2>3. CASE RfiSend
    <3>1. <<"rfi", rfiRange[1], rfiRange[2]>> \in Requests /\ <<0, 0>> \in Ranges
      BY DEF Requests, Requested, Ranges
    <3>2. Append(toHost, <<"rfi", rfiRange[1], rfiRange[2]>>) \in Seq(Requests)
      BY <3>1, AppendProperties DEF Requested
    <3> QED
      BY <2>3, <3>1, <3>2 DEF RfiSend, Requested
  <2> QED
    BY <1>1, <2>1, <2>2, <2>3 DEF RfiThread
<1>2. CASE IdrThread
  <2>1. <<"idr">> \in Requests
    BY DEF Requests
  <2>2. Append(toHost, <<"idr">>) \in Seq(Requests)
    BY <2>1, AppendProperties DEF Requested
  <2> QED
    BY <1>2, <2>2 DEF IdrThread, IdrWait, IdrClear, IdrFlush, IdrSend, Requested
<1>3. CASE Host
  <2>1. PICK k \in 0 .. Len(toHost) : toHost' = SubSeq(toHost, k + 1, Len(toHost))
    BY <1>3 DEF Host
  <2>2. toHost' \in Seq(Requests)
    BY <2>1 DEF Requested
  <2> QED
    BY <1>3, <2>2 DEF Host, threadVars, Requested
<1>4. CASE ~(RfiThread \/ IdrThread \/ Host)
  <2>1. UNCHANGED <<toHost, rfiRange>>
    BY <1>4
       DEF RecoveryNext, ReceiveSide, RtpStep, MakeCall, Receive, Decode, hostVars,
           threadVars
  <2> QED
    BY <2>1 DEF Requested
<1> QED
  BY <1>1, <1>2, <1>3, <1>4

(* What is on its way to the host was before, or was just sent. *)
LEMMA ToHostSteps ==
  ASSUME Requested, RecoveryNext, NEW i \in 1 .. Len(toHost')
  PROVE  \/ \E j \in 1 .. Len(toHost) : toHost'[i] = toHost[j]
         \/ IdrSend /\ toHost'[i] = <<"idr">>
         \/ RfiSend /\ toHost'[i] = <<"rfi", rfiRange[1], rfiRange[2]>>
<1>0. toHost \in Seq(Requests) /\ Len(toHost) \in Nat
  BY LenProperties DEF Requested
<1>a. ASSUME NEW x \in Requests, toHost' = Append(toHost, x)
      PROVE  toHost'[i] = x \/ \E j \in 1 .. Len(toHost) : toHost'[i] = toHost[j]
  <2>1. /\ Len(Append(toHost, x)) = Len(toHost) + 1
        /\ Append(toHost, x)[Len(toHost) + 1] = x
        /\ \A j \in 1 .. Len(toHost) : Append(toHost, x)[j] = toHost[j]
    BY <1>0, AppendProperties
  <2>2. i \in 1 .. Len(toHost) \/ i = Len(toHost) + 1
    BY <1>0, <1>a, <2>1
  <2> QED
    BY <1>a, <2>1, <2>2
<1>1. CASE IdrSend
  <2>1. <<"idr">> \in Requests /\ toHost' = Append(toHost, <<"idr">>)
    BY <1>1 DEF Requests, IdrSend
  <2> QED
    BY <1>1, <1>a, <2>1
<1>2. CASE RfiSend
  <2>1. <<"rfi", rfiRange[1], rfiRange[2]>> \in Requests
    BY DEF Requests, Requested
  <2>2. toHost' = Append(toHost, <<"rfi", rfiRange[1], rfiRange[2]>>)
    BY <1>2 DEF RfiSend
  <2> QED
    BY <1>2, <1>a, <2>1, <2>2
<1>3. CASE Host
  <2>1. PICK k \in 0 .. Len(toHost) : toHost' = SubSeq(toHost, k + 1, Len(toHost))
    BY <1>3 DEF Host
  <2>2. k \in Nat /\ k <= Len(toHost)
    BY <1>0
  <2>3. toHost' = SubSeq(toHost, k + 1, Len(toHost))
    BY <2>1
  <2>4. Len(toHost') = Len(toHost) - k /\ i \in 1 .. Len(toHost) - k
    BY <1>0, <2>2, <2>3
  <2>5. i + k \in 1 .. Len(toHost) /\ toHost'[i] = toHost[i + k]
    BY <1>0, <2>2, <2>3, <2>4
  <2> QED
    BY <2>5
<1>4. CASE ~(IdrSend \/ RfiSend \/ Host)
  <2>1. toHost' = toHost
    BY <1>4
       DEF RecoveryNext, ReceiveSide, RtpStep, MakeCall, Receive, Decode, IdrThread,
           IdrWait, IdrClear, IdrFlush, RfiThread, RfiWait, RfiMore, hostVars
  <2> QED
    BY <2>1
<1> QED
  BY <1>1, <1>2, <1>3, <1>4

(* The ranges that wait begin as they did, or with startFrameNumber. *)
LEMMA FirstsNext ==
  ASSUME RecoveryInv, HostsFrames, Calm, RecoveryNext
  PROVE  Firsts(invalidReferenceFrameTuples') \subseteq
           Firsts(invalidReferenceFrameTuples) \cup {startFrameNumber}
<1> DEFINE u == invalidReferenceFrameTuples
<1>0. u \in QueueOf(Ranges)
  BY DEF RecoveryInv, TypeInv, CtlTypeOK
<1>1. CASE MakeCall \/ Receive
  BY <1>1, ReceiveFirsts
<1>2. CASE FlushInvalidations
  BY <1>0, <1>2, FlushedFirsts DEF FlushInvalidations
<1>3. CASE TakeInvalidation
  BY <1>0, <1>3, PolledFirsts DEF TakeInvalidation
<1>4. CASE u' = u
  BY <1>4
<1>5. MakeCall \/ Receive \/ FlushInvalidations \/ TakeInvalidation \/ u' = u
  BY DEF RecoveryNext, ReceiveSide, RtpStep, Decode, WaitForFrame, CompleteFrame,
         IdrThread, IdrWait, IdrClear, IdrFlush, IdrSend, ClearIdrEvent, RfiThread,
         RfiWait, RfiMore, RfiSend, Host, vars, ctlVars
<1> QED
  BY <1>1, <1>2, <1>3, <1>4, <1>5

(* No step asks for anything new but for what begins with startFrameNumber: a *)
(* range that is extended begins as it did, and so does the answer.           *)
LEMMA AsksNext ==
  ASSUME RecoveryInv, HostsFrames, Calm, Requested, StartsKept, Refers, RecoveryNext,
         NEW s, Asks(s)'
  PROVE  Asks(s) \/ s = startFrameNumber'
<1> DEFINE u == invalidReferenceFrameTuples
<1>0. u \in QueueOf(Ranges) /\ Encoded
  BY DEF RecoveryInv, TypeInv, CtlTypeOK
<1>1. CASE s \in Firsts(u')
  BY <1>1, FirstsNext DEF Asks
<1>2. ASSUME rfiPc' # "wait", s = rfiRange'[1] PROVE Asks(s)
  <2>1. CASE RfiThread
    <3>1. CASE RfiWait
      <4>1. PollStatus(u) = LBQ_SUCCESS /\ rfiRange' = Head(u.items)
        BY <3>1 DEF RfiWait, TakeInvalidation
      <4>2. Head(u.items)[1] \in Firsts(u)
        BY <1>0, <4>1, PolledFirsts
      <4> QED
        BY <1>2, <4>1, <4>2 DEF Asks
    <3>2. CASE RfiMore
      <4>1. rfiPc = "more" /\ rfiRange'[1] = rfiRange[1]
        BY <3>2 DEF RfiMore, Extended
      <4> QED
        BY <1>2, <4>1 DEF Asks
    <3>3. CASE RfiSend
      BY <1>2, <3>3 DEF RfiSend
    <3> QED
      BY <2>1, <3>1, <3>2, <3>3 DEF RfiThread
  <2>2. CASE UNCHANGED <<rfiPc, rfiRange>>
    BY <1>2, <2>2 DEF Asks
  <2>3. RfiThread \/ UNCHANGED <<rfiPc, rfiRange>>
    BY DEF RecoveryNext, ReceiveSide, RtpStep, MakeCall, Receive, Decode, IdrThread, Host,
           threadVars
  <2> QED
    BY <2>1, <2>2, <2>3
<1>3. ASSUME NEW i \in 1 .. Len(toHost'), toHost'[i][1] = "rfi", s = toHost'[i][2]
      PROVE  Asks(s)
  <2>1. CASE \E j \in 1 .. Len(toHost) : toHost'[i] = toHost[j]
    BY <1>3, <2>1 DEF Asks
  <2>2. CASE RfiSend /\ toHost'[i] = <<"rfi", rfiRange[1], rfiRange[2]>>
    BY <1>3, <2>2 DEF RfiSend, Asks
  <2>3. toHost'[i] # <<"idr">>
    BY <1>3
  <2> QED
    BY <2>1, <2>2, <2>3, ToHostSteps
<1>4. ASSUME NEW m \in 1 .. Len(encoded'), encoded'[m].kind = "R", s = encoded'[m].ref + 1
      PROVE  Asks(s)
  <2>0. /\ Len(encoded) \in Nat /\ \A n \in 1 .. Len(encoded) : encoded'[n] = encoded[n]
    BY <1>0, EncodedNext
  <2>1. CASE m \in 1 .. Len(encoded)
    <3>1. encoded[m].kind = "R" /\ s = encoded[m].ref + 1
      BY <1>4, <2>0, <2>1
    <3> QED
      BY <2>1, <3>1 DEF Asks
  <2>2. CASE m \notin 1 .. Len(encoded)
    <3>1. Host
      <4>1. encoded' # encoded
        BY <1>4, <2>2
      <4> QED
        BY <4>1
           DEF RecoveryNext, ReceiveSide, RtpStep, MakeCall, Receive, Decode, IdrThread,
               RfiThread, hostVars
    <3>2. PICK k \in 0 .. Len(toHost) :
            encoded' = Append(encoded, Answer({ toHost[i] : i \in 1 .. k }))
      BY <3>1 DEF Host
    <3> DEFINE requests == { toHost[i] : i \in 1 .. k }
               a == Answer(requests)
    <3>3. /\ Len(encoded') = Len(encoded) + 1 /\ encoded'[Len(encoded) + 1] = a
      <4> HIDE DEF a
      <4>1. encoded \in Seq(Range(encoded) \cup {a}) /\ a \in Range(encoded) \cup {a}
        BY <1>0 DEF Encoded
      <4>2. encoded' = Append(encoded, a)
        BY <3>2 DEF a
      <4> QED
        BY <4>1, <4>2, AppendProperties
    <3> HIDE DEF a
    <3>4. m = Len(encoded) + 1 /\ a.kind = "R" /\ s = a.ref + 1
      BY <1>4, <2>0, <2>2, <3>3
    <3>5. ASSUME NEW q \in requests, q[1] = "rfi"
          PROVE  Asks(q[2]) /\ q[2] \in Nat /\ q[2] <= Len(encoded) + 1
      <4>1. PICK i \in 1 .. k : q = toHost[i]
        OBVIOUS
      <4>2. Len(toHost) \in Nat
        BY LenProperties DEF Requested
      <4>3. i \in 1 .. Len(toHost)
        BY <4>2
      <4>4. Asks(q[2])
        BY <3>5, <4>1, <4>3 DEF Asks
      <4>5. q[2] \in Nat /\ q[2] <= startFrameNumber
        BY <4>4 DEF StartsKept
      <4>6. startFrameNumber <= currentFrameNumber /\ currentFrameNumber <= Len(encoded) + 1
            /\ startFrameNumber \in Nat /\ currentFrameNumber \in Nat
        BY DEF RecoveryInv, Near, HostsFrames, TypeInv, LossTypeOK
      <4> QED
        BY <2>0, <4>4, <4>5, <4>6
    <3>6. \E q \in requests : q[1] = "rfi" /\ q[2] = a.ref + 1
      <4> HIDE DEF requests
      <4> QED
        BY <1>0, <3>4, <3>5, Answers DEF a
    <3> QED
      BY <3>4, <3>5, <3>6
  <2> QED
    BY <2>1, <2>2
<1> QED
  BY <1>1, <1>2, <1>3, <1>4 DEF Asks

(* The host refers to frames as Refers says. *)
LEMMA RefersNext ==
  ASSUME RecoveryInv, HostsFrames, Requested, StartsKept, Refers, RecoveryNext
  PROVE  Refers'
<1>0. Encoded /\ Len(encoded) \in Nat
  BY LenProperties DEF RecoveryInv, Encoded
<1>1. CASE encoded' = encoded
  BY <1>1 DEF Refers, IsIdr
<1>2. CASE Host
  <2> DEFINE n == Len(encoded) + 1
  <2>1. PICK k \in 0 .. Len(toHost) :
          encoded' = Append(encoded, Answer({ toHost[i] : i \in 1 .. k }))
    BY <1>2 DEF Host
  <2> DEFINE requests == { toHost[i] : i \in 1 .. k }
             a == Answer(requests)
  <2>2. ASSUME NEW q \in requests, q[1] = "rfi" PROVE q[2] \in Nat /\ q[2] <= n
    <3>1. PICK i \in 1 .. k : q = toHost[i]
      OBVIOUS
    <3>2. Len(toHost) \in Nat
      BY LenProperties DEF Requested
    <3>3. Asks(q[2])
      BY <2>2, <3>1, <3>2 DEF Asks
    <3>4. q[2] \in Nat /\ q[2] <= startFrameNumber
      BY <3>3 DEF StartsKept
    <3>5. startFrameNumber <= currentFrameNumber /\ currentFrameNumber <= n
          /\ startFrameNumber \in Nat /\ currentFrameNumber \in Nat
      BY DEF RecoveryInv, Near, HostsFrames, TypeInv, LossTypeOK
    <3> QED
      BY <1>0, <3>4, <3>5
  <2>3. /\ n = 1 => a.kind = "I"
        /\ a.kind = "P" => a.ref = n - 1
        /\ a.kind = "R" => /\ a.ref \in 1 .. n - 1
                           /\ \A j \in a.ref + 1 .. n - 1 : ~IsIdr(j)
    <3> HIDE DEF requests
    <3> QED
      BY <1>0, <2>2, Answers
  <2>4. /\ Len(encoded') = n /\ encoded'[n] = a
        /\ \A j \in 1 .. Len(encoded) : encoded'[j] = encoded[j]
    <3>1. encoded' = Append(encoded, a)
      BY <2>1
    <3> HIDE DEF a
    <3>2. encoded \in Seq(Range(encoded) \cup {a}) /\ a \in Range(encoded) \cup {a}
      BY <1>0 DEF Encoded
    <3> QED
      BY <3>1, <3>2, AppendProperties
  <2> HIDE DEF a
  <2>5. ASSUME NEW m \in 1 .. Len(encoded')
        PROVE  /\ m = 1 => encoded'[m].kind = "I"
               /\ encoded'[m].kind = "P" => encoded'[m].ref = m - 1
               /\ encoded'[m].kind = "R" =>
                    /\ encoded'[m].ref \in 1 .. m - 1
                    /\ \A j \in encoded'[m].ref + 1 .. m - 1 : encoded'[j].kind # "I"
    <3>1. CASE m = n
      BY <1>0, <2>3, <2>4, <3>1 DEF IsIdr
    <3>2. CASE m # n
      <4>1. m \in 1 .. Len(encoded) /\ encoded'[m] = encoded[m]
        BY <1>0, <2>4, <3>2
      <4>2. encoded[m].kind = "R" =>
              \A j \in encoded[m].ref + 1 .. m - 1 :
                j \in 1 .. Len(encoded) /\ encoded[j].kind # "I"
        BY <1>0, <4>1 DEF Refers, IsIdr
      <4> QED
        BY <2>4, <4>1, <4>2 DEF Refers
    <3> QED
      BY <3>1, <3>2
  <2> QED
    BY <2>5 DEF Refers, IsIdr
<1> QED
  BY <1>1, <1>2
     DEF RecoveryNext, ReceiveSide, RtpStep, MakeCall, Receive, Decode, IdrThread,
         RfiThread, hostVars

(* Every step keeps StartsKept. *)
LEMMA StartsKeptNext ==
  ASSUME RecoveryInv, HostsFrames, Calm, Requested, StartsKept, Refers, RecoveryNext
  PROVE  StartsKept'
<1>0. /\ startFrameNumber \in Nat /\ startFrameNumber' \in Nat
      /\ startFrameNumber <= startFrameNumber'
  BY NewestKept DEF RecoveryInv, TypeInv, LossTypeOK
<1>1. ASSUME NEW s, Asks(s)
      PROVE  s \in Nat /\ s <= startFrameNumber' /\ (s > 0 => Kept(s - 1)')
  <2>1. s \in Nat /\ s <= startFrameNumber /\ (s > 0 => Kept(s - 1))
    BY <1>1 DEF StartsKept
  <2>2. ASSUME s > 0 PROVE Kept(s - 1)'
    <3>1. s - 1 \in Nat /\ s - 1 < startFrameNumber /\ Kept(s - 1)
      BY <1>0, <2>1, <2>2
    <3> QED
      BY <3>1, KeptStays
  <2> QED
    BY <1>0, <2>1, <2>2
<1>2. ASSUME NEW s, s = startFrameNumber'
      PROVE  s \in Nat /\ s <= startFrameNumber' /\ (s > 0 => Kept(s - 1)')
  <2>1. CASE startFrameNumber' = startFrameNumber
    <3>1. Asks(s)
      BY <1>2, <2>1 DEF Asks
    <3> QED
      BY <1>1, <3>1
  <2>2. CASE startFrameNumber' # startFrameNumber
    <3>1. PICK r \in Nat : startFrameNumber' = r + 1 /\ Kept(r)'
      BY <2>2, NewestKept
    <3>2. s - 1 = r
      BY <1>2, <3>1
    <3> QED
      BY <1>0, <1>2, <3>1, <3>2
  <2> QED
    BY <2>1, <2>2
<1>3. ASSUME NEW s, Asks(s)'
      PROVE  s \in Nat /\ s <= startFrameNumber' /\ (s > 0 => Kept(s - 1)')
  BY <1>1, <1>2, <1>3, AsksNext
<1> QED
  BY <1>3 DEF StartsKept

(* A frame that refers to one before a range finds it with the decoder or in *)
(* the queue when it is queued.                                              *)
LEMMA KeptIsInReach ==
  ASSUME RecoveryInv, HostsFrames, Calm, Refers, StartsKept,
         recvPc = "queue", recvFrame.kind = "R"
  PROVE  encoded[recvFrame.n].ref \in Line
<1> DEFINE m == recvFrame.n  r == encoded[m].ref
<1>1. m \in 1 .. Len(encoded) /\ encoded[m].kind = "R"
  BY DEF HostsFrames, Genuine
<1>2. r \in 1 .. m - 1 /\ \A k \in r + 1 .. m - 1 : ~IsIdr(k)
  BY <1>1 DEF Refers
<1>3. Kept(r)
  <2>1. Asks(r + 1)
    BY <1>1 DEF Asks
  <2>2. r + 1 > 0 /\ (r + 1) - 1 = r
    BY <1>1, <1>2
  <2> QED
    BY <2>1, <2>2 DEF StartsKept
<1>4. PICK k \in Line : k = r \/ (r < k /\ IsIdr(k))
  BY <1>3 DEF Kept
<1>5. k < m /\ k \in Nat /\ m \in Nat
  <2>1. k < startFrameNumber /\ k \in 1 .. Len(encoded) /\ startFrameNumber \in Nat
    BY LineTypes DEF RecoveryInv
  <2>2. startFrameNumber <= m /\ m \in Nat
    BY <1>1 DEF RecoveryInv, OrderInv
  <2> QED
    BY <2>1, <2>2
<1>6. k = r
  <2> SUFFICES ASSUME r < k, IsIdr(k) PROVE FALSE
    BY <1>4
  <2>1. k \in r + 1 .. m - 1
    BY <1>2, <1>5
  <2> QED
    BY <1>2, <2>1
<1> QED
  BY <1>6

(* It stays there until the frame that refers to it is taken. *)
LEMMA InReachNext ==
  ASSUME RecoveryInv, HostsFrames, Calm, Refers, StartsKept, InReach, RecoveryNext
  PROVE  InReach'
<1> DEFINE q == decodeUnitQueue.items
           Before(i) == shown \cup { q[j].n : j \in 1 .. i - 1 }
<1>0. /\ Encoded /\ QueueOrder /\ q \in Seq(Frames) /\ Len(q) \in Nat
      /\ \A k \in 1 .. Len(encoded) : encoded'[k] = encoded[k]
      /\ \A i \in 1 .. Len(q) : Genuine(q[i], encoded)
  BY QueueSteps, FramesStay DEF RecoveryInv, HostsFrames
<1>1. CASE Aside \/ Begins \/ Drops \/ Ends \/ Refuses
  <2>1. UNCHANGED <<decodeUnitQueue, shown>>
    BY <1>1, QueueSteps DEF Aside, Begins, Drops, Ends, Refuses
  <2> SUFFICES ASSUME NEW i \in 1 .. Len(q), q[i].kind = "R"
               PROVE  encoded'[q[i].n].ref \in Before(i)
    BY <2>1 DEF InReach
  <2>2. encoded'[q[i].n] = encoded[q[i].n]
    BY <1>0 DEF Genuine
  <2> QED
    BY <2>2 DEF InReach
<1>2. CASE Overflows
  <2>1. q' = <<>> /\ Len(<<>>) = 0
    BY <1>2, QueueSteps
  <2> QED
    BY <2>1 DEF InReach
<1>3. CASE Submits
  <2>1. q' = q /\ Len(q) = 0
    BY <1>0, <1>3, QueueSteps DEF Submits, SubmitDirect, QueueOrder
  <2> QED
    BY <2>1 DEF InReach
<1>4. CASE Queues
  <2>1. /\ Len(q') = Len(q) + 1 /\ q'[Len(q) + 1] = recvFrame
        /\ \A i \in 1 .. Len(q) : q'[i] = q[i]
        /\ shown' = shown /\ encoded' = encoded /\ recvPc = "queue"
    BY <1>4, QueueSteps DEF Queues, QueueFrame
  <2>2. ASSUME NEW i \in 1 .. Len(q'), q'[i].kind = "R"
        PROVE  encoded[q'[i].n].ref \in shown \cup { q'[j].n : j \in 1 .. i - 1 }
    <3>1. CASE i = Len(q) + 1
      <4>1. encoded[recvFrame.n].ref \in Line
        BY <2>1, <2>2, <3>1, KeptIsInReach
      <4>2. \A j \in 1 .. Len(q) : j \in 1 .. i - 1 /\ q'[j] = q[j]
        BY <1>0, <2>1, <3>1
      <4> QED
        BY <2>1, <3>1, <4>1, <4>2 DEF Line
    <3>2. CASE i # Len(q) + 1
      <4>1. i \in 1 .. Len(q) /\ q'[i] = q[i] /\ \A j \in 1 .. i - 1 : q'[j] = q[j]
        BY <1>0, <2>1, <3>2
      <4>2. encoded[q[i].n].ref \in shown \cup { q[j].n : j \in 1 .. i - 1 }
        BY <2>2, <4>1 DEF InReach
      <4> QED
        BY <4>1, <4>2
    <3> QED
      BY <3>1, <3>2
  <2> QED
    BY <2>1, <2>2 DEF InReach
<1>5. CASE Takes
  <2>1. /\ encoded' = encoded /\ 1 \in 1 .. Len(q) /\ Len(q') = Len(q) - 1
        /\ \A i \in 1 .. Len(q) - 1 : q'[i] = q[i + 1]
        /\ shown' = IF q[1].kind = "I" THEN {q[1].n} ELSE shown \cup {q[1].n}
    BY <1>5, QueueSteps DEF Takes, Shows
  <2>2. ASSUME NEW i \in 1 .. Len(q'), q'[i].kind = "R"
        PROVE  encoded[q'[i].n].ref \in shown' \cup { q'[j].n : j \in 1 .. i - 1 }
    <3>0. i + 1 \in 1 .. Len(q) /\ q'[i] = q[i + 1]
      <4>1. i \in 1 .. Len(q) - 1
        BY <2>1
      <4>2. i + 1 \in 1 .. Len(q)
        BY <1>0, <4>1
      <4> QED
        BY <2>1, <4>1, <4>2
    <3> DEFINE x == q[i + 1]  r == encoded[x.n].ref
    <3>1. r \in shown \cup { q[j].n : j \in 1 .. (i + 1) - 1 }
      BY <2>2, <3>0 DEF InReach
    <3>2. CASE \E j \in 1 .. (i + 1) - 1 : r = q[j].n
      <4>1. PICK j \in 1 .. (i + 1) - 1 : r = q[j].n
        BY <3>2
      <4>2. CASE j = 1
        <5>1. r \in shown'
          BY <2>1, <4>1, <4>2
        <5> QED
          BY <3>0, <5>1
      <4>3. CASE j # 1
        <5>1. /\ j - 1 \in 1 .. i - 1 /\ j - 1 \in 1 .. Len(q) - 1
              /\ q'[j - 1] = q[(j - 1) + 1]
              /\ (j - 1) + 1 = j
          BY <1>0, <2>1, <3>0, <4>3
        <5> QED
          BY <3>0, <4>1, <5>1
      <4> QED
        BY <4>2, <4>3
    <3>3. CASE r \in shown
      <4>1. CASE q[1].kind # "I"
        BY <2>1, <3>0, <3>3, <4>1
      <4>2. CASE q[1].kind = "I"
        <5>1. /\ x.n \in 1 .. Len(encoded) /\ encoded[x.n].kind = "R"
              /\ q[1].n \in 1 .. Len(encoded) /\ encoded[q[1].n].kind = "I"
              /\ q[1].n < x.n
          <6>1. 1 < i + 1
            OBVIOUS
          <6> QED
            BY <1>0, <2>1, <2>2, <3>0, <4>2, <6>1 DEF Genuine, QueueOrder
        <5>2. r < q[1].n
          <6>1. r <= decFrame.n /\ r \in Nat /\ decFrame.n < q[1].n
            BY <1>0, <2>1, <3>3 DEF HostsFrames, QueueOrder
          <6>2. decFrame.n \in Nat
            BY FrameFacts DEF RecoveryInv, TypeInv, DecTypeOK, NoFrame
          <6> QED
            BY <5>1, <6>1, <6>2
        <5>3. r \in Nat /\ x.n \in Nat /\ q[1].n \in Nat
          <6>1. r \in 1 .. Len(encoded)
            BY <3>3 DEF HostsFrames
          <6> QED
            BY <5>1, <6>1
        <5> QED
          <6>1. q[1].n \in r + 1 .. x.n - 1
            <7>1. \A a, b, c \in Nat : a < b /\ b < c => b \in a + 1 .. c - 1
              OBVIOUS
            <7>2. q[1].n < x.n
              BY <5>1
            <7> HIDE DEF x, r
            <7> QED
              BY <5>2, <5>3, <7>1, <7>2
          <6> QED
            BY <5>1, <6>1 DEF Refers, IsIdr
      <4> QED
        BY <4>1, <4>2
    <3> QED
      BY <3>1, <3>2, <3>3
  <2> QED
    BY <2>1, <2>2 DEF InReach
<1> QED
  BY <1>1, <1>2, <1>3, <1>4, <1>5, KindsOfSteps

(* The inductive invariant behind the references. *)
ReferenceInv ==
  RecoveryInv /\ HostsFrames /\ Calm /\ Requested /\ StartsKept /\ Refers /\ InReach

(* The initial states satisfy it. *)
LEMMA ReferenceStarts == RecoveryInit => ReferenceInv
<1> SUFFICES ASSUME RecoveryInit PROVE ReferenceInv
  OBVIOUS
<1>1. RecoveryInv
  BY RecoveryStarts
<1>2. /\ encoded = <<>> /\ shown = {} /\ toHost = <<>> /\ rfiPc = "wait"
      /\ rfiRange = <<0, 0>>
      /\ currentFrameNumber = 1 /\ recvPc = "idle" /\ decFrame = NoFrame
      /\ startFrameNumber = 0
      /\ invalidReferenceFrameTuples = NewQueue /\ decodeUnitQueue = NewQueue
  BY DEF RecoveryInit, Init, Rtp!Init
<1>3. <<>> \in Seq(Requests) /\ Len(<<>>) = 0 /\ NewQueue.items = <<>>
  BY DEF NewQueue
<1>4. HostsFrames
  BY <1>2, <1>3 DEF HostsFrames, NoFrame
<1>5. Calm
  BY DEF RecoveryInit, Init, Calm, NewQueue
<1>6. Requested
  BY <1>2, <1>3 DEF Requested, Ranges
<1>7. StartsKept
  BY <1>2, <1>3 DEF StartsKept, Asks, Firsts
<1>8. Refers /\ InReach
  BY <1>2, <1>3 DEF Refers, InReach
<1> QED
  BY <1>1, <1>4, <1>5, <1>6, <1>7, <1>8 DEF ReferenceInv

(* It holds throughout. *)
LEMMA ReferenceInvariance == RecoverySpec => []ReferenceInv
<1>1. ReferenceInv /\ RecoveryNext => ReferenceInv'
  <2> SUFFICES ASSUME ReferenceInv, RecoveryNext PROVE ReferenceInv'
    OBVIOUS
  <2>1. /\ RecoveryInv /\ HostsFrames /\ Calm /\ Requested /\ StartsKept /\ Refers
        /\ InReach
    BY DEF ReferenceInv
  <2> QED
    BY <2>1, RecoveryStep, HostsFramesNext, CalmNext, RequestedNext, StartsKeptNext,
       RefersNext, InReachNext
       DEF ReferenceInv
<1>2. ReferenceInv /\ UNCHANGED allVars => ReferenceInv'
  <2> SUFFICES ASSUME ReferenceInv, UNCHANGED allVars PROVE ReferenceInv'
    OBVIOUS
  <2>1. RecoveryInv'
    BY RecoveryStep DEF ReferenceInv
  <2> QED
    BY <2>1
       DEF ReferenceInv, HostsFrames, Calm, Requested, StartsKept, Refers, InReach, Asks,
           Kept, Line, Firsts, IsIdr, allVars, vars, lossVars, recvVars, decVars, ctlVars,
           rtpVars, rtpQueueVars, hostVars, threadVars
<1> QED
  BY <1>1, <1>2, ReferenceStarts, PTL DEF RecoverySpec

(* Where headers tell the type of a frame, or nothing but an IDR frame ends a *)
(* wait, a frame is decoded only if the decoder was given the frame it refers *)
(* to: connectionDetectedFrameLoss invalidates from the first frame that was  *)
(* not queued, however the requests are aggregated, delayed and answered.     *)
THEOREM RefersToDecoded == RecoverySpec => ReferencesAreDecoded
<1> DEFINE Linked ==
      decFrame' # decFrame /\ decFrame'.kind = "P" /\ (typedHeaders \/ strictIdrFrameWait)
        /\ (directSubmit \/ refresh = "never")
      => decFrame'.n = decFrame.n + 1
<1>1. ReferenceInv /\ ReferenceInv' /\ [RecoveryNext]_allVars /\ [Linked]_vars =>
        (decFrame' # decFrame /\ decFrame'.kind # "I"
          /\ (typedHeaders \/ strictIdrFrameWait)
          => encoded[decFrame'.n].ref \in shown)
  <2> SUFFICES ASSUME ReferenceInv, ReferenceInv', [RecoveryNext]_allVars, [Linked]_vars,
                      decFrame' # decFrame, decFrame'.kind # "I", typedHeaders
                        \/ strictIdrFrameWait
               PROVE  encoded[decFrame'.n].ref \in shown
    OBVIOUS
  <2>0. /\ RecoveryInv /\ HostsFrames /\ Calm /\ StartsKept /\ Refers /\ InReach
        /\ decFrame.n \in Nat
    BY FrameFacts DEF ReferenceInv, RecoveryInv, TypeInv, DecTypeOK, NoFrame
  <2>1. RecoveryNext
    BY DEF allVars, vars, decVars
  <2>2. Submits \/ Takes
    BY <2>0, <2>1, KindsOfSteps
       DEF Aside, Begins, Drops, Ends, Queues, Refuses, Overflows, StartFrame,
           FinishWhileWaiting, notifyFrameLost, FinishFrame, QueueFrame, QueueOverflow,
           FlushOverflow, decVars
  <2>3. decFrame' \in Frames /\ Genuine(decFrame', encoded)
    <3>1. CASE Submits
      BY <2>0, <3>1 DEF Submits, SubmitDirect, HostsFrames, RecoveryInv, TypeInv, RecvTypeOK
    <3>2. CASE Takes
      BY <2>0, <3>2, QueueSteps DEF HostsFrames
    <3> QED
      BY <2>2, <3>1, <3>2
  <2>4. CASE decFrame'.kind = "P"
    <3>1. decFrame'.n = decFrame.n + 1
      BY <2>0, <2>4 DEF Calm, vars, decVars
    <3>2. encoded[decFrame'.n].ref = decFrame.n /\ decFrame.n # 0
      <4> DEFINE m == decFrame'.n
      <4>1. m \in 1 .. Len(encoded) /\ encoded[m].kind = "P"
        BY <2>3, <2>4 DEF Genuine
      <4>2. encoded[m].ref = m - 1 /\ m # 1
        BY <2>0, <4>1 DEF Refers
      <4> QED
        BY <2>0, <3>1, <4>2
    <3> QED
      BY <2>0, <3>2 DEF HostsFrames
  <2>5. CASE decFrame'.kind = "R" /\ Submits
    <3>1. recvPc = "queue" /\ decFrame' = recvFrame /\ directSubmit
      BY <2>5 DEF Submits, SubmitDirect
    <3>2. encoded[recvFrame.n].ref \in Line
      BY <2>0, <2>5, <3>1, KeptIsInReach
    <3>3. Len(decodeUnitQueue.items) = 0
      BY <2>0, <3>1 DEF RecoveryInv, QueueOrder
    <3> QED
      BY <3>1, <3>2, <3>3 DEF Line
  <2>6. CASE decFrame'.kind = "R" /\ Takes
    <3>1. 1 \in 1 .. Len(decodeUnitQueue.items) /\ decFrame' = decodeUnitQueue.items[1]
      BY <2>0, <2>6, QueueSteps
    <3>2. encoded[decFrame'.n].ref \in shown \cup { decodeUnitQueue.items[j].n :
            j \in 1 .. 1 - 1 }
      BY <2>0, <2>6, <3>1 DEF InReach
    <3> QED
      BY <3>2
  <2>7. decFrame'.kind \in {"I", "R", "P"}
    BY <2>3, FrameFacts DEF Kinds
  <2> QED
    BY <2>2, <2>4, <2>5, <2>6, <2>7
<1>2. RecoverySpec => [][Linked]_vars
  BY Implements, DecoderIsInLine DEF DepacketizerSpec, DecoderSeesNoGap
<1> QED
  BY <1>1, <1>2, ReferenceInvariance, PTL DEF RecoverySpec, ReferencesAreDecoded

==============================================================================
