--------------------------- MODULE VideoDepacketizer ---------------------------
(***************************************************************************)
(* The video depacketizer (VideoDepacketizer.c): the state the receive     *)
(* thread keeps about the frames it expects, the decode unit queue it      *)
(* fills, the decoder that empties it, and what both ask of the control    *)
(* stream when a frame cannot be decoded.                                  *)
(*                                                                         *)
(* A frame is a record of its number and its kind: "I" (an IDR frame), "R" *)
(* (a P-frame encoded after an invalidation of reference frames, or an     *)
(* intra-refresh frame) or "P".  RtpVideoQueue.c submits the packets of a  *)
(* frame only once all of them are there, so the packets of a frame follow *)
(* each other in one call of the receive thread; what happens at the first *)
(* packet, at the last one and when the frame is queued are three steps,   *)
(* between which the decoder runs.  Frame numbers do not wrap around.      *)
(***************************************************************************)
EXTENDS LbqOps

CONSTANTS
  CorruptFrames, \* a frame may prove corrupt after its first packet was processed
  QueueBound,    \* of the decode unit queue: 15 in the code
  RfiBound,      \* of the queue of invalidation tuples: 20 in the code
  DropLimit,     \* CONSECUTIVE_DROP_LIMIT: 120 in the code
  FrameNumbers   \* the frame numbers the host uses

ASSUME FlagsAssumption == CorruptFrames \in BOOLEAN
ASSUME BoundsAssumption ==
  /\ QueueBound \in Nat \ {0} /\ RfiBound \in Nat \ {0}
  /\ DropLimit \in Nat \ {0, 1}
ASSUME FrameNumbersAssumption == FrameNumbers \subseteq Nat \ {0}

Kinds == {"I", "R", "P"}

Frames == [n: FrameNumbers, kind: Kinds]

VARIABLES
  strictIdrFrameWait,   \* reference frame invalidation is not available
  directSubmit,  \* CAPABILITY_DIRECT_SUBMIT: the receive thread is the decoder
  typedHeaders,  \* the host's frame headers carry the frame type (7.1.350 on)
  nextFrameNumber, startFrameNumber, waitingForNextSuccessfulFrame,
  waitingForIdrFrame, waitingForRefInvalFrame, dropStatePending,
  idrFrameProcessed, consecutiveFrameDrops,
  decodeUnitQueue,
  recvPc,       \* the receive thread: "idle", in a "frame", about to "queue" it, or
                \* to flush the queue after an "overflow"
  recvFrame,    \* the frame it works on
  decPc,        \* the decoder: "wait", "submit", a step of a refresh, or "done"
  decFrame,     \* the frame it was given last
  refresh,      \* history: did the decoder "never" ask for a refresh, is an IDR
                \* frame "due" since it asked, or was every refresh "answered"
  idrFrameRequiredEvent,         \* ControlStream.c: an IDR frame is to be requested
  invalidReferenceFrameTuples    \* ControlStream.c: ranges to be invalidated

settings == <<strictIdrFrameWait, directSubmit, typedHeaders>>
lossVars == <<nextFrameNumber, startFrameNumber, waitingForNextSuccessfulFrame,
              waitingForRefInvalFrame, consecutiveFrameDrops>>
recvVars == <<recvPc, recvFrame>>
decVars  == <<decPc, decFrame, refresh>>
ctlVars  == <<idrFrameRequiredEvent, invalidReferenceFrameTuples>>
vars == <<settings, lossVars, waitingForIdrFrame, dropStatePending, idrFrameProcessed,
          decodeUnitQueue, recvVars, decVars, ctlVars>>

NoFrame == [n |-> 0, kind |-> "P"]

FirstMayBeAny == FALSE      \* a faulty variant of the next definition
FirstMustBeIdr == TRUE

(* initializeVideoDepacketizer. *)
Init ==
  /\ strictIdrFrameWait \in BOOLEAN /\ directSubmit \in BOOLEAN /\ typedHeaders \in BOOLEAN
  /\ nextFrameNumber = 1
  /\ startFrameNumber = 0
  /\ waitingForNextSuccessfulFrame = FALSE
  /\ waitingForIdrFrame = FirstMustBeIdr
  /\ waitingForRefInvalFrame = FALSE
  /\ dropStatePending = FALSE
  /\ idrFrameProcessed = FALSE
  /\ consecutiveFrameDrops \in 0 .. DropLimit - 1      \* a static that is not reset
  /\ decodeUnitQueue = NewQueue
  /\ recvPc = "idle"
  /\ recvFrame = NoFrame
  /\ decPc = "wait"
  /\ decFrame = NoFrame
  /\ refresh = "never"
  /\ idrFrameRequiredEvent = FALSE
  /\ invalidReferenceFrameTuples = NewQueue

-------------------------------------------------------------------------------
(* Requests to the control stream. *)

NoRequest == UNCHANGED ctlVars

(* LiRequestIdrFrame: the invalidations become redundant. *)
LiRequestIdrFrame ==
  /\ idrFrameRequiredEvent' = TRUE
  /\ invalidReferenceFrameTuples' = Flushed(invalidReferenceFrameTuples)

(* connectionDetectedFrameLoss: an invalidation if the host supports it and the *)
(* queue of tuples has room, an IDR frame otherwise.                            *)
RequestInvalidation(event, tuples, first, last) ==
  IF strictIdrFrameWait \/ OfferStatus(tuples, RfiBound) = LBQ_BOUND_EXCEEDED
  THEN LiRequestIdrFrame
  ELSE /\ invalidReferenceFrameTuples' = Offered(tuples, RfiBound, <<first, last>>)
       /\ idrFrameRequiredEvent' = event

connectionDetectedFrameLoss(first, last) ==
  RequestInvalidation(idrFrameRequiredEvent, invalidReferenceFrameTuples, first, last)

-------------------------------------------------------------------------------
(* Faulty variants of the definitions below. *)

IsLateGap(f) == nextFrameNumber + 1 < f.n

AnyFrameEndsRfiWait(f, waitingRfi) == waitingRfi

LimitIsNeverReached == FALSE

-------------------------------------------------------------------------------
(* The receive thread. *)

(* dropFrameState.  It needs an IDR frame if it may not invalidate reference   *)
(* frames, never decoded an IDR frame, or already waits for one.               *)
IdrNeeded(waitingIdr) == strictIdrFrameWait \/ ~idrFrameProcessed \/ waitingIdr

DropLimitReached == consecutiveFrameDrops + 1 = DropLimit

DropWaitsForIdr(waitingIdr) == IdrNeeded(waitingIdr) \/ DropLimitReached

DropWaitsForRfi(waitingIdr) == waitingForRefInvalFrame \/ ~IdrNeeded(waitingIdr)

CountDrop == consecutiveFrameDrops' =
               IF DropLimitReached THEN 0 ELSE consecutiveFrameDrops + 1

DropFrameState(waitingIdr) ==
  /\ dropStatePending' = FALSE
  /\ waitingForIdrFrame' = DropWaitsForIdr(waitingIdr)
  /\ waitingForRefInvalFrame' = DropWaitsForRfi(waitingIdr)
  /\ CountDrop

(* The request that goes with a frame dropped as lost: dropFrameState asks for *)
(* an IDR frame itself at the drop limit.                                      *)
RequestForLoss(first, last) ==
  IF waitingForIdrFrame' THEN LiRequestIdrFrame ELSE connectionDetectedFrameLoss(first, last)

IsOld(f) == f.n < nextFrameNumber

(* Frames are missing between the last one and this one. *)
IsGap(f) == nextFrameNumber < f.n

(* processRtpPayload, a packet of a frame it no longer expects. *)
DropOldFrame(f) ==
  /\ recvPc = "idle"
  /\ IsOld(f)
  /\ UNCHANGED vars

(* What the header of a first packet clears, given the waits after a gap was   *)
(* noticed: an IDR frame ends every wait, an invalidated P-frame the wait for  *)
(* one, and hosts without typed headers are hoped to have invalidated.         *)
EndsRfiWait(f, waitingRfi) ==
  waitingRfi /\ (f.kind = "R" \/ ~typedHeaders)

AwaitsSuccess(gap, ended) == (waitingForNextSuccessfulFrame \/ gap) /\ ~ended

(* processRtpPayload, the first packet of a frame, up to its last one. *)
StartFrame(f) ==
  LET gap == IsGap(f)
      idrWait == IF gap THEN DropWaitsForIdr(waitingForIdrFrame) ELSE waitingForIdrFrame
      rfiWait == IF gap THEN DropWaitsForRfi(waitingForIdrFrame) ELSE waitingForRefInvalFrame
      ended == f.kind = "I" \/ EndsRfiWait(f, rfiWait)
      atLimit == gap /\ DropLimitReached
      tuples == IF atLimit THEN Flushed(invalidReferenceFrameTuples)
                ELSE invalidReferenceFrameTuples
  IN
  /\ recvPc = "idle"
  /\ ~IsOld(f)
  /\ nextFrameNumber' = f.n
  /\ waitingForIdrFrame' = (idrWait /\ f.kind # "I")
  /\ waitingForRefInvalFrame' = (rfiWait /\ ~ended)
  /\ waitingForNextSuccessfulFrame' = AwaitsSuccess(gap, ended)
  /\ IF gap THEN dropStatePending' = FALSE /\ CountDrop
            ELSE UNCHANGED <<dropStatePending, consecutiveFrameDrops>>
  /\ IF rfiWait /\ ~typedHeaders
     THEN RequestInvalidation(idrFrameRequiredEvent \/ atLimit, tuples,
                              startFrameNumber, f.n - 1)
     ELSE IF atLimit THEN LiRequestIdrFrame ELSE NoRequest
  /\ recvPc' = "frame"
  /\ recvFrame' = f
  /\ UNCHANGED <<startFrameNumber, idrFrameProcessed, decodeUnitQueue, decVars>>

(* processRtpPayload, a packet out of the stream's sequence or a last packet of *)
(* an impossible length: the frame is skipped and reported as lost.             *)
CorruptFrame(f) ==
  /\ \/ recvPc = "idle" /\ ~IsOld(f)
     \/ recvPc = "frame" /\ recvFrame = f /\ CorruptFrames
  /\ nextFrameNumber' = f.n + 1
  /\ DropFrameState(waitingForIdrFrame)
  /\ RequestForLoss(startFrameNumber, f.n)
  /\ recvPc' = "idle"
  /\ UNCHANGED <<recvFrame, startFrameNumber, waitingForNextSuccessfulFrame,
                 idrFrameProcessed, decodeUnitQueue, decVars>>

(* processRtpPayload, the last packet: dropped if a wait goes on, ... *)
FinishWhileWaiting ==
  /\ recvPc = "frame"
  /\ waitingForIdrFrame \/ waitingForRefInvalFrame
  /\ nextFrameNumber' = recvFrame.n + 1
  /\ waitingForNextSuccessfulFrame' = FALSE
  /\ DropFrameState(waitingForIdrFrame)
  /\ IF DropLimitReached \/ (waitingForIdrFrame /\ waitingForNextSuccessfulFrame)
     THEN LiRequestIdrFrame
     ELSE IF waitingForIdrFrame THEN NoRequest
     ELSE connectionDetectedFrameLoss(startFrameNumber, recvFrame.n)
  /\ recvPc' = "idle"
  /\ UNCHANGED <<recvFrame, startFrameNumber, idrFrameProcessed, decodeUnitQueue, decVars>>

(* ... or if the decoder asked for a refresh and it is no IDR frame, ... *)
FinishDropPending ==
  /\ recvPc = "frame"
  /\ ~waitingForIdrFrame /\ ~waitingForRefInvalFrame
  /\ dropStatePending /\ recvFrame.kind # "I"
  /\ nextFrameNumber' = recvFrame.n + 1
  /\ DropFrameState(waitingForIdrFrame)
  /\ IF DropLimitReached THEN LiRequestIdrFrame ELSE NoRequest
  /\ recvPc' = "idle"
  /\ UNCHANGED <<recvFrame, startFrameNumber, waitingForNextSuccessfulFrame,
                 idrFrameProcessed, decodeUnitQueue, decVars>>

(* ... and reassembled otherwise. *)
FinishFrame ==
  /\ recvPc = "frame"
  /\ ~waitingForIdrFrame /\ ~waitingForRefInvalFrame
  /\ ~dropStatePending \/ recvFrame.kind = "I"
  /\ nextFrameNumber' = recvFrame.n + 1
  /\ dropStatePending' = FALSE
  /\ recvPc' = "queue"
  /\ UNCHANGED <<recvFrame, startFrameNumber, waitingForNextSuccessfulFrame,
                 waitingForIdrFrame, waitingForRefInvalFrame, consecutiveFrameDrops,
                 idrFrameProcessed, decodeUnitQueue, decVars, ctlVars>>

(* reassembleFrame: the frame is queued.  A queue that was shut down refuses it *)
(* and the thread goes on as if it had been taken.                              *)
QueueFrame ==
  /\ recvPc = "queue" /\ ~directSubmit
  /\ OfferStatus(decodeUnitQueue, QueueBound) # LBQ_BOUND_EXCEEDED
  /\ decodeUnitQueue' = Offered(decodeUnitQueue, QueueBound, recvFrame)
  /\ consecutiveFrameDrops' = 0
  /\ startFrameNumber' = nextFrameNumber
  /\ recvPc' = "idle"
  /\ UNCHANGED <<recvFrame, nextFrameNumber, waitingForNextSuccessfulFrame,
                 waitingForIdrFrame, waitingForRefInvalFrame, dropStatePending,
                 idrFrameProcessed, decVars, ctlVars>>

(* reassembleFrame: the queue is full, the frame is dropped, ... *)
QueueOverflow ==
  /\ recvPc = "queue" /\ ~directSubmit
  /\ OfferStatus(decodeUnitQueue, QueueBound) = LBQ_BOUND_EXCEEDED
  /\ DropFrameState(TRUE)
  /\ IF DropLimitReached THEN LiRequestIdrFrame ELSE NoRequest
  /\ recvPc' = "overflow"
  /\ UNCHANGED <<recvFrame, nextFrameNumber, startFrameNumber,
                 waitingForNextSuccessfulFrame, idrFrameProcessed, decodeUnitQueue, decVars>>

(* ... and then all that is still in the queue, which the decoder may have     *)
(* taken from in between.                                                      *)
FlushOverflow ==
  /\ recvPc = "overflow"
  /\ decodeUnitQueue' = Flushed(decodeUnitQueue)
  /\ LiRequestIdrFrame
  /\ recvPc' = "idle"
  /\ UNCHANGED <<lossVars, recvFrame, waitingForIdrFrame, dropStatePending,
                 idrFrameProcessed, decVars>>

DirectRefresh == waitingForIdrFrame' = TRUE /\ dropStatePending' = TRUE

(* The decoder was given a frame and answered DR_OK or DR_NEED_IDR. *)
Answered(f) == IF refresh = "due" /\ f.kind = "I" THEN "answered" ELSE refresh

(* reassembleFrame with a direct-submit decoder: the frame is decoded in place, *)
(* and a refresh the decoder asks for is complete when the call returns.        *)
SubmitDirect(ok) ==
  /\ recvPc = "queue" /\ directSubmit
  /\ decFrame' = recvFrame
  /\ IF ok
     THEN /\ idrFrameProcessed' = (idrFrameProcessed \/ recvFrame.kind = "I")
          /\ refresh' = Answered(recvFrame)
          /\ UNCHANGED <<waitingForIdrFrame, dropStatePending>>
          /\ NoRequest
     ELSE /\ DirectRefresh
          /\ refresh' = "due"
          /\ LiRequestIdrFrame
          /\ UNCHANGED idrFrameProcessed
  /\ consecutiveFrameDrops' = 0
  /\ startFrameNumber' = nextFrameNumber
  /\ recvPc' = "idle"
  /\ UNCHANGED <<recvFrame, nextFrameNumber, waitingForNextSuccessfulFrame,
                 waitingForRefInvalFrame, decodeUnitQueue, decPc>>

NoLongerExpects(n) == nextFrameNumber' = n + 1

(* notifyFrameLost, called by the RTP video queue between two frames. *)
notifyFrameLost(n) ==
  /\ recvPc = "idle"
  /\ DropFrameState(waitingForIdrFrame)
  /\ IF waitingForIdrFrame'
     THEN /\ IF DropLimitReached THEN LiRequestIdrFrame ELSE NoRequest
          /\ UNCHANGED nextFrameNumber
     ELSE /\ NoLongerExpects(n)
          /\ connectionDetectedFrameLoss(startFrameNumber, n)
  /\ UNCHANGED <<recvVars, startFrameNumber, waitingForNextSuccessfulFrame,
                 idrFrameProcessed, decodeUnitQueue, decVars>>

-------------------------------------------------------------------------------
(* The decoder thread, which is not the receive thread. *)

(* LiWaitForNextVideoFrame. *)
WaitForFrame ==
  /\ decPc = "wait" /\ ~directSubmit
  /\ ~WaitBlocks(decodeUnitQueue)
  /\ decodeUnitQueue' = Waited(decodeUnitQueue)
  /\ IF WaitStatus(decodeUnitQueue) = LBQ_SUCCESS
     THEN decPc' = "submit" /\ decFrame' = Head(decodeUnitQueue.items)
     ELSE decPc' = "done" /\ UNCHANGED decFrame
  /\ UNCHANGED <<refresh, lossVars, waitingForIdrFrame, dropStatePending, idrFrameProcessed,
                 recvVars, ctlVars>>

(* LiCompleteVideoFrame with DR_OK: an IDR frame makes invalidation usable. *)
CompleteFrame ==
  /\ decPc = "submit"
  /\ idrFrameProcessed' = (idrFrameProcessed \/ decFrame.kind = "I")
  /\ refresh' = Answered(decFrame)
  /\ decPc' = "wait"
  /\ UNCHANGED <<lossVars, waitingForIdrFrame, dropStatePending, decodeUnitQueue,
                 recvVars, decFrame, ctlVars>>

(* LiCompleteVideoFrame with DR_NEED_IDR calls requestDecoderRefresh, whose     *)
(* four steps the receive thread can interleave with.                          *)
RefreshWaitIdr ==
  /\ decPc = "submit"
  /\ waitingForIdrFrame' = TRUE
  /\ decPc' = "refresh_flush"
  /\ UNCHANGED <<lossVars, dropStatePending, idrFrameProcessed, decodeUnitQueue,
                 recvVars, decFrame, refresh, ctlVars>>

RefreshFlush ==
  /\ decPc = "refresh_flush"
  /\ decodeUnitQueue' = Flushed(decodeUnitQueue)
  /\ decPc' = "refresh_pending"
  /\ UNCHANGED <<lossVars, waitingForIdrFrame, dropStatePending, idrFrameProcessed,
                 recvVars, decFrame, refresh, ctlVars>>

RefreshDropPending ==
  /\ decPc = "refresh_pending"
  /\ dropStatePending' = TRUE
  /\ decPc' = "refresh_request"
  /\ UNCHANGED <<lossVars, waitingForIdrFrame, idrFrameProcessed, decodeUnitQueue,
                 recvVars, decFrame, refresh, ctlVars>>

RefreshRequest ==
  /\ decPc = "refresh_request"
  /\ LiRequestIdrFrame
  /\ refresh' = "due"
  /\ decPc' = "wait"
  /\ UNCHANGED <<lossVars, waitingForIdrFrame, dropStatePending, idrFrameProcessed,
                 decodeUnitQueue, recvVars, decFrame>>

Refresh == RefreshWaitIdr \/ RefreshFlush \/ RefreshDropPending \/ RefreshRequest

-------------------------------------------------------------------------------
(* Other threads: the one that stops the stream, and those of ControlStream.c  *)
(* that send the requests (VideoRecovery follows these step by step).          *)

stopVideoDepacketizer ==
  /\ decodeUnitQueue' = ShutDown(decodeUnitQueue)
  /\ UNCHANGED <<lossVars, waitingForIdrFrame, dropStatePending, idrFrameProcessed,
                 recvVars, decVars, ctlVars>>

depacketizerVars == <<lossVars, waitingForIdrFrame, dropStatePending,
                      idrFrameProcessed, decodeUnitQueue, recvVars, decVars>>

ClearIdrEvent ==
  /\ idrFrameRequiredEvent
  /\ idrFrameRequiredEvent' = FALSE
  /\ UNCHANGED <<depacketizerVars, invalidReferenceFrameTuples>>

FlushInvalidations ==
  /\ invalidReferenceFrameTuples' = Flushed(invalidReferenceFrameTuples)
  /\ UNCHANGED <<depacketizerVars, idrFrameRequiredEvent>>

TakeInvalidation ==
  /\ PollStatus(invalidReferenceFrameTuples) = LBQ_SUCCESS
  /\ invalidReferenceFrameTuples' = Polled(invalidReferenceFrameTuples)
  /\ UNCHANGED <<depacketizerVars, idrFrameRequiredEvent>>

-------------------------------------------------------------------------------
(* The RTP video queue submits any frames.  It reports as lost only frames that*)
(* were not queued (the assertion of notifyFrameLost) and never goes back from *)
(* one report to an earlier frame, which VideoRecovery confirms.               *)
MayBeLost(n) == startFrameNumber <= n /\ nextFrameNumber <= n + 1

ReceiveThread ==
  \/ \E f \in Frames : DropOldFrame(f) \/ StartFrame(f) \/ CorruptFrame(f)
  \/ FinishWhileWaiting \/ FinishDropPending \/ FinishFrame
  \/ QueueFrame \/ QueueOverflow \/ FlushOverflow
  \/ \E ok \in BOOLEAN : SubmitDirect(ok)
  \/ \E n \in FrameNumbers : MayBeLost(n) /\ notifyFrameLost(n)

DecoderThread == WaitForFrame \/ CompleteFrame \/ Refresh

ControlThreads == ClearIdrEvent \/ FlushInvalidations \/ TakeInvalidation

Next ==
  /\ ReceiveThread \/ DecoderThread \/ ControlThreads \/ stopVideoDepacketizer
  /\ UNCHANGED settings

Spec == Init /\ [][Next]_vars

-------------------------------------------------------------------------------
Ranges == (Nat \X Nat)

TypeOK ==
  /\ strictIdrFrameWait \in BOOLEAN /\ directSubmit \in BOOLEAN /\ typedHeaders \in BOOLEAN
  /\ nextFrameNumber \in Nat \ {0} /\ startFrameNumber \in Nat
  /\ waitingForNextSuccessfulFrame \in BOOLEAN /\ waitingForIdrFrame \in BOOLEAN
  /\ waitingForRefInvalFrame \in BOOLEAN /\ dropStatePending \in BOOLEAN
  /\ idrFrameProcessed \in BOOLEAN
  /\ consecutiveFrameDrops \in 0 .. DropLimit - 1
  /\ decodeUnitQueue \in QueueOf(Frames) /\ Len(decodeUnitQueue.items) <= QueueBound
  /\ recvPc \in {"idle", "frame", "queue", "overflow"} /\ recvFrame \in Frames \cup {NoFrame}
  /\ decPc \in {"wait", "submit", "refresh_flush", "refresh_pending",
                "refresh_request", "done"}
  /\ decFrame \in Frames \cup {NoFrame}
  /\ refresh \in {"never", "due", "answered"}
  /\ idrFrameRequiredEvent \in BOOLEAN
  /\ invalidReferenceFrameTuples \in QueueOf(Ranges)
  /\ Len(invalidReferenceFrameTuples.items) <= RfiBound

(* Frames are queued and decoded once and in the order of their numbers, and   *)
(* the window of an invalidation starts after every frame that was queued.     *)
FramesInOrder ==
  LET q == decodeUnitQueue.items IN
  /\ startFrameNumber <= nextFrameNumber
  /\ recvPc = "queue" => startFrameNumber <= recvFrame.n
  /\ \A i \in 1 .. Len(q) : decFrame.n < q[i].n /\ q[i].n < startFrameNumber
  /\ \A i, j \in 1 .. Len(q) : i < j => q[i].n < q[j].n

(* A P-frame is queued only right after the frame it follows: no frame was     *)
(* lost or dropped in between, unless an IDR frame or, where the headers tell, *)
(* a frame encoded after an invalidation came first.                           *)
NoReferenceGap ==
  recvPc = "queue" /\ recvFrame.kind = "P" /\ (typedHeaders \/ strictIdrFrameWait)
    => recvFrame.n = startFrameNumber

(* The assertion of processRtpPayload before a frame is reassembled: the wait  *)
(* for a successful frame is over whenever the other two waits are.            *)
SuccessWaitIsAWait ==
  waitingForNextSuccessfulFrame => waitingForIdrFrame \/ waitingForRefInvalFrame

(* The assertions of queueFrameInvalidationTuple and invalidateRefFramesFunc:  *)
(* a range is not empty, and no range ends before one queued earlier.          *)
InvalidationsInOrder ==
  LET t == invalidReferenceFrameTuples.items IN
  /\ \A i \in 1 .. Len(t) : t[i][1] <= t[i][2] /\ t[i][2] < nextFrameNumber
  /\ \A i, j \in 1 .. Len(t) : i < j => t[i][2] <= t[j][2]

(* The last assertion of validateDecodeUnitForPlayback, while no refresh was   *)
(* asked for or the decoder is the receive thread: no other frame is decoded   *)
(* before an IDR frame was.                                                    *)
IdrDecodedBeforeP ==
  /\ directSubmit /\ recvPc = "queue" /\ recvFrame.kind # "I" => idrFrameProcessed
  /\ refresh = "never" /\ decPc = "submit" /\ decFrame.kind # "I" => idrFrameProcessed

(* A decoder that never asked for a refresh, or that is the receive thread, is *)
(* given a P-frame only right after the frame it follows.                      *)
DecoderSeesNoGap ==
  [][ decFrame' # decFrame /\ decFrame'.kind = "P" /\ (typedHeaders \/ strictIdrFrameWait)
        /\ (directSubmit \/ refresh = "never")
      => decFrame'.n = decFrame.n + 1 ]_vars

(* The comment of requestDecoderRefresh: the next frame submitted to the        *)
(* decoder is an IDR frame.                                                     *)
RefreshIsHonoured ==
  [][ refresh = "due" /\ decFrame' # decFrame => decFrame'.kind = "I" ]_vars
===============================================================================
