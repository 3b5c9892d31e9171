----------------------------- MODULE VideoRecovery -----------------------------
(***************************************************************************)
(* Recovery from lost video, end to end: the host encodes frames, the      *)
(* network loses some, the RTP video queue (as FrameDelivery says of it)   *)
(* submits frames and reports losses, the depacketizer keeps what cannot   *)
(* be decoded from the decoder and asks for what it needs, and two threads *)
(* of the control stream carry its requests to the host.                   *)
(*                                                                         *)
(* The first MaxLossy frames can be lost, at most MaxLosses of them.  The  *)
(* later ones arrive, one at a time, and are encoded when every request    *)
(* made so far has reached the host: the time after the losses ended.      *)
(* The decoder of this module never asks for a refresh.                    *)
(***************************************************************************)
EXTENDS VideoDepacketizer, FiniteSets, Functions

CONSTANTS
  MaxFrame,   \* the host encodes the frames 1 .. MaxFrame
  MaxLossy,   \* of which those up to MaxLossy may be lost
  MaxLosses,  \* at most this many
  Lead,       \* how many frames the host is ahead of the client at most
  LastBlock   \* the last FEC block of a frame: up to 3 in the code

ASSUME RecoveryAssumption ==
  /\ MaxFrame \in Nat /\ MaxLossy \in Nat /\ MaxLosses \in Nat /\ Lead \in Nat \ {0}
  /\ LastBlock \in 0 .. 3
  /\ FrameNumbers = 1 .. MaxFrame + 1

VARIABLES
  currentFrameNumber, multiFecCurrentBlockNumber,   \* the RTP video queue
  reportedLostFrame, assembling,
  calls,      \* the calls of the RTP video queue that remain to be made
  losses,     \* how many frames were lost or thought to be
  encoded,    \* the host: the kind of every frame, and the frame it refers to
  toHost,     \* requests on the way to the host, reliable and in order
  idrPc,      \* requestIdrFrameFunc: "wait", "clear", "flush" or "send"
  rfiPc,      \* invalidateRefFramesFunc: "wait", "more" or "send"
  rfiRange,   \* the range it has aggregated
  shown       \* history: the frames the decoder was given since an IDR frame

rtpQueueVars == <<currentFrameNumber, multiFecCurrentBlockNumber, reportedLostFrame, assembling>>
rtpVars  == <<rtpQueueVars, calls, losses>>
hostVars == <<encoded, toHost>>
threadVars == <<idrPc, rfiPc, rfiRange>>
allVars == <<vars, rtpVars, hostVars, threadVars, shown>>

Rtp == INSTANCE FrameDelivery

RecoveryInit ==
  /\ Init
  /\ Rtp!Init
  /\ losses = 0
  /\ encoded = <<>> /\ toHost = <<>>
  /\ idrPc = "wait" /\ rfiPc = "wait" /\ rfiRange = <<0, 0>>
  /\ shown = {}

-------------------------------------------------------------------------------
(* The network and the RTP video queue. *)

(* The RTP video queue leaves the frames of S behind, or predicts that. *)
LoseThese(S) ==
  /\ \A n \in S : n <= MaxLossy
  /\ losses' = losses + Cardinality(S)
  /\ losses' <= MaxLosses

Predicted == \E k \in DOMAIN calls' : calls'[k][1] = "predicted"

(* A packet of frame n arrives. *)
RtpStep ==
  /\ recvPc = "idle" /\ calls = <<>>
  /\ \E n \in currentFrameNumber .. Len(encoded) :
       \/ /\ Rtp!Begin(n) \/ (n = currentFrameNumber /\ Rtp!Continue)
          /\ LoseThese((currentFrameNumber .. n - 1) \cup (IF Predicted THEN {n} ELSE {}))
          /\ MaxLossy < n => currentFrameNumber' = n + 1
       \/ /\ Rtp!LoseBlock(n)
          /\ LoseThese(currentFrameNumber .. n)
  /\ UNCHANGED <<vars, hostVars, threadVars, shown>>

KindOf(n) == [n |-> n, kind |-> encoded[n].kind]

(* The call into the depacketizer the RTP video queue made next. *)
MakeCall ==
  /\ calls # <<>>
  /\ LET n == Head(calls)[2] IN
     IF Head(calls)[1] = "frame"
     THEN StartFrame(KindOf(n)) \/ DropOldFrame(KindOf(n))
     ELSE notifyFrameLost(n)
  /\ calls' = Tail(calls)
  /\ UNCHANGED <<settings, rtpQueueVars, losses, hostVars, threadVars, shown>>

Receive ==
  /\ FinishWhileWaiting \/ FinishFrame \/ QueueFrame \/ QueueOverflow \/ FlushOverflow
     \/ SubmitDirect(TRUE)
  /\ shown' = IF decFrame' = decFrame THEN shown
              ELSE IF decFrame'.kind = "I" THEN {decFrame'.n} ELSE shown \cup {decFrame'.n}
  /\ UNCHANGED <<settings, rtpVars, hostVars, threadVars>>

Decode ==
  /\ WaitForFrame \/ CompleteFrame
  /\ shown' = IF decFrame' = decFrame THEN shown
              ELSE IF decFrame'.kind = "I" THEN {decFrame'.n} ELSE shown \cup {decFrame'.n}
  /\ UNCHANGED <<settings, rtpVars, hostVars, threadVars>>

-------------------------------------------------------------------------------
(* requestIdrFrameFunc. *)

IdrWait ==
  /\ idrPc = "wait" /\ idrFrameRequiredEvent
  /\ idrPc' = "clear"
  /\ UNCHANGED <<vars, toHost>>

IdrClear ==
  /\ idrPc = "clear"
  /\ idrPc' = "flush"
  /\ ClearIdrEvent
  /\ UNCHANGED toHost

IdrFlush ==
  /\ idrPc = "flush"
  /\ idrPc' = "send"
  /\ FlushInvalidations
  /\ UNCHANGED toHost

IdrSend ==
  /\ idrPc = "send"
  /\ idrPc' = "wait"
  /\ toHost' = Append(toHost, <<"idr">>)
  /\ UNCHANGED vars

IdrThread ==
  /\ IdrWait \/ IdrClear \/ IdrFlush \/ IdrSend
  /\ UNCHANGED <<settings, rtpVars, encoded, rfiPc, rfiRange, shown>>

(* invalidateRefFramesFunc: the first range is extended to the end of each     *)
(* range that is queued behind it, and sent when there is none.                *)
Extended(range, next) == <<range[1], next[2]>>

RfiWait ==
  /\ rfiPc = "wait"
  /\ WaitStatus(invalidReferenceFrameTuples) = LBQ_SUCCESS
  /\ ~WaitBlocks(invalidReferenceFrameTuples)
  /\ TakeInvalidation
  /\ rfiRange' = Head(invalidReferenceFrameTuples.items)
  /\ rfiPc' = "more"
  /\ UNCHANGED toHost

RfiMore ==
  /\ rfiPc = "more"
  /\ IF PollStatus(invalidReferenceFrameTuples) = LBQ_SUCCESS
     THEN /\ TakeInvalidation
          /\ rfiRange' = Extended(rfiRange, Head(invalidReferenceFrameTuples.items))
          /\ UNCHANGED rfiPc
     ELSE rfiPc' = "send" /\ UNCHANGED <<vars, rfiRange>>
  /\ UNCHANGED toHost

RfiSend ==
  /\ rfiPc = "send"
  /\ toHost' = Append(toHost, <<"rfi", rfiRange[1], rfiRange[2]>>)
  /\ rfiPc' = "wait" /\ rfiRange' = <<0, 0>>
  /\ UNCHANGED vars

RfiThread ==
  /\ ~strictIdrFrameWait
  /\ RfiWait \/ RfiMore \/ RfiSend
  /\ UNCHANGED <<settings, rtpVars, encoded, idrPc, shown>>

-------------------------------------------------------------------------------
(* The host, a program this repository does not contain: an IDR frame answers  *)
(* an IDR request, and also an invalidation of frames the last IDR frame is    *)
(* one of; any other invalidation is answered by a frame that refers to one    *)
(* before the range.                                                           *)
LastIdr == CHOOSE n \in DOMAIN encoded :
             encoded[n].kind = "I" /\ \A k \in DOMAIN encoded : encoded[k].kind = "I" => k <= n

Answer(requests) ==
  LET n == Len(encoded) + 1
      starts == { r[2] : r \in { q \in requests : q[1] = "rfi" } }
      first == CHOOSE s \in starts : \A t \in starts : s <= t
  IN
  IF n = 1 \/ <<"idr">> \in requests THEN [kind |-> "I", ref |-> 0]
  ELSE IF starts = {} THEN [kind |-> "P", ref |-> n - 1]
  ELSE IF first <= LastIdr THEN [kind |-> "I", ref |-> 0]
  ELSE [kind |-> "R", ref |-> first - 1]

(* No request is about to be sent, every frame so far was received or lost, and *)
(* the decoder has kept up.                                                     *)
Settled ==
  /\ currentFrameNumber <= Len(encoded) => Len(encoded) = MaxLossy
  /\ calls = <<>> /\ recvPc = "idle"
  /\ decodeUnitQueue.items = <<>> /\ decPc = "wait"
  /\ ~idrFrameRequiredEvent /\ invalidReferenceFrameTuples.items = <<>>
  /\ idrPc = "wait" /\ rfiPc = "wait"

Host ==
  /\ Len(encoded) < MaxFrame
  /\ Len(encoded) < currentFrameNumber + Lead - 1
  /\ \E k \in 0 .. Len(toHost) :
       /\ MaxLossy <= Len(encoded) => Settled /\ k = Len(toHost)
       /\ encoded' = Append(encoded, Answer({ toHost[i] : i \in 1 .. k }))
       /\ toHost' = SubSeq(toHost, k + 1, Len(toHost))
  /\ UNCHANGED <<vars, rtpVars, threadVars, shown>>

-------------------------------------------------------------------------------
ReceiveSide == RtpStep \/ MakeCall \/ Receive

RecoveryNext == ReceiveSide \/ Decode \/ IdrThread \/ RfiThread \/ Host

RecoverySpec == RecoveryInit /\ [][RecoveryNext]_allVars

(* Every thread runs on, and so does the host. *)
Fairness ==
  /\ WF_allVars(ReceiveSide) /\ WF_allVars(Decode)
  /\ WF_allVars(IdrThread) /\ WF_allVars(RfiThread) /\ WF_allVars(Host)

FairRecoverySpec == RecoverySpec /\ Fairness

-------------------------------------------------------------------------------
(* The RTP video queue calls the depacketizer as VideoDepacketizer assumes:     *)
(* what that module shows of it holds here.                                     *)
DepacketizerSpec == Spec

(* Where headers tell the type of a frame, or nothing but an IDR frame ends a   *)
(* wait, a frame that refers to another one is decoded only if the decoder was *)
(* given that frame, and an IDR frame before it.                               *)
ReferencesAreDecoded ==
  [][ decFrame' # decFrame /\ decFrame'.kind # "I" /\ (typedHeaders \/ strictIdrFrameWait)
        => encoded[decFrame'.n].ref \in shown ]_allVars

NoWait == ~waitingForIdrFrame /\ ~waitingForRefInvalFrame

(* When the losses end the video recovers: the last frames are decoded. *)
VideoRecovers == <>[](NoWait /\ decFrame.n = MaxFrame)

(* notifyFrameLost, "We may not invalidate frames that we've already received":*)
(* no frame the host is asked to invalidate was decoded or waits to be, so the  *)
(* host and the decoder agree on what a frame may refer to (where the headers   *)
(* tell the type of a frame).                                                  *)
Asked ==
  { <<toHost[i][2], toHost[i][3]>> : i \in { j \in DOMAIN toHost : toHost[j][1] = "rfi" } }
    \cup Range(invalidReferenceFrameTuples.items)
    \cup (IF rfiPc = "wait" THEN {} ELSE {rfiRange})

NothingDecodedIsInvalidated ==
  typedHeaders => \A r \in Asked :
    \A n \in shown \cup { f.n : f \in Range(decodeUnitQueue.items) } : n < r[1] \/ r[2] < n
===============================================================================
