----------------------------- MODULE FrameDelivery -----------------------------
(***************************************************************************)
(* What the RTP video queue promises the depacketizer, in terms of frames  *)
(* instead of packets.  One step is one call of RtpvAddPacket; the calls   *)
(* the step makes into the depacketizer are the sequence "calls":          *)
(* <<"frame", n>> for all packets of frame n, <<"lost", n>> for            *)
(* notifyFrameLost(n), <<"predicted", n>> for a speculative one.  A frame  *)
(* is submitted whole, frames are submitted in order, and a frame given up *)
(* is never submitted, unless its loss was only predicted.                 *)
(***************************************************************************)
EXTENDS Integers, Sequences

CONSTANTS FrameNumbers, LastBlock   \* a frame has the blocks 0 .. LastBlock at most

VARIABLES
  currentFrameNumber, multiFecCurrentBlockNumber, reportedLostFrame,
  assembling,   \* packets of the current block are pending
  calls

vars == <<currentFrameNumber, multiFecCurrentBlockNumber, reportedLostFrame,
          assembling, calls>>

Init ==
  /\ currentFrameNumber = 1
  /\ multiFecCurrentBlockNumber = 0
  /\ reportedLostFrame = FALSE
  /\ assembling = FALSE
  /\ calls = <<>>

GapAlwaysReported(n) == << <<"lost", n - 1>> >>   \* a faulty variant of GapReport

(* A packet that changes nothing a frame depends on. *)
Idle ==
  /\ calls' = <<>>
  /\ UNCHANGED <<currentFrameNumber, multiFecCurrentBlockNumber, reportedLostFrame, assembling>>

(* How a packet leaves block b of frame n, given whether the loss of the frame *)
(* was reported before: ...                                                    *)
At(n, b, pending) ==
  /\ currentFrameNumber' = n
  /\ multiFecCurrentBlockNumber' = b
  /\ assembling' = pending

(* ... the block is still incomplete, maybe without hope, ... *)
Pending(n, b, reported, before) ==
  /\ At(n, b, TRUE)
  /\ \/ calls' = before /\ reportedLostFrame' = reported
     \/ /\ ~reported
        /\ calls' = Append(before, <<"predicted", n>>)
        /\ reportedLostFrame' = TRUE

(* ... the block is complete but not the frame, ... *)
BlockDone(n, b, reported, before) ==
  /\ b < LastBlock
  /\ At(n, b + 1, FALSE)
  /\ calls' = before
  /\ reportedLostFrame' = reported

(* ... or the frame is complete. *)
FrameDone(n, b, reported, before) ==
  /\ At(n + 1, 0, FALSE)
  /\ calls' = Append(before, <<"frame", n>>)
  /\ reportedLostFrame' = reported

Outcome(n, b, reported, before) ==
  \/ Pending(n, b, reported, before)
  \/ BlockDone(n, b, reported, before)
  \/ FrameDone(n, b, reported, before)

(* The loss of the frame before frame n is not reported again. *)
GapReport(n) ==
  IF n = currentFrameNumber \/ (n = currentFrameNumber + 1 /\ reportedLostFrame)
  THEN <<>> ELSE << <<"lost", n - 1>> >>

(* The first packet of a later frame, or of the next block of this one. *)
Begin(n) ==
  /\ currentFrameNumber <= n
  /\ n = currentFrameNumber => ~assembling
  /\ Outcome(n, IF n = currentFrameNumber THEN multiFecCurrentBlockNumber ELSE 0,
             FALSE, GapReport(n))

Continue ==
  /\ assembling
  /\ Outcome(currentFrameNumber, multiFecCurrentBlockNumber, reportedLostFrame, <<>>)

(* A block of a frame is missing when a packet of frame n arrives. *)
LoseBlock(n) ==
  /\ currentFrameNumber <= n
  /\ calls' = IF reportedLostFrame THEN <<>> ELSE << <<"lost", currentFrameNumber>> >>
  /\ At(n + 1, 0, FALSE)
  /\ reportedLostFrame' = TRUE

Next == Idle \/ Continue \/ \E n \in FrameNumbers : Begin(n) \/ LoseBlock(n)

Spec == Init /\ [][Next]_vars
===============================================================================
