---------------------------- MODULE MCRtpVideoQueue ----------------------------
(* Streams for RtpVideoQueue: a packet is its frame, its block, the last block *)
(* of the frame, its index, and the data and parity packets of its block.      *)
EXTENDS RtpVideoQueue

P(f, b, l, i, d, p) ==
  [frame |-> f, block |-> b, lastBlock |-> l, index |-> i, data |-> d, parity |-> p]

(* Frames of one and of two blocks, with no, one or two parity packets. *)
Mixed == <<
  P(1, 0, 1, 0, 2, 1), P(1, 0, 1, 1, 2, 1), P(1, 0, 1, 2, 2, 1), P(1, 1, 1, 0, 1, 1),
  P(1, 1, 1, 1, 1, 1), P(2, 0, 0, 0, 1, 0), P(3, 0, 1, 0, 1, 1), P(3, 0, 1, 1, 1, 1),
  P(3, 1, 1, 0, 2, 1), P(3, 1, 1, 1, 2, 1), P(3, 1, 1, 2, 2, 1), P(4, 0, 0, 0, 2, 2),
  P(4, 0, 0, 1, 2, 2), P(4, 0, 0, 2, 2, 2), P(4, 0, 0, 3, 2, 2), P(5, 0, 0, 0, 2, 0),
  P(5, 0, 0, 1, 2, 0), P(6, 0, 0, 0, 1, 1), P(6, 0, 0, 1, 1, 1)
>>

(* Only the first of three frames has two blocks. *)
FirstHasTwo == <<
  P(1, 0, 1, 0, 2, 0), P(1, 0, 1, 1, 2, 0), P(1, 1, 1, 0, 1, 0), P(2, 0, 0, 0, 1, 0),
  P(3, 0, 0, 0, 1, 0)
>>
===============================================================================
