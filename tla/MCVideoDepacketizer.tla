-------------------------- MODULE MCVideoDepacketizer --------------------------
(* The depacketizer alone, with every order of frames, losses and answers of   *)
(* the decoder, for every setting of a session: with a decoder thread or a     *)
(* decoder that is the receive thread, with and without reference frame        *)
(* invalidation, and with hosts whose frame headers tell the type or do not.   *)
EXTENDS VideoDepacketizer
===============================================================================
