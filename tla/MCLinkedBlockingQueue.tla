------------------------- MODULE MCLinkedBlockingQueue -------------------------
(* Two threads, three items and a queue of two: the queue fills up, is emptied *)
(* and refilled while a signal of the first fill is still on its way.          *)
EXTENDS LinkedBlockingQueue
===============================================================================
