-------------------------------- MODULE LbqOps --------------------------------
(***************************************************************************)
(* The linked blocking queue of moonlight-common-c (LinkedBlockingQueue.c) *)
(* as a value.  Every operation of the C code is one critical section of   *)
(* the queue's mutex, so an operation is an operator from the queue before *)
(* the section to the queue after it, and one operator per return code.    *)
(* The doubly linked list (head, tail, flink, blink, currentSize) is the   *)
(* sequence of the queued data; lifetimeSize is only ever compared with    *)
(* zero, so it is the Boolean "used".                                      *)
(***************************************************************************)
EXTENDS Integers, Sequences

LBQ_SUCCESS        == "success"
LBQ_INTERRUPTED    == "interrupted"
LBQ_BOUND_EXCEEDED == "bound_exceeded"
LBQ_NO_ELEMENT     == "no_element"
LBQ_USER_WAKE      == "user_wake"

QueueOf(S) == [items: Seq(S), used: BOOLEAN, shutdown: BOOLEAN,
               draining: BOOLEAN, pendingUserWake: BOOLEAN]

NewQueue == [items |-> <<>>, used |-> FALSE, shutdown |-> FALSE,
             draining |-> FALSE, pendingUserWake |-> FALSE]

IsEmpty(q) == q.items = <<>>

-------------------------------------------------------------------------------
(* Faulty variants of the operators below, for the runs that show which       *)
(* property would notice the slip.                                            *)
OfferStatusWhileDraining(q, sizeBound) ==
  IF q.shutdown THEN LBQ_INTERRUPTED
  ELSE IF Len(q.items) = sizeBound THEN LBQ_BOUND_EXCEEDED
  ELSE LBQ_SUCCESS

SignalWhenNonEmpty(q) == ~IsEmpty(q)

-------------------------------------------------------------------------------
(* LbqOfferQueueItem: a stopped queue refuses, then a full one does. *)
OfferStatus(q, sizeBound) ==
  IF q.shutdown \/ q.draining THEN LBQ_INTERRUPTED
  ELSE IF Len(q.items) = sizeBound THEN LBQ_BOUND_EXCEEDED
  ELSE LBQ_SUCCESS

(* The list surgery of an offer (at the tail) and of a poll or wait (the head). *)
Link(items, x) == Append(items, x)

Unlink(items) == Tail(items)

Offered(q, sizeBound, x) ==
  IF OfferStatus(q, sizeBound) = LBQ_SUCCESS
  THEN [q EXCEPT !.items = Link(@, x), !.used = TRUE]
  ELSE q

(* An offer signals the condition variable on empty -> non-empty only. *)
OfferSignals(q) == IsEmpty(q)

(* LbqPeekQueueElement and LbqPollQueueElement return the same codes. *)
PollStatus(q) ==
  IF q.shutdown \/ (IsEmpty(q) /\ q.draining) THEN LBQ_INTERRUPTED
  ELSE IF IsEmpty(q) THEN LBQ_NO_ELEMENT
  ELSE LBQ_SUCCESS

PeekStatus(q) == PollStatus(q)

Polled(q) ==
  IF PollStatus(q) = LBQ_SUCCESS THEN [q EXCEPT !.items = Unlink(@)] ELSE q

(* LbqWaitForQueueElement sleeps on the condition variable while this holds. *)
WaitBlocks(q) ==
  IsEmpty(q) /\ ~q.draining /\ ~q.shutdown /\ ~q.pendingUserWake

(* The codes of a wait that does not sleep, in the order of its tests. *)
WaitStatus(q) ==
  IF q.shutdown THEN LBQ_INTERRUPTED
  ELSE IF q.pendingUserWake THEN LBQ_USER_WAKE
  ELSE IF IsEmpty(q) THEN LBQ_INTERRUPTED
  ELSE LBQ_SUCCESS

Waited(q) ==
  CASE WaitStatus(q) = LBQ_USER_WAKE -> [q EXCEPT !.pendingUserWake = FALSE]
    [] WaitStatus(q) = LBQ_SUCCESS   -> [q EXCEPT !.items = Unlink(@)]
    [] OTHER                         -> q

Flushed(q) == [q EXCEPT !.items = <<>>]

ShutDown(q) == [q EXCEPT !.shutdown = TRUE]

Drained(q) == [q EXCEPT !.draining = TRUE]

UserWoken(q) == [q EXCEPT !.pendingUserWake = TRUE]

(* The assertion at the head of LbqDestroyLinkedBlockingQueue. *)
DestroyAllowed(q) == q.shutdown \/ q.draining \/ ~q.used
===============================================================================
