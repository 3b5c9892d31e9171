-------------------------- MODULE LinkedBlockingQueue --------------------------
(***************************************************************************)
(* A linked blocking queue shared by one consumer thread and any number of *)
(* other threads (LinkedBlockingQueue.c).  Each action is one critical     *)
(* section of the queue's mutex.  The condition variable is signalled only *)
(* after the mutex is released, so that signal is a step of its own, and   *)
(* any other thread may run between the two.                               *)
(*                                                                         *)
(* Every queue of the library has a single thread that waits on it: the    *)
(* wake-up on the empty to non-empty transition alone relies on that.      *)
(***************************************************************************)
EXTENDS LbqOps

CONSTANTS Callers,    \* the threads that offer, flush and stop the queue
          Items,      \* what is queued; each item is offered successfully once
          SizeBound,  \* sizeBound of LbqInitializeLinkedBlockingQueue
          MaxWakes,   \* bound on the user wakes of a run
          NoItem      \* "nothing peeked"

ASSUME SizeBoundAssumption == SizeBound \in Nat \ {0}
ASSUME MaxWakesAssumption  == MaxWakes \in Nat
ASSUME NoItemAssumption    == NoItem \notin Items

VARIABLES
  q,          \* the queue
  pc,         \* per thread: "idle", or "signal" between unlock and signal
  consumer,   \* "out" of the wait, "asleep" in it, "woken" in it, or "done"
  peeked,     \* what the consumer's last peek returned, until it removes an item
  wakes,      \* user wakes so far
  accepted,   \* history: the items accepted, in order
  removed,    \* history: the items that left the queue, in order
  delivered   \* history: those of them that were handed to the consumer

lbqVars == <<q, pc, consumer, peeked, wakes, accepted, removed, delivered>>

Elements(s) == {s[i] : i \in DOMAIN s}

LbqInit ==
  /\ q = NewQueue
  /\ pc = [t \in Callers |-> "idle"]
  /\ consumer = "out"
  /\ peeked = NoItem
  /\ wakes = 0
  /\ accepted = <<>>
  /\ removed = <<>>
  /\ delivered = {}

-------------------------------------------------------------------------------
(* A faulty variant: the stopping thread forgets the signal. *)
UnlockOnly(t) == pc' = pc

(* A stopping thread unlocks and then always signals. *)
UnlockThenSignal(t) == pc' = [pc EXCEPT ![t] = "signal"]

-------------------------------------------------------------------------------
(* Operations of the other threads. *)

(* LbqOfferQueueItem.  A refused offer changes nothing in the queue and leaves *)
(* the item with its caller. *)
Offer(t, x) ==
  /\ pc[t] = "idle"
  /\ x \notin Elements(accepted)
  /\ OfferStatus(q, SizeBound) = LBQ_SUCCESS
  /\ q' = Offered(q, SizeBound, x)
  /\ accepted' = Append(accepted, x)
  /\ pc' = IF OfferSignals(q) THEN [pc EXCEPT ![t] = "signal"] ELSE pc
  /\ UNCHANGED <<consumer, peeked, wakes, removed, delivered>>

(* LbqFlushQueueItems: the caller gets the whole list and frees it. *)
Flush(t) ==
  /\ pc[t] = "idle"
  /\ q' = Flushed(q)
  /\ removed' = removed \o q.items
  /\ UNCHANGED <<pc, consumer, peeked, wakes, accepted, delivered>>

SignalQueueShutdown(t) ==
  /\ pc[t] = "idle"
  /\ q' = ShutDown(q)
  /\ UnlockThenSignal(t)
  /\ UNCHANGED <<consumer, peeked, wakes, accepted, removed, delivered>>

SignalQueueDrain(t) ==
  /\ pc[t] = "idle"
  /\ q' = Drained(q)
  /\ UnlockThenSignal(t)
  /\ UNCHANGED <<consumer, peeked, wakes, accepted, removed, delivered>>

SignalQueueUserWake(t) ==
  /\ pc[t] = "idle"
  /\ wakes < MaxWakes
  /\ q' = UserWoken(q)
  /\ wakes' = wakes + 1
  /\ UnlockThenSignal(t)
  /\ UNCHANGED <<consumer, peeked, accepted, removed, delivered>>

(* PltSignalConditionVariable, after the mutex was released. *)
SignalCond(t) ==
  /\ pc[t] = "signal"
  /\ pc' = [pc EXCEPT ![t] = "idle"]
  /\ consumer' = IF consumer = "asleep" THEN "woken" ELSE consumer
  /\ UNCHANGED <<q, peeked, wakes, accepted, removed, delivered>>

-------------------------------------------------------------------------------
(* Operations of the consumer. *)

(* Handing the head of the queue to the consumer. *)
TakeHead ==
  /\ removed' = Append(removed, Head(q.items))
  /\ delivered' = delivered \cup {Head(q.items)}
  /\ peeked' = NoItem

(* LbqWaitForQueueElement, from its call or from a wake-up, to the sleep. *)
WaitSleep ==
  /\ consumer \in {"out", "woken"}
  /\ WaitBlocks(q)
  /\ consumer' = "asleep"
  /\ UNCHANGED <<q, pc, peeked, wakes, accepted, removed, delivered>>

(* LbqWaitForQueueElement, from its call or from a wake-up, to its return.   *)
(* The consuming threads leave their loop when it is interrupted.            *)
WaitReturn ==
  /\ consumer \in {"out", "woken"}
  /\ ~WaitBlocks(q)
  /\ q' = Waited(q)
  /\ consumer' = IF WaitStatus(q) = LBQ_INTERRUPTED THEN "done" ELSE "out"
  /\ IF WaitStatus(q) = LBQ_SUCCESS
     THEN TakeHead
     ELSE UNCHANGED <<removed, delivered, peeked>>
  /\ UNCHANGED <<pc, wakes, accepted>>

(* LbqPollQueueElement; a poll that finds nothing changes nothing. *)
PollQueueElement ==
  /\ consumer = "out"
  /\ PollStatus(q) = LBQ_SUCCESS
  /\ q' = Polled(q)
  /\ TakeHead
  /\ UNCHANGED <<pc, consumer, wakes, accepted>>

(* LbqPeekQueueElement: the consumer keeps a pointer to data it does not own. *)
PeekQueueElement ==
  /\ consumer = "out"
  /\ PeekStatus(q) = LBQ_SUCCESS
  /\ peeked' = Head(q.items)
  /\ UNCHANGED <<q, pc, consumer, wakes, accepted, removed, delivered>>

(* A condition variable may wake its waiter without a signal. *)
SpuriousWakeup ==
  /\ consumer = "asleep"
  /\ consumer' = "woken"
  /\ UNCHANGED <<q, pc, peeked, wakes, accepted, removed, delivered>>

-------------------------------------------------------------------------------
ThreadStep(t) ==
  \/ \E x \in Items : Offer(t, x)
  \/ Flush(t)
  \/ SignalQueueShutdown(t)
  \/ SignalQueueDrain(t)
  \/ SignalQueueUserWake(t)
  \/ SignalCond(t)

LbqNext ==
  \/ \E t \in Callers : ThreadStep(t)
  \/ WaitSleep
  \/ WaitReturn
  \/ PollQueueElement
  \/ PeekQueueElement
  \/ SpuriousWakeup

LbqSpec == LbqInit /\ [][LbqNext]_lbqVars

(* A thread that has unlocked goes on to signal, and a consumer that runs     *)
(* comes back to wait: the operating system schedules runnable threads.       *)
(* Nothing is assumed of the other calls, nor of spurious wake-ups.           *)
Fairness ==
  /\ \A t \in Callers : WF_lbqVars(SignalCond(t))
  /\ WF_lbqVars(WaitSleep)
  /\ WF_lbqVars(WaitReturn)

LbqFairSpec == LbqSpec /\ Fairness

-------------------------------------------------------------------------------
(* The type of every variable, the bound of the queue included: the code      *)
(* refuses an item when currentSize has reached sizeBound.                    *)
LbqTypeOK ==
  /\ q \in QueueOf(Items)
  /\ Len(q.items) <= SizeBound
  /\ pc \in [Callers -> {"idle", "signal"}]
  /\ consumer \in {"out", "asleep", "woken", "done"}
  /\ peeked \in Items \cup {NoItem}
  /\ wakes \in Nat
  /\ accepted \in Seq(Items)
  /\ removed \in Seq(Items)
  /\ delivered \in SUBSET Items

(* A consumer sleeps on a queue it should not sleep on only while some        *)
(* thread is between its unlock and its signal: no wake-up is ever lost       *)
(* although offers to a non-empty queue do not signal and signals are sent    *)
(* outside the mutex.                                                         *)
NoLostWakeup ==
  consumer = "asleep" /\ ~WaitBlocks(q) => \E t \in Callers : pc[t] = "signal"

(* The items leave in the order they were accepted, none is lost and none     *)
(* leaves twice, whoever flushes, polls or waits in between.                  *)
FifoConservation == accepted = removed \o q.items

(* A peeked pointer is still the head of the queue as long as nobody flushed  *)
(* it away: "This must be synchronized with LbqFlushQueueItems by the         *)
(* caller" is the only obligation of the peeking thread.                      *)
PeekStable ==
  peeked # NoItem =>
    \/ ~IsEmpty(q) /\ Head(q.items) = peeked
    \/ peeked \in Elements(removed)

(* A consumer that left its loop of a drained queue left nothing behind, and  *)
(* nothing can arrive any more: draining loses no item that was accepted.     *)
DrainLosesNothing == consumer = "done" /\ ~q.shutdown => removed = accepted

(* Once the queue is shut down nothing is handed out and nothing accepted,    *)
(* "even if there's data available".                                          *)
ShutdownIsFinal ==
  [][q.shutdown => q'.shutdown /\ delivered' = delivered /\ accepted' = accepted]_lbqVars

(* A stopped queue releases its consumer: after a shutdown or a drain the     *)
(* consuming thread gets LBQ_INTERRUPTED and can be joined.                   *)
StopReleasesConsumer == (q.shutdown \/ q.draining) ~> consumer = "done"

(* An accepted item is handed over, unless a flush takes it or the queue is   *)
(* shut down first.                                                           *)
AcceptedIsServed ==
  \A x \in Items :
    (x \in Elements(q.items)) ~> (x \in Elements(removed) \/ q.shutdown)

Mode == IF q.shutdown THEN "closed" ELSE IF q.draining THEN "draining" ELSE "open"

(* The queue implements the bounded FIFO. *)
Fifo == INSTANCE BoundedFifo
          WITH Bound <- SizeBound, entered <- accepted, left <- Len(removed), mode <- Mode

ImplementsFifo == Fifo!Spec
===============================================================================
