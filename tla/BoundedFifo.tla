------------------------------ MODULE BoundedFifo ------------------------------
(***************************************************************************)
(* What a linked blocking queue promises to the threads that share it: the *)
(* items leave in the order they entered, each of them once, at most Bound *)
(* of them wait at any time, nothing enters once the queue is draining,    *)
(* nothing is handed out once it is closed, and items never leave for any  *)
(* reason but being handed out or a flush of everything that waits.        *)
(***************************************************************************)
EXTENDS Integers, Sequences

CONSTANTS Items, Bound

VARIABLES entered,   \* every item ever accepted, in order
          left,      \* how many of them have left
          mode       \* "open", "draining" or "closed"

vars == <<entered, left, mode>>

Init == entered = <<>> /\ left = 0 /\ mode = "open"

Put(x) ==
  /\ mode = "open"
  /\ Len(entered) - left < Bound
  /\ entered' = Append(entered, x)
  /\ UNCHANGED <<left, mode>>

Take ==
  /\ mode # "closed"
  /\ left < Len(entered)
  /\ left' = left + 1
  /\ UNCHANGED <<entered, mode>>

Clear ==
  /\ left' = Len(entered)
  /\ UNCHANGED <<entered, mode>>

Drain ==
  /\ mode = "open"
  /\ mode' = "draining"
  /\ UNCHANGED <<entered, left>>

Close ==
  /\ mode' = "closed"
  /\ UNCHANGED <<entered, left>>

Next == \/ \E x \in Items : Put(x)
        \/ Take
        \/ Clear
        \/ Drain
        \/ Close

Spec == Init /\ [][Next]_vars
===============================================================================
