--------------------------- MODULE MCCodecRecovery ----------------------------
EXTENDS CodecRecovery

(* With the Choreographer thread one error or one change of the metadata;  *)
(* without it three errors, or one of each.                                *)
MCBudgets ==
  [b \in BOOLEAN |-> IF b THEN {[errors |-> 1, changes |-> 0], [errors |-> 0, changes |-> 1]}
                          ELSE {[errors |-> 3, changes |-> 0], [errors |-> 1, changes |-> 1]}]
===============================================================================
