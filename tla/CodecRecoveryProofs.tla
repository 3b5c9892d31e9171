------------------------ MODULE CodecRecoveryProofs -------------------------
(***************************************************************************)
(* Proofs about CodecRecovery, for any limit of tries and of the queue and *)
(* any errors of the codec and changes of the metadata.  The inductive     *)
(* invariant IInv says where each thread may be (Places) and with what     *)
(* (Holdings); that the thread which recovers the codec does so with all   *)
(* flags set, and that a flag is set only of a thread that is quiet        *)
(* (MonitorIsHeld), for which it must know that a flag or a visit without  *)
(* a pending recovery is one of a stop (ClearedByStop); that the buffers   *)
(* are forgotten when the monitor is taken (BuffersAreFresh); and that the *)
(* input thread asks for an IDR frame after a recovery (IdrIsNext).        *)
(***************************************************************************)
EXTENDS CodecRecovery, TLAPS

(* The values of the variables, in the groups that the proofs treat apart; *)
(* those of the buffers are part of BuffersAreFresh.                       *)
ControlTypes ==
  /\ pc \in [Threads -> Positions] /\ call \in {"fetch", "queue", "prefetch"}
  /\ error \in [Threads -> {"none", "transient", "recoverable", "fatal"}]
RecoveryTypes ==
  /\ balanced \in BOOLEAN /\ type \in {"NONE", "RESTART", "RESET"}
  /\ flags \subseteq Threads
  /\ attempts \in Nat /\ owner \in Threads \cup {Nobody} /\ overtaken \in BOOLEAN
FlagTypes ==
  /\ frame \in {"I", "P"} /\ asked \in BOOLEAN /\ primed \in BOOLEAN
  /\ hdr \in BOOLEAN /\ usedHdr \in BOOLEAN /\ hdrCall \in BOOLEAN
  /\ stopping \in BOOLEAN /\ interrupted \in BOOLEAN /\ app \in 0 .. Len(StopScript)
  /\ reported \in BOOLEAN /\ crashed \in BOOLEAN
BudgetTypes == budget \in [errors : Nat, changes : Nat]

(* Where the thread that recovers the codec is, where a thread decides what *)
(* its error means, and where any thread may be; the places of one thread   *)
(* only; and when a thread is quiet without being in the wait.              *)
Recovering == {"recover", "recreate", "configured", "finish"}
Handling   == {"handle", "promote", "get", "get again", "check"}
Anyones    == {"enter", "waiting"} \cup Handling \cup Recovering
Own(t)     == CASE t = "input"  -> {"idle", "fetch", "prefetch", "queue"}
                [] t = "render" -> {"gone", "dequeue", "take", "discard"}
                [] t = "choreo" -> {"gone", "idle", "release"}
AtRest(t)  == pc[t] = "gone" \/ (stopping /\ pc[t] = "idle")

(* Where each thread may be, and with what. *)
Places ==
  /\ \A t \in Threads : pc[t] \in Own(t) \cup Anyones
  /\ ~balanced => pc["choreo"] = "gone"

(* The input thread is in the call it is doing, and a thread that handles an *)
(* error has one; a thread holds a buffer exactly where it is about to use   *)
(* it.                                                                       *)
CallIsDone ==
  /\ pc["input"] \in {"fetch", "prefetch", "queue"} => call = pc["input"]
  /\ pc["input"] \in Handling => error["input"] # "none"
HandsAreUsed == \A t \in Threads : hand[t] # "none"
                  <=> pc[t] \in {"take", "discard", "release"}
Holdings == CallIsDone /\ HandsAreUsed

(* The monitor is taken by the thread that recovers, with all flags set, and *)
(* a flag is set only of a thread that is quiet.                             *)
MonitorIsHeld ==
  /\ \A t \in Threads : owner = t <=> pc[t] \in Recovering
  /\ owner # Nobody => flags = Threads
  /\ \A t \in flags : Waiting(t) \/ owner = t \/ AtRest(t)

(* A stop is told to the threads before the type is cleared, so that a flag or *)
(* a visit without a pending recovery is one of a stop.                        *)
ClearedByStop ==
  /\ (interrupted \/ app > 0) => stopping
  /\ ~stopping /\ flags # {} /\ owner = Nobody => type # "NONE"
  /\ \A t \in Threads : ~stopping /\ pc[t] = "enter" => type # "NONE"

(* The buffers there are belong to the codec in use, and there are none while *)
(* it is recovered.                                                           *)
BuffersAreFresh ==
  /\ inBuf \in {"none", "fresh"} /\ outQ \in Seq({"fresh"})
  /\ hand \in [Threads -> {"none", "fresh"}]
  /\ owner # Nobody => inBuf = "none" /\ outQ = <<>>
  /\ pc["input"] = "queue" => inBuf = "fresh"

(* The input thread fetches and queues a P frame only for a codec that had an *)
(* IDR frame; before it waits for the next frame it has asked for one if need *)
(* be.                                                                        *)
IdrIsNext ==
  /\ pc["input"] = "idle" => primed \/ asked \/ stopping
  /\ pc["input"] \in {"fetch", "queue"} => primed \/ frame = "I"
  /\ pc["input"] = "prefetch" => primed

(* The inductive invariant. *)
IInv ==
  /\ ControlTypes /\ RecoveryTypes /\ FlagTypes /\ BudgetTypes
  /\ Places /\ Holdings /\ MonitorIsHeld /\ ClearedByStop /\ BuffersAreFresh /\ IdrIsNext

-------------------------------------------------------------------------------

(* A thread that goes somewhere leaves the others where they are. *)
LEMMA GotoTypes ==
  ASSUME ControlTypes, NEW t \in Threads, NEW w \in Positions, Goto(t, w)
  PROVE  /\ pc' \in [Threads -> Positions] /\ pc'[t] = w
         /\ \A u \in Threads \ {t} : pc'[u] = pc[u]
BY DEF ControlTypes, Goto

(* What a thread finds when a call returns: the renderer and the              *)
(* Choreographer start over, the input thread goes on with its frame or drops *)
(* it and asks for an IDR frame.                                              *)
LEMMA ReturnValues ==
  ASSUME ControlTypes, NEW t \in Threads, NEW recovered \in BOOLEAN, Return(t, recovered)
  PROVE  /\ ControlTypes'
         /\ error' = [error EXCEPT ![t] = "none"]
         /\ \A u \in Threads \ {t} : pc'[u] = pc[u]
         /\ t = "render" => pc'[t] = IF stopping THEN "gone" ELSE "dequeue"
         /\ t = "choreo" => pc'[t] = "idle"
         /\ t # "input" => UNCHANGED <<call, frame, asked>>
         /\ t = "input" =>
              \/ pc'[t] = "idle" /\ asked' /\ call' = "fetch" /\ frame' = "I"
              \/ /\ ~recovered /\ error[t] = "none" /\ (call # "queue" => inBuf' # "none")
                 /\ pc'[t] = After(call) /\ (asked' <=> asked)
                 /\ call' = IF pc'[t] = "idle" THEN "fetch" ELSE pc'[t]
                 /\ frame' = IF pc'[t] = "idle" THEN "I" ELSE frame
<1>1. error' = [error EXCEPT ![t] = "none"]
  BY DEF Return
<1>2. error' \in [Threads -> {"none", "transient", "recoverable", "fatal"}]
  BY <1>1 DEF ControlTypes
<1>3. CASE t = "render"
  <2>1. Goto(t, IF stopping THEN "gone" ELSE "dequeue") /\ UNCHANGED <<call, frame, asked>>
    BY <1>3 DEF Return
  <2>2. (IF stopping THEN "gone" ELSE "dequeue") \in Positions
    BY DEF Positions
  <2> QED
    BY <1>1, <1>3, <2>1, <2>2, GotoTypes DEF ControlTypes
<1>4. CASE t = "choreo"
  <2>1. Goto(t, "idle") /\ UNCHANGED <<call, frame, asked>>
    BY <1>4 DEF Return
  <2>2. "idle" \in Positions
    BY DEF Positions
  <2> QED
    BY <1>1, <1>4, <2>1, <2>2, GotoTypes DEF ControlTypes
<1>5. CASE t = "input"
  <2>1. CASE Needs(recovered)
    <3>1. Goto(t, "idle") /\ asked' /\ call' = "fetch" /\ frame' = "I"
      BY <1>5, <2>1 DEF Return
    <3>2. "idle" \in Positions
      BY DEF Positions
    <3> QED
      BY <1>1, <1>5, <3>1, <3>2, GotoTypes DEF ControlTypes
  <2>2. CASE ~Needs(recovered)
    <3>1. Goto(t, After(call)) /\ (asked' <=> asked)
          /\ call' = (IF After(call) = "idle" THEN "fetch" ELSE After(call))
          /\ frame' = IF After(call) = "idle" THEN "I" ELSE frame
      BY <1>5, <2>2 DEF Return
    <3>2. After(call) \in {"idle", "queue", "prefetch"}
      BY DEF After, ControlTypes
    <3>3. After(call) \in Positions
      BY <3>2 DEF Positions
    <3>4. ~recovered /\ error[t] = "none" /\ (call # "queue" => inBuf' # "none")
      BY <1>5, <2>2 DEF Needs, ToldRecovered
    <3> QED
      BY <1>1, <1>5, <3>1, <3>2, <3>3, <3>4, GotoTypes DEF ControlTypes
  <2> QED
    BY <2>1, <2>2
<1> QED
  BY <1>3, <1>4, <1>5 DEF Threads

(* What doCodecRecoveryIfRequired makes of a thread: it enters the recovery *)
(* only while one is pending, and returns from its call otherwise.          *)
LEMMA VisitValues ==
  ASSUME ControlTypes, NEW t \in Threads, Visit(t)
  PROVE  /\ ControlTypes'
         /\ \A u \in Threads \ {t} : pc'[u] = pc[u] /\ error'[u] = error[u]
         /\ pc'[t] = "enter" => type # "NONE"
         /\ pc'[t] = "gone" => stopping
         /\ t = "render" => pc'[t] \in {"gone", "dequeue", "enter"}
         /\ t = "choreo" => pc'[t] \in {"idle", "enter"}
         /\ t # "input" => pc'[t] \in {"gone", "idle", "dequeue", "enter"}
                           /\ UNCHANGED <<call, frame, asked>>
         /\ t = "input" =>
              \/ pc'[t] = "enter" /\ UNCHANGED <<call, frame, asked>>
              \/ pc'[t] = "idle" /\ asked' /\ call' = "fetch" /\ frame' = "I"
              \/ /\ error[t] = "none" /\ (call # "queue" => inBuf' # "none")
                 /\ pc'[t] = After(call) /\ (asked' <=> asked)
                 /\ call' = IF pc'[t] = "idle" THEN "fetch" ELSE pc'[t]
                 /\ frame' = IF pc'[t] = "idle" THEN "I" ELSE frame
<1>1. CASE type = "NONE"
  <2>1. Return(t, FALSE)
    BY <1>1 DEF Visit
  <2>2. /\ ControlTypes' /\ error' = [error EXCEPT ![t] = "none"]
        /\ \A u \in Threads \ {t} : pc'[u] = pc[u]
    BY <2>1, ReturnValues
  <2>3. \A u \in Threads \ {t} : error'[u] = error[u]
    BY <2>2
  <2>4. CASE t # "input"
    BY <2>1, <2>3, <2>4, ReturnValues DEF Threads
  <2>5. CASE t = "input"
    <3>1. pc'[t] # "enter" /\ pc'[t] # "gone"
      BY <2>1, <2>5, ReturnValues DEF ControlTypes
    <3> QED
      BY <2>1, <2>3, <2>5, <3>1, ReturnValues
  <2> QED
    BY <2>4, <2>5
<1>2. CASE type # "NONE"
  <2>1. Goto(t, "enter") /\ UNCHANGED <<error, call, frame, asked>>
    BY <1>2 DEF Visit
  <2>2. "enter" \in Positions
    BY DEF Positions
  <2> QED
    BY <1>2, <2>1, <2>2, GotoTypes DEF ControlTypes
<1> QED
  BY <1>1, <1>2

(* An error moves its thread to the handler or, during a stop, past it. *)
LEMMA ThrowValues ==
  ASSUME ControlTypes, NEW t \in Threads, Throw(t), UNCHANGED call
  PROVE  /\ ControlTypes'
         /\ \A u \in Threads \ {t} : pc'[u] = pc[u] /\ error'[u] = error[u]
         /\ pc'[t] \in {"check", "handle"} /\ error'[t] # "none"
         /\ inBuf' = IF t = "input" /\ call = "queue" /\ stopping THEN "none" ELSE inBuf
<1>1. PICK e \in Errors(t) :
        /\ error' = [error EXCEPT ![t] = e]
        /\ Goto(t, IF stopping \/ e = "transient" THEN "check" ELSE "handle")
        /\ inBuf' = IF t = "input" /\ call = "queue" /\ stopping THEN "none" ELSE inBuf
  BY DEF Throw
<1>2. e \in {"transient", "recoverable", "fatal"}
  BY DEF Errors
<1>3. error' \in [Threads -> {"none", "transient", "recoverable", "fatal"}]
      /\ error'[t] # "none" /\ \A u \in Threads \ {t} : error'[u] = error[u]
  BY <1>1, <1>2 DEF ControlTypes
<1>4. (IF stopping \/ e = "transient" THEN "check" ELSE "handle") \in Positions
  BY DEF Positions
<1> QED
  BY <1>1, <1>3, <1>4, GotoTypes DEF ControlTypes

(* The types of each group are kept by a step. *)
LEMMA ControlTypesNext ==
  ASSUME ControlTypes, [Next]_vars
  PROVE  ControlTypes'
<1>1. ASSUME NEW t \in Threads, RaiseFromNone(t) PROVE ControlTypes'
  BY <1>1 DEF ControlTypes, Positions, RaiseFromNone, Goto, errorVars
<1>2. ASSUME NEW t \in Threads, Promote(t) PROVE ControlTypes'
  BY <1>2 DEF ControlTypes, Positions, Promote, Goto, errorVars
<1>3. ASSUME NEW t \in Threads, FirstGet(t) PROVE ControlTypes'
  BY <1>3 DEF ControlTypes, Positions, FirstGet, Goto
<1>4. ASSUME NEW t \in Threads, SecondGet(t) PROVE ControlTypes'
  BY <1>4 DEF ControlTypes, Positions, SecondGet, Goto
<1>5. ASSUME NEW t \in Threads, Report(t) PROVE ControlTypes'
  BY <1>5 DEF ControlTypes, Positions, Report, Goto
<1>6. ASSUME NEW t \in Threads, VisitAfterError(t) PROVE ControlTypes'
  BY <1>6, VisitValues DEF VisitAfterError
<1>7. ASSUME NEW t \in Threads, Enter(t) PROVE ControlTypes'
  BY <1>7, GotoTypes DEF ControlTypes, Positions, Enter, errorVars
<1>8. ASSUME NEW t \in Threads, LeaveWait(t) PROVE ControlTypes'
  BY <1>8, ReturnValues DEF LeaveWait
<1>9. ASSUME NEW t \in Threads, Restart(t) PROVE ControlTypes'
  BY <1>9 DEF ControlTypes, Positions, Restart, SurfaceIsGone, Configured, Goto
<1>10. ASSUME NEW t \in Threads, Reset(t) PROVE ControlTypes'
  BY <1>10 DEF ControlTypes, Positions, Reset, Goto, SurfaceIsGone, Configured
<1>11. ASSUME NEW t \in Threads, Recreate(t) PROVE ControlTypes'
  BY <1>11 DEF ControlTypes, Positions, Recreate, SurfaceIsGone, Configured, Goto
<1>12. ASSUME NEW t \in Threads, RecoveryDone(t) PROVE ControlTypes'
  BY <1>12 DEF ControlTypes, Positions, RecoveryDone, Goto, errorVars
<1>13. ASSUME NEW t \in Threads, Finish(t) PROVE ControlTypes'
  BY <1>13, ReturnValues DEF Finish
<1>14. ASSUME Submit PROVE ControlTypes'
  BY <1>14 DEF ControlTypes, Positions, Submit, Goto, errorVars
<1>15. ASSUME Fetch PROVE ControlTypes'
  BY <1>15, VisitValues, ThrowValues DEF Threads, Fetch, ThrowInCall
<1>16. ASSUME Queue PROVE ControlTypes'
  BY <1>16, VisitValues, ThrowValues DEF Threads, Queue, ThrowInCall
<1>17. ASSUME Dequeue PROVE ControlTypes'
  <2>1. CASE Goto("render", "take") /\ UNCHANGED <<call, error>>
    BY <2>1 DEF ControlTypes, Goto, Positions
  <2>2. CASE Visit("render")
    BY <2>2, VisitValues DEF Threads
  <2>3. CASE ThrowInCall("render")
    BY <2>3, ThrowValues DEF Threads, ThrowInCall
  <2> QED
    BY <1>17, <2>1, <2>2, <2>3 DEF Dequeue, errorVars
<1>18. ASSUME Take PROVE ControlTypes'
  BY <1>18, VisitValues DEF ControlTypes, Positions, Threads, Take, Goto, errorVars
<1>19. ASSUME Discard PROVE ControlTypes'
  BY <1>19, VisitValues, ThrowValues DEF Threads, Discard, ThrowInCall
<1>20. ASSUME DoFrame PROVE ControlTypes'
  <2>1. CASE Goto("choreo", "gone") /\ UNCHANGED <<call, error>>
    BY <2>1 DEF ControlTypes, Goto, Positions
  <2>2. CASE Goto("choreo", "release") /\ UNCHANGED <<call, error>>
    BY <2>2 DEF ControlTypes, Goto, Positions
  <2>3. CASE Visit("choreo")
    BY <2>3, VisitValues DEF Threads
  <2> QED
    BY <1>20, <2>1, <2>2, <2>3 DEF DoFrame, errorVars
<1>21. ASSUME Release PROVE ControlTypes'
  BY <1>21, VisitValues, ThrowValues DEF Threads, Release, ThrowInCall
<1>22. ASSUME SetHdr PROVE ControlTypes'
  BY <1>22 DEF ControlTypes, SetHdr
<1>23. ASSUME RequestRestart PROVE ControlTypes'
  BY <1>23 DEF ControlTypes, RequestRestart, errorVars
<1>24. ASSUME StopStep PROVE ControlTypes'
  BY <1>24 DEF ControlTypes, StopStep, errorVars
<1>25. CASE UNCHANGED vars
  BY <1>25 DEF ControlTypes, vars, errorVars
<1> QED
  BY <1>1, <1>2, <1>3, <1>4, <1>5, <1>6, <1>7, <1>8, <1>9, <1>10, <1>11, <1>12, <1>13,
     <1>14, <1>15, <1>16, <1>17, <1>18, <1>19, <1>20, <1>21, <1>22, <1>23, <1>24, <1>25
     DEF Next, ThreadStep, ErrorStep, RecoveryStep

(* Every step keeps the types of the recovery. *)
LEMMA RecoveryTypesNext ==
  ASSUME ControlTypes, ControlTypes', RecoveryTypes, [Next]_vars
  PROVE  RecoveryTypes'
<1>1. ASSUME NEW t \in Threads, RaiseFromNone(t) PROVE RecoveryTypes'
  BY <1>1 DEF RecoveryTypes, RaiseFromNone, RaiseTo, Wanted
<1>2. ASSUME NEW t \in Threads, Promote(t) PROVE RecoveryTypes'
  BY <1>2 DEF RecoveryTypes, Promote, RaiseTo
<1>3. ASSUME NEW t \in Threads, FirstGet(t) PROVE RecoveryTypes'
  BY <1>3 DEF RecoveryTypes, FirstGet, recoveryVars
<1>4. ASSUME NEW t \in Threads, SecondGet(t) PROVE RecoveryTypes'
  BY <1>4 DEF RecoveryTypes, SecondGet, recoveryVars
<1>5. ASSUME NEW t \in Threads, Report(t) PROVE RecoveryTypes'
  BY <1>5 DEF RecoveryTypes, Report, recoveryVars
<1>6. ASSUME NEW t \in Threads, VisitAfterError(t) PROVE RecoveryTypes'
  BY <1>6 DEF RecoveryTypes, VisitAfterError, recoveryVars
<1>7. ASSUME NEW t \in Threads, Enter(t) PROVE RecoveryTypes'
  BY <1>7 DEF RecoveryTypes, Threads, Enter, Quiesced
<1>8. ASSUME NEW t \in Threads, LeaveWait(t) PROVE RecoveryTypes'
  BY <1>8 DEF RecoveryTypes, LeaveWait, recoveryVars
<1>9. ASSUME NEW t \in Threads, Restart(t) PROVE RecoveryTypes'
  BY <1>9 DEF RecoveryTypes, Restart
<1>10. ASSUME NEW t \in Threads, Reset(t) PROVE RecoveryTypes'
  BY <1>10 DEF RecoveryTypes, Reset, recoveryVars
<1>11. ASSUME NEW t \in Threads, Recreate(t) PROVE RecoveryTypes'
  BY <1>11 DEF RecoveryTypes, Recreate, recoveryVars
<1>12. ASSUME NEW t \in Threads, RecoveryDone(t) PROVE RecoveryTypes'
  BY <1>12 DEF RecoveryTypes, RecoveryDone
<1>13. ASSUME NEW t \in Threads, Finish(t) PROVE RecoveryTypes'
  BY <1>13 DEF RecoveryTypes, Finish
<1>14. ASSUME Submit PROVE RecoveryTypes'
  BY <1>14 DEF RecoveryTypes, Submit, recoveryVars
<1>15. ASSUME Fetch PROVE RecoveryTypes'
  BY <1>15 DEF RecoveryTypes, Fetch, recoveryVars, ToldRecovered
<1>16. ASSUME Queue PROVE RecoveryTypes'
  BY <1>16 DEF RecoveryTypes, Queue, recoveryVars, After, ToldRecovered
<1>17. ASSUME Dequeue PROVE RecoveryTypes'
  BY <1>17 DEF RecoveryTypes, Dequeue, recoveryVars, Return, Needs, After, ToldRecovered
<1>18. ASSUME Take PROVE RecoveryTypes'
  BY <1>18 DEF RecoveryTypes, Take, recoveryVars
<1>19. ASSUME Discard PROVE RecoveryTypes'
  BY <1>19 DEF RecoveryTypes, Discard, recoveryVars, After, ToldRecovered
<1>20. ASSUME DoFrame PROVE RecoveryTypes'
  BY <1>20 DEF RecoveryTypes, DoFrame, recoveryVars
<1>21. ASSUME Release PROVE RecoveryTypes'
  BY <1>21 DEF RecoveryTypes, Release, recoveryVars, After, ToldRecovered
<1>22. ASSUME SetHdr PROVE RecoveryTypes'
  BY <1>22 DEF RecoveryTypes, SetHdr
<1>23. ASSUME RequestRestart PROVE RecoveryTypes'
  BY <1>23 DEF RecoveryTypes, RequestRestart, RaiseTo
<1>24. ASSUME StopStep PROVE RecoveryTypes'
  BY <1>24 DEF RecoveryTypes, StopStep, ClearsType
<1>25. CASE UNCHANGED vars
  BY <1>25 DEF RecoveryTypes, vars, recoveryVars
<1> QED
  BY <1>1, <1>2, <1>3, <1>4, <1>5, <1>6, <1>7, <1>8, <1>9, <1>10, <1>11, <1>12, <1>13,
     <1>14, <1>15, <1>16, <1>17, <1>18, <1>19, <1>20, <1>21, <1>22, <1>23, <1>24, <1>25
     DEF Next, ThreadStep, ErrorStep, RecoveryStep

(* Every step keeps the types of the flags. *)
LEMMA FlagTypesNext ==
  ASSUME ControlTypes, ControlTypes', FlagTypes, [Next]_vars
  PROVE  FlagTypes'
<1>1. ASSUME NEW t \in Threads, RaiseFromNone(t) PROVE FlagTypes'
  BY <1>1 DEF FlagTypes, RaiseFromNone, frameVars, hdrVars, stopVars, errorVars
<1>2. ASSUME NEW t \in Threads, Promote(t) PROVE FlagTypes'
  BY <1>2 DEF FlagTypes, Promote, frameVars, hdrVars, stopVars, errorVars
<1>3. ASSUME NEW t \in Threads, FirstGet(t) PROVE FlagTypes'
  BY <1>3 DEF FlagTypes, FirstGet, frameVars, hdrVars, stopVars
<1>4. ASSUME NEW t \in Threads, SecondGet(t) PROVE FlagTypes'
  BY <1>4 DEF FlagTypes, SecondGet, frameVars, hdrVars, stopVars
<1>5. ASSUME NEW t \in Threads, Report(t) PROVE FlagTypes'
  BY <1>5 DEF FlagTypes, Report, frameVars, hdrVars, stopVars
<1>6. ASSUME NEW t \in Threads, VisitAfterError(t) PROVE FlagTypes'
  BY <1>6 DEF FlagTypes, VisitAfterError, Visit, hdrVars, stopVars, Return
<1>7. ASSUME NEW t \in Threads, Enter(t) PROVE FlagTypes'
  BY <1>7 DEF FlagTypes, Enter, frameVars, hdrVars, stopVars, errorVars
<1>8. ASSUME NEW t \in Threads, LeaveWait(t) PROVE FlagTypes'
  BY <1>8 DEF FlagTypes, LeaveWait, Return, hdrVars, stopVars
<1>9. ASSUME NEW t \in Threads, Restart(t) PROVE FlagTypes'
  BY <1>9 DEF FlagTypes, Restart, SurfaceIsGone, Configured, Configure
<1>10. ASSUME NEW t \in Threads, Reset(t) PROVE FlagTypes'
  BY <1>10 DEF FlagTypes, Reset, SurfaceIsGone, Configured, Configure
<1>11. ASSUME NEW t \in Threads, Recreate(t) PROVE FlagTypes'
  BY <1>11 DEF FlagTypes, Recreate, SurfaceIsGone, Configured, Configure
<1>12. ASSUME NEW t \in Threads, RecoveryDone(t) PROVE FlagTypes'
  BY <1>12 DEF FlagTypes, RecoveryDone, frameVars, hdrVars, stopVars, errorVars
<1>13. ASSUME NEW t \in Threads, Finish(t) PROVE FlagTypes'
  BY <1>13 DEF FlagTypes, Finish, Return, hdrVars, stopVars
<1>14. ASSUME Submit PROVE FlagTypes'
  BY <1>14 DEF FlagTypes, Submit, hdrVars, stopVars, errorVars
<1>15. ASSUME Fetch PROVE FlagTypes'
  BY <1>15 DEF FlagTypes, Fetch, Visit, ThrowInCall, hdrVars, stopVars, Throw, Return
<1>16. ASSUME Queue PROVE FlagTypes'
  BY <1>16 DEF FlagTypes, Queue, Visit, ThrowInCall, hdrVars, stopVars, Throw, Return
<1>17. ASSUME Dequeue PROVE FlagTypes'
  BY <1>17
     DEF FlagTypes, Dequeue, Visit, ThrowInCall, hdrVars, stopVars, errorVars, Throw,
         Return, ToldRecovered
<1>18. ASSUME Take PROVE FlagTypes'
  BY <1>18 DEF FlagTypes, Take, Visit, hdrVars, stopVars, errorVars, Return
<1>19. ASSUME Discard PROVE FlagTypes'
  BY <1>19 DEF FlagTypes, Discard, Visit, ThrowInCall, hdrVars, stopVars, Throw, Return
<1>20. ASSUME DoFrame PROVE FlagTypes'
  BY <1>20 DEF FlagTypes, DoFrame, Visit, hdrVars, stopVars, errorVars, Return
<1>21. ASSUME Release PROVE FlagTypes'
  BY <1>21 DEF FlagTypes, Release, Visit, ThrowInCall, hdrVars, stopVars, Throw, Return
<1>22. ASSUME SetHdr PROVE FlagTypes'
  BY <1>22 DEF FlagTypes, SetHdr, frameVars, stopVars
<1>23. ASSUME RequestRestart PROVE FlagTypes'
  BY <1>23 DEF FlagTypes, RequestRestart, frameVars, stopVars, errorVars
<1>24. ASSUME StopStep PROVE FlagTypes'
  BY <1>24 DEF FlagTypes, StopStep, Stopped, frameVars, hdrVars, errorVars
<1>25. CASE UNCHANGED vars
  BY <1>25 DEF FlagTypes, vars, frameVars, hdrVars, stopVars, errorVars
<1> QED
  BY <1>1, <1>2, <1>3, <1>4, <1>5, <1>6, <1>7, <1>8, <1>9, <1>10, <1>11, <1>12, <1>13,
     <1>14, <1>15, <1>16, <1>17, <1>18, <1>19, <1>20, <1>21, <1>22, <1>23, <1>24, <1>25
     DEF Next, ThreadStep, ErrorStep, RecoveryStep

(* Every step keeps the bounds. *)
LEMMA BudgetTypesNext ==
  ASSUME ControlTypes, ControlTypes', BudgetTypes, [Next]_vars
  PROVE  BudgetTypes'
<1>1. ASSUME NEW t \in Threads, RaiseFromNone(t) PROVE BudgetTypes'
  BY <1>1 DEF BudgetTypes, RaiseFromNone, errorVars
<1>2. ASSUME NEW t \in Threads, Promote(t) PROVE BudgetTypes'
  BY <1>2 DEF BudgetTypes, Promote, errorVars
<1>3. ASSUME NEW t \in Threads, FirstGet(t) PROVE BudgetTypes'
  BY <1>3 DEF BudgetTypes, FirstGet
<1>4. ASSUME NEW t \in Threads, SecondGet(t) PROVE BudgetTypes'
  BY <1>4 DEF BudgetTypes, SecondGet
<1>5. ASSUME NEW t \in Threads, Report(t) PROVE BudgetTypes'
  BY <1>5 DEF BudgetTypes, Report
<1>6. ASSUME NEW t \in Threads, VisitAfterError(t) PROVE BudgetTypes'
  BY <1>6 DEF BudgetTypes, VisitAfterError, Visit
<1>7. ASSUME NEW t \in Threads, Enter(t) PROVE BudgetTypes'
  BY <1>7 DEF BudgetTypes, Enter, errorVars
<1>8. ASSUME NEW t \in Threads, LeaveWait(t) PROVE BudgetTypes'
  BY <1>8 DEF BudgetTypes, LeaveWait
<1>9. ASSUME NEW t \in Threads, Restart(t) PROVE BudgetTypes'
  BY <1>9 DEF BudgetTypes, Restart
<1>10. ASSUME NEW t \in Threads, Reset(t) PROVE BudgetTypes'
  BY <1>10 DEF BudgetTypes, Reset
<1>11. ASSUME NEW t \in Threads, Recreate(t) PROVE BudgetTypes'
  BY <1>11 DEF BudgetTypes, Recreate
<1>12. ASSUME NEW t \in Threads, RecoveryDone(t) PROVE BudgetTypes'
  BY <1>12 DEF BudgetTypes, RecoveryDone, errorVars
<1>13. ASSUME NEW t \in Threads, Finish(t) PROVE BudgetTypes'
  BY <1>13 DEF BudgetTypes, Finish
<1>14. ASSUME Submit PROVE BudgetTypes'
  BY <1>14 DEF BudgetTypes, Submit, errorVars
<1>15. ASSUME Fetch PROVE BudgetTypes'
  BY <1>15 DEF BudgetTypes, Fetch, Visit, ThrowInCall, Throw, Return, Needs, ToldRecovered
<1>16. ASSUME Queue PROVE BudgetTypes'
  BY <1>16 DEF BudgetTypes, Queue, Visit, ThrowInCall, Throw, Return, Needs, ToldRecovered
<1>17. ASSUME Dequeue PROVE BudgetTypes'
  BY <1>17
     DEF BudgetTypes, Dequeue, Visit, ThrowInCall, errorVars, Throw, Return, ToldRecovered
<1>18. ASSUME Take PROVE BudgetTypes'
  BY <1>18 DEF BudgetTypes, Take, Visit, errorVars
<1>19. ASSUME Discard PROVE BudgetTypes'
  BY <1>19 DEF BudgetTypes, Discard, Visit, ThrowInCall, Throw, Return
<1>20. ASSUME DoFrame PROVE BudgetTypes'
  BY <1>20 DEF BudgetTypes, DoFrame, Visit, errorVars
<1>21. ASSUME Release PROVE BudgetTypes'
  BY <1>21 DEF BudgetTypes, Release, Visit, ThrowInCall, Throw, Return
<1>22. ASSUME SetHdr PROVE BudgetTypes'
  BY <1>22 DEF BudgetTypes, SetHdr
<1>23. ASSUME RequestRestart PROVE BudgetTypes'
  BY <1>23 DEF BudgetTypes, RequestRestart, errorVars
<1>24. ASSUME StopStep PROVE BudgetTypes'
  BY <1>24 DEF BudgetTypes, StopStep, errorVars
<1>25. CASE UNCHANGED vars
  BY <1>25 DEF BudgetTypes, vars, errorVars
<1> QED
  BY <1>1, <1>2, <1>3, <1>4, <1>5, <1>6, <1>7, <1>8, <1>9, <1>10, <1>11, <1>12, <1>13,
     <1>14, <1>15, <1>16, <1>17, <1>18, <1>19, <1>20, <1>21, <1>22, <1>23, <1>24, <1>25
     DEF Next, ThreadStep, ErrorStep, RecoveryStep

(* A thread that moves goes to one of its places, ends only during a stop, *)
(* and moves alone.                                                        *)
Moves(t) ==
  /\ pc[t] # "gone" /\ pc'[t] \in Own(t) \cup Anyones
  /\ balanced' = balanced
  /\ pc'[t] = "gone" => stopping
  /\ \A u \in Threads \ {t} : pc'[u] = pc[u]

(* Every action of a thread is such a move. *)
LEMMA ThreadMoves ==
  ASSUME ControlTypes, Places, NEW t \in Threads, ThreadStep(t)
  PROVE  Moves(t)
<1>1. ASSUME NEW s \in Threads, RaiseFromNone(s) PROVE Moves(s)
  BY <1>1
     DEF Moves, ControlTypes, Anyones, Handling, RaiseFromNone, At, Goto, hdrVars,
         stopVars, errorVars, Waiting
<1>2. ASSUME NEW s \in Threads, Promote(s) PROVE Moves(s)
  BY <1>2
     DEF Moves, ControlTypes, Anyones, Handling, Promote, At, Goto, stopVars, errorVars,
         Waiting
<1>3. ASSUME NEW s \in Threads, FirstGet(s) PROVE Moves(s)
  BY <1>3 DEF Moves, ControlTypes, Anyones, Handling, FirstGet, At, Goto, stopVars
<1>4. ASSUME NEW s \in Threads, SecondGet(s) PROVE Moves(s)
  BY <1>4 DEF Moves, ControlTypes, Anyones, Handling, SecondGet, At, Goto, stopVars
<1>5. ASSUME NEW s \in Threads, Report(s) PROVE Moves(s)
  BY <1>5 DEF Moves, ControlTypes, Anyones, Handling, Report, At, Goto, stopVars
<1>6. ASSUME NEW s \in Threads, VisitAfterError(s) PROVE Moves(s)
  BY <1>6, VisitValues DEF Moves, ControlTypes, Own, Anyones, Threads, VisitAfterError, At
<1>7. ASSUME NEW s \in Threads, Enter(s) PROVE Moves(s)
  BY <1>7 DEF Moves, ControlTypes, Anyones, Recovering, Enter, At, Goto, stopVars, errorVars
<1>8. ASSUME NEW s \in Threads, LeaveWait(s) PROVE Moves(s)
  BY <1>8, ReturnValues DEF Moves, Own, Threads, LeaveWait, At
<1>9. ASSUME NEW s \in Threads, Restart(s) PROVE Moves(s)
  BY <1>9
     DEF Moves, ControlTypes, Anyones, Recovering, Restart, At, SurfaceIsGone, Configured,
         Goto, Stale
<1>10. ASSUME NEW s \in Threads, Reset(s) PROVE Moves(s)
  BY <1>10
     DEF Moves, ControlTypes, Anyones, Recovering, Reset, At, Goto, SurfaceIsGone,
         Configured, Configure, Stale
<1>11. ASSUME NEW s \in Threads, Recreate(s) PROVE Moves(s)
  BY <1>11
     DEF Moves, ControlTypes, Anyones, Recovering, Recreate, At, SurfaceIsGone, Configured,
         Goto, Configure, Stale
<1>12. ASSUME NEW s \in Threads, RecoveryDone(s) PROVE Moves(s)
  BY <1>12 DEF Moves, ControlTypes, Anyones, Recovering, RecoveryDone, At, Goto, errorVars
<1>13. ASSUME NEW s \in Threads, Finish(s) PROVE Moves(s)
  BY <1>13, ReturnValues DEF Moves, Own, Threads, Finish, At
<1>14. ASSUME Submit PROVE Moves("input")
  BY <1>14 DEF Moves, ControlTypes, Own, Submit, At, Goto, errorVars
<1>15. ASSUME Fetch PROVE Moves("input")
  BY <1>15, VisitValues, ThrowValues
     DEF Moves, ControlTypes, Own, Anyones, Handling, Threads, Fetch, ThrowInCall
<1>16. ASSUME Queue PROVE Moves("input")
  BY <1>16, VisitValues, ThrowValues
     DEF Moves, Own, Anyones, Handling, Threads, After, Queue, At, ThrowInCall
<1>17. ASSUME Dequeue PROVE Moves("render")
  BY <1>17, VisitValues, ThrowValues
     DEF Moves, ControlTypes, Own, Anyones, Handling, Threads, Dequeue, At, Goto,
         ThrowInCall, stopVars, errorVars
<1>18. ASSUME Take PROVE Moves("render")
  BY <1>18, VisitValues DEF Moves, ControlTypes, Own, Anyones, Threads, Take, At, Goto
<1>19. ASSUME Discard PROVE Moves("render")
  BY <1>19, VisitValues, ThrowValues
     DEF Moves, Own, Anyones, Handling, Threads, Discard, At, ThrowInCall
<1>20. ASSUME DoFrame PROVE Moves("choreo")
  BY <1>20, VisitValues DEF Moves, ControlTypes, Own, Anyones, Threads, DoFrame, At, Goto
<1>21. ASSUME Release PROVE Moves("choreo")
  BY <1>21, VisitValues, ThrowValues
     DEF Moves, Own, Anyones, Handling, Threads, Release, At, ThrowInCall
<1> QED
  BY <1>1, <1>2, <1>3, <1>4, <1>5, <1>6, <1>7, <1>8, <1>9, <1>10, <1>11, <1>12, <1>13,
     <1>14, <1>15, <1>16, <1>17, <1>18, <1>19, <1>20, <1>21
     DEF ThreadStep, ErrorStep, RecoveryStep

(* Each thread stays where it belongs. *)
LEMMA PlacesNext ==
  ASSUME ControlTypes, Places, [Next]_vars
  PROVE  Places'
<1>1. ASSUME NEW t \in Threads, ThreadStep(t) PROVE Places'
  <2>1. Moves(t)
    BY <1>1, ThreadMoves
  <2>2. ASSUME NEW u \in Threads PROVE pc'[u] \in Own(u) \cup Anyones
    BY <2>1 DEF Moves, Places
  <2>3. ~balanced' => pc'["choreo"] = "gone"
    BY <2>1 DEF Moves, Places, Threads
  <2> QED
    BY <2>2, <2>3 DEF Places
<1>2. ASSUME SetHdr \/ RequestRestart \/ StopStep \/ UNCHANGED vars PROVE Places'
  BY <1>2 DEF SetHdr, RequestRestart, StopStep, vars, Places
<1> QED
  BY <1>1, <1>2 DEF Next

(* The three ways to recover the codec. *)
Reconfigures(t) == Restart(t) \/ Reset(t) \/ Recreate(t)

(* No buffer is left while the codec is recovered. *)
LEMMA OwnersBuffers ==
  ASSUME Holdings, MonitorIsHeld, BuffersAreFresh, NEW t \in Threads, pc[t] \in Recovering
  PROVE  /\ inBuf = "none" /\ outQ = <<>> /\ \A u \in Threads : hand[u] = "none"
         /\ \A u \in Threads \ {t} : Waiting(u) \/ AtRest(u)
<1>1. owner = t /\ owner # Nobody /\ flags = Threads
  BY DEF MonitorIsHeld, Threads, Nobody
<1>2. \A u \in Threads \ {t} : Waiting(u) \/ AtRest(u)
  BY <1>1 DEF MonitorIsHeld
<1>3. ASSUME NEW u \in Threads PROVE hand[u] = "none"
  BY <1>2 DEF Holdings, HandsAreUsed, Recovering, Waiting, AtRest
<1> QED
  BY <1>1, <1>2, <1>3 DEF BuffersAreFresh

(* A recovery of the codec, whatever its way and its success, leaves the    *)
(* flags, the monitor and the buffers alone, except that a codec configured *)
(* anew has had no IDR frame.                                               *)
LEMMA ReconfigureValues ==
  ASSUME ControlTypes, Holdings, MonitorIsHeld, BuffersAreFresh,
         NEW t \in Threads, Reconfigures(t)
  PROVE  /\ UNCHANGED <<inBuf, outQ, hand, owner, flags, call, error, frame, asked>>
         /\ UNCHANGED <<interrupted, app>>
         /\ pc[t] \in Recovering /\ pc'[t] \in Recovering
         /\ \A u \in Threads \ {t} : pc'[u] = pc[u] /\ (Waiting(u) \/ AtRest(u))
         /\ (stopping => stopping') /\ type' \in {type, "RESET"}
<1>1. pc[t] \in Recovering
  BY DEF Reconfigures, Restart, Reset, Recreate, At, Recovering
<1>2. CASE Configured(t)
  <2>1. Configure /\ Goto(t, "configured") /\ UNCHANGED stopping
    BY <1>2 DEF Configured
  <2>2. inBuf' = inBuf /\ outQ' = outQ
    BY <1>1, <2>1, OwnersBuffers DEF Configure, Stale
  <2>3. hand' = hand
    <3>1. hand' = [u \in Threads |-> "none"]
      BY <1>1, <2>1, OwnersBuffers DEF Configure, Stale
    <3> QED
      BY <1>1, <3>1, OwnersBuffers DEF BuffersAreFresh
  <2>4. pc'[t] = "configured" /\ \A u \in Threads \ {t} : pc'[u] = pc[u]
    BY <2>1 DEF Goto, ControlTypes
  <2>5. /\ UNCHANGED <<owner, flags, call, error, frame, asked, interrupted, app>>
        /\ type' \in {type, "RESET"}
    BY DEF Reconfigures, Restart, Reset, Recreate, recoveryVars
  <2> QED
    BY <1>1, <2>1, <2>2, <2>3, <2>4, <2>5, OwnersBuffers DEF Recovering
<1>3. CASE ~Configured(t)
  <2>1. UNCHANGED <<inBuf, outQ, hand, owner, flags, call, error, frame, asked, interrupted,
          app>>
        /\ type' \in {type, "RESET"} /\ (stopping => stopping')
    BY <1>3
       DEF Reconfigures, Restart, Reset, Recreate, recoveryVars, bufferVars, SurfaceIsGone
  <2>2. pc'[t] \in Recovering /\ \A u \in Threads \ {t} : pc'[u] = pc[u]
    BY <1>1, <1>3
       DEF Reconfigures, Restart, Reset, Recreate, SurfaceIsGone, Goto, ControlTypes,
           Recovering
  <2> QED
    BY <1>1, <2>1, <2>2, OwnersBuffers
<1> QED
  BY <1>2, <1>3

(* The actions that take decoded frames. *)
Shows(t) ==
  \/ t = "render" /\ (Dequeue \/ Take \/ Discard)
  \/ t = "choreo" /\ (DoFrame \/ Release)

(* What taking and giving back a decoded frame changes. *)
LEMMA ShowsValues ==
  ASSUME ControlTypes, Holdings, MonitorIsHeld, BuffersAreFresh, NEW t \in Threads, Shows(t)
  PROVE  /\ t # "input"
         /\ UNCHANGED <<inBuf, call, frame, asked, primed, type, flags, owner>>
         /\ UNCHANGED <<stopping, app>> /\ (interrupted' => interrupted)
         /\ \A u \in Threads \ {t} : pc'[u] = pc[u] /\ error'[u] = error[u]
         /\ pc'[t] = "enter" => type # "NONE"
         /\ outQ' \in Seq({"fresh"}) /\ (owner # Nobody => outQ' = outQ)
         /\ hand' \in [Threads -> {"none", "fresh"}]
         /\ \A u \in Threads : hand'[u] # "none"
              <=> pc'[u] \in {"take", "discard", "release"}
<1>1. ASSUME Waiting(t) \/ owner = t PROVE FALSE
  BY <1>1
     DEF Shows, Dequeue, Take, Discard, DoFrame, Release, At, Waiting, MonitorIsHeld,
         Recovering
<1>2. owner # Nobody => stopping /\ pc[t] = "idle"
  BY <1>1 DEF MonitorIsHeld, AtRest, Shows, Dequeue, Take, Discard, DoFrame, Release, At
<1>3. /\ t # "input" /\ UNCHANGED <<primed, type, flags, owner, stopping, app>>
      /\ interrupted' => interrupted
      /\ \A u \in Threads : hand[u] # "none" <=> pc[u] \in {"take", "discard", "release"}
      /\ hand \in [Threads -> {"none", "fresh"}] /\ outQ \in Seq({"fresh"})
  BY DEF Shows, Dequeue, Take, Discard, DoFrame, Release, recoveryVars, stopVars, Holdings,
         HandsAreUsed, BuffersAreFresh
<1>4. CASE Dequeue /\ t = "render"
  <2>1. hand["render"] = "none" /\ owner = Nobody
    BY <1>2, <1>3, <1>4 DEF Dequeue, At
  <2>2. CASE Visit("render") /\ UNCHANGED bufferVars
    BY <1>3, <1>4, <2>1, <2>2, VisitValues DEF bufferVars
  <2>3. CASE Visit("render") /\ outQ' = Append(outQ, "fresh") /\ UNCHANGED <<inBuf, hand>>
    <3>1. outQ' \in Seq({"fresh"})
      BY <1>3, <2>3
    <3> QED
      BY <1>3, <1>4, <2>1, <2>3, VisitValues
  <2>4. CASE /\ hand' = [hand EXCEPT !["render"] = "fresh"] /\ Goto("render", "take")
             /\ UNCHANGED <<inBuf, outQ, call, frame, asked, error>>
    BY <1>3, <1>4, <2>4 DEF Goto, ControlTypes
  <2>5. CASE ThrowInCall("render") /\ UNCHANGED <<outQ, hand>>
    BY <1>3, <1>4, <2>1, <2>5, ThrowValues DEF ThrowInCall
  <2> QED
    BY <1>4, <2>2, <2>3, <2>4, <2>5 DEF Dequeue, errorVars
<1>5. CASE Take /\ t = "render"
  <2>1. owner = Nobody /\ inBuf' = inBuf /\ pc[t] = "take"
    BY <1>2, <1>5 DEF Take, At
  <2>2. CASE outQ # <<>> /\ outQ' = Tail(outQ) /\ Goto("render", "discard")
             /\ UNCHANGED <<hand, call, frame, asked, error>>
    <3>1. outQ' \in Seq({"fresh"})
      BY <1>3, <2>2
    <3> QED
      BY <1>3, <1>5, <2>1, <2>2 DEF Goto
  <2>3. CASE hand' = [hand EXCEPT !["render"] = "none"] /\ Visit("render") /\ UNCHANGED outQ
    BY <1>3, <1>5, <2>1, <2>3, VisitValues
  <2> QED
    BY <1>5, <2>2, <2>3 DEF Take, errorVars
<1>6. CASE Discard /\ t = "render"
  <2>1. owner = Nobody /\ hand' = [hand EXCEPT !["render"] = "none"] /\ pc[t] = "discard"
    BY <1>2, <1>6 DEF Discard, At
  <2>2. CASE outQ' = Append(outQ, hand["render"]) /\ Visit("render") /\ UNCHANGED inBuf
    <3>1. hand["render"] = "fresh"
      BY <1>3, <1>6, <2>1
    <3>2. outQ' \in Seq({"fresh"})
      BY <1>3, <2>2, <3>1
    <3> QED
      BY <1>3, <1>6, <2>1, <2>2, VisitValues
  <2>3. CASE ThrowInCall("render") /\ UNCHANGED outQ
    BY <1>3, <1>6, <2>1, <2>3, ThrowValues DEF ThrowInCall
  <2> QED
    BY <1>6, <2>2, <2>3 DEF Discard
<1>7. CASE DoFrame /\ t = "choreo"
  <2>1. inBuf' = inBuf /\ hand["choreo"] = "none"
    BY <1>3, <1>7 DEF DoFrame, At
  <2>2. CASE /\ stopping /\ Goto("choreo", "gone")
             /\ UNCHANGED <<outQ, hand, call, frame, asked, error>>
    BY <1>3, <1>7, <2>1, <2>2 DEF Goto, ControlTypes
  <2>3. CASE /\ ~stopping /\ outQ # <<>> /\ outQ' = Tail(outQ)
             /\ hand' = [hand EXCEPT !["choreo"] = Head(outQ)]
             /\ Goto("choreo", "release") /\ UNCHANGED <<call, frame, asked, error>>
    <3>1. outQ' \in Seq({"fresh"}) /\ Head(outQ) = "fresh"
      BY <1>3, <2>3
    <3> QED
      BY <1>2, <1>3, <1>7, <2>1, <2>3 DEF Goto, ControlTypes
  <2>4. CASE Visit("choreo") /\ UNCHANGED <<outQ, hand>>
    BY <1>3, <1>7, <2>1, <2>4, VisitValues
  <2> QED
    BY <1>7, <2>2, <2>3, <2>4 DEF DoFrame, errorVars
<1>8. CASE Release /\ t = "choreo"
  <2>1. outQ' = outQ /\ hand' = [hand EXCEPT !["choreo"] = "none"]
    BY <1>8 DEF Release
  <2>2. CASE ThrowInCall("choreo")
    BY <1>3, <1>8, <2>1, <2>2, ThrowValues DEF ThrowInCall
  <2>3. CASE Visit("choreo") /\ UNCHANGED inBuf
    BY <1>3, <1>8, <2>1, <2>3, VisitValues
  <2> QED
    BY <1>8, <2>2, <2>3 DEF Release
<1> QED
  BY <1>4, <1>5, <1>6, <1>7, <1>8 DEF Shows

(* VisitAfterError, seen from the parts of the invariant. *)
LEMMA AfterErrorValues ==
  ASSUME ControlTypes, Holdings, NEW t \in Threads, VisitAfterError(t)
  PROVE  /\ pc[t] = "check" /\ \A u \in Threads \ {t} : pc'[u] = pc[u]
              /\ error'[u] = error[u]
         /\ hand[t] = "none" /\ pc'[t] \in {"gone", "idle", "dequeue", "enter"}
         /\ pc'[t] = "enter" => type # "NONE"
         /\ t # "input" => UNCHANGED <<call, frame, asked>>
         /\ t = "input" => pc'[t] = "enter" \/ (pc'[t] = "idle" /\ asked')
         /\ UNCHANGED <<type, flags, owner, inBuf, outQ, hand, primed, stopping,
              interrupted, app>>
<1>1. pc[t] = "check" /\ Visit(t)
      /\ UNCHANGED <<type, flags, owner, inBuf, outQ, hand, primed, stopping, interrupted,
           app>>
  BY DEF VisitAfterError, At, recoveryVars, bufferVars, stopVars
<1>2. hand[t] = "none" /\ (t = "input" => error[t] # "none")
  BY <1>1 DEF Holdings, CallIsDone, HandsAreUsed, Handling
<1> QED
  BY <1>1, <1>2, VisitValues

(* A step that leaves the monitor as it is and its thread as quiet as it was. *)
Stays(t) ==
  /\ flags' = flags /\ owner' = owner /\ (stopping => stopping')
  /\ pc'[t] \in Recovering <=> pc[t] \in Recovering
  /\ t \in flags => Waiting(t)' \/ owner = t \/ AtRest(t)'

(* Such a step keeps MonitorIsHeld. *)
LEMMA StaysHeld ==
  ASSUME MonitorIsHeld, RecoveryTypes, NEW t \in Threads, Moves(t), Stays(t)
  PROVE  MonitorIsHeld'
<1>1. ASSUME NEW u \in Threads PROVE owner' = u <=> pc'[u] \in Recovering
  BY DEF MonitorIsHeld, Moves, Stays
<1>2. ASSUME NEW u \in flags PROVE Waiting(u)' \/ owner' = u \/ AtRest(u)'
  <2>1. u \in Threads
    BY DEF RecoveryTypes
  <2> QED
    BY <2>1 DEF MonitorIsHeld, Moves, Stays, Waiting, AtRest
<1> QED
  BY <1>1, <1>2 DEF MonitorIsHeld, Stays

(* The monitor is taken with all flags set: the last thread to come sees the *)
(* others quiet, and they stay so until the recovery has ended.              *)
LEMMA MonitorIsHeldNext ==
  ASSUME ControlTypes, RecoveryTypes, Places, MonitorIsHeld, ClearedByStop, [Next]_vars
  PROVE  MonitorIsHeld'
<1>1. ASSUME NEW t \in Threads, RaiseFromNone(t) PROVE Stays(t)
  BY <1>1
     DEF Stays, MonitorIsHeld, Waiting, AtRest, Recovering, ControlTypes, RaiseFromNone,
         At, Goto, hdrVars, stopVars, errorVars, Waiting
<1>2. ASSUME NEW t \in Threads, Promote(t) PROVE Stays(t)
  BY <1>2
     DEF Stays, MonitorIsHeld, Waiting, AtRest, Recovering, ControlTypes, Promote, At,
         Goto, stopVars, errorVars, Waiting
<1>3. ASSUME NEW t \in Threads, FirstGet(t) PROVE Stays(t)
  BY <1>3
     DEF Stays, MonitorIsHeld, Waiting, AtRest, Recovering, ControlTypes, FirstGet, At,
         Goto, recoveryVars, stopVars
<1>4. ASSUME NEW t \in Threads, SecondGet(t) PROVE Stays(t)
  BY <1>4
     DEF Stays, MonitorIsHeld, Waiting, AtRest, Recovering, ControlTypes, SecondGet, At,
         Goto, recoveryVars, stopVars
<1>5. ASSUME NEW t \in Threads, Report(t) PROVE Stays(t)
  BY <1>5
     DEF Stays, MonitorIsHeld, Waiting, AtRest, Recovering, ControlTypes, Report, At, Goto,
         recoveryVars, stopVars
<1>6. ASSUME NEW t \in Threads, VisitAfterError(t) PROVE Stays(t)
  BY <1>6, VisitValues, ReturnValues
     DEF Stays, MonitorIsHeld, Waiting, AtRest, Recovering, ControlTypes, VisitAfterError,
         At, recoveryVars, stopVars
<1>7. ASSUME NEW t \in Threads, Enter(t), Moves(t) PROVE MonitorIsHeld'
  <2>1. pc[t] = "enter" /\ owner = Nobody /\ flags' = Quiesced(t) /\ stopping' = stopping
    BY <1>7 DEF Enter, At, stopVars
  <2>2. CASE flags' = Threads
    <3>1. owner' = t /\ pc'[t] = "recover"
      BY <1>7, <2>2 DEF Enter, Goto, ControlTypes
    <3>2. \A u \in Threads \ {t} : Waiting(u) \/ AtRest(u)
      BY <2>1, <2>2 DEF Quiesced, MonitorIsHeld, Places, AtRest, Nobody, Threads
    <3> QED
      BY <1>7, <2>1, <2>2, <3>1, <3>2 DEF MonitorIsHeld, Moves, Waiting, AtRest, Recovering
  <2>3. CASE flags' # Threads
    <3>1. owner' = owner /\ pc'[t] = "waiting"
      BY <1>7, <2>3 DEF Enter, Goto, ControlTypes
    <3>2. ASSUME NEW u \in flags' PROVE Waiting(u)' \/ AtRest(u)'
      <4>1. u = t \/ (u # t /\ u \in Threads /\ (Waiting(u) \/ AtRest(u)))
        BY <2>1 DEF Quiesced, MonitorIsHeld, Places, RecoveryTypes, AtRest, Nobody, Threads
      <4> QED
        BY <1>7, <2>1, <3>1, <4>1 DEF Moves, Waiting, AtRest
    <3>3. \A u \in Threads : pc'[u] \notin Recovering
      BY <1>7, <2>1, <3>1 DEF MonitorIsHeld, Moves, Recovering, Nobody, Threads
    <3> QED
      BY <2>1, <3>1, <3>2, <3>3 DEF MonitorIsHeld, Nobody, Threads
  <2> QED
    BY <2>2, <2>3
<1>8. ASSUME NEW t \in Threads, LeaveWait(t) PROVE Stays(t)
  BY <1>8, ReturnValues
     DEF Stays, AtRest, Recovering, Threads, ClearedByStop, LeaveWait, At, recoveryVars,
         stopVars
<1>9. ASSUME NEW t \in Threads, Restart(t) PROVE Stays(t)
  BY <1>9
     DEF Stays, MonitorIsHeld, Recovering, ControlTypes, Restart, At, SurfaceIsGone,
         Configured, Goto, Stale
<1>10. ASSUME NEW t \in Threads, Reset(t) PROVE Stays(t)
  BY <1>10
     DEF Stays, MonitorIsHeld, Recovering, ControlTypes, Reset, At, Goto, SurfaceIsGone,
         Configured, recoveryVars, Configure, Stale
<1>11. ASSUME NEW t \in Threads, Recreate(t) PROVE Stays(t)
  BY <1>11
     DEF Stays, MonitorIsHeld, Recovering, ControlTypes, Recreate, At, SurfaceIsGone,
         Configured, recoveryVars, Goto, Configure, Stale
<1>12. ASSUME NEW t \in Threads, RecoveryDone(t) PROVE Stays(t)
  BY <1>12 DEF Stays, MonitorIsHeld, Recovering, RecoveryDone, At, Goto, stopVars, errorVars
<1>13. ASSUME NEW t \in Threads, Finish(t), Moves(t) PROVE MonitorIsHeld'
  <2>1. flags' = {} /\ owner' = Nobody /\ pc[t] \in Recovering
    BY <1>13 DEF Finish, At, Recovering
  <2>2. pc'[t] \notin Recovering
    BY <1>13, ReturnValues DEF Finish, Recovering, Threads
  <2> QED
    BY <1>13, <2>1, <2>2 DEF MonitorIsHeld, Moves, Nobody, Threads
<1>14. ASSUME Submit PROVE Stays("input")
  BY <1>14
     DEF Stays, MonitorIsHeld, Waiting, AtRest, Recovering, Submit, At, Goto, recoveryVars,
         errorVars
<1>15. ASSUME Fetch PROVE Stays("input")
  BY <1>15, VisitValues, ThrowValues, ReturnValues
     DEF Stays, MonitorIsHeld, Waiting, AtRest, Recovering, ControlTypes, Threads, Fetch,
         ThrowInCall, recoveryVars, stopVars
<1>16. ASSUME Queue PROVE Stays("input")
  BY <1>16, VisitValues, ThrowValues, ReturnValues
     DEF Stays, MonitorIsHeld, Waiting, AtRest, Recovering, Threads, After, Queue, At,
         ThrowInCall, recoveryVars, stopVars
<1>17. ASSUME Dequeue PROVE Stays("render")
  BY <1>17, VisitValues, ThrowValues, ReturnValues
     DEF Stays, MonitorIsHeld, Waiting, AtRest, Recovering, ControlTypes, Threads, Dequeue,
         At, Goto, ThrowInCall, recoveryVars, stopVars, errorVars
<1>18. ASSUME Take PROVE Stays("render")
  BY <1>18, VisitValues, ReturnValues
     DEF Stays, MonitorIsHeld, Waiting, AtRest, Recovering, ControlTypes, Threads, Take,
         At, Goto, recoveryVars, stopVars
<1>19. ASSUME Discard PROVE Stays("render")
  BY <1>19, VisitValues, ThrowValues, ReturnValues
     DEF Stays, MonitorIsHeld, Waiting, AtRest, Recovering, Threads, Discard, At,
         ThrowInCall, recoveryVars, stopVars
<1>20. ASSUME DoFrame PROVE Stays("choreo")
  BY <1>20, VisitValues, ReturnValues
     DEF Stays, MonitorIsHeld, Waiting, AtRest, Recovering, ControlTypes, Threads, DoFrame,
         At, Goto, recoveryVars, stopVars
<1>21. ASSUME Release PROVE Stays("choreo")
  BY <1>21, VisitValues, ThrowValues, ReturnValues
     DEF Stays, MonitorIsHeld, Waiting, AtRest, Recovering, Threads, Release, At,
         ThrowInCall, recoveryVars, stopVars
<1>22. ASSUME NEW t \in Threads, ThreadStep(t) PROVE MonitorIsHeld'
  <2>1. Moves(t)
    BY <1>22, ThreadMoves
  <2> QED
    BY <1>22, <2>1, StaysHeld, <1>1, <1>2, <1>3, <1>4, <1>5, <1>6, <1>7, <1>8, <1>9, <1>10,
       <1>11, <1>12, <1>13, <1>14, <1>15, <1>16, <1>17, <1>18, <1>19, <1>20, <1>21
       DEF ThreadStep, ErrorStep, RecoveryStep
<1>23. CASE SetHdr
  BY <1>23 DEF MonitorIsHeld, Waiting, AtRest, SetHdr, stopVars
<1>24. CASE RequestRestart
  BY <1>24 DEF MonitorIsHeld, Waiting, AtRest, RequestRestart, stopVars
<1>25. CASE StopStep
  BY <1>25 DEF MonitorIsHeld, Waiting, AtRest, StopStep
<1>26. CASE UNCHANGED vars
  BY <1>26 DEF MonitorIsHeld, Waiting, AtRest, vars, recoveryVars, stopVars
<1> QED
  BY <1>22, <1>23, <1>24, <1>25, <1>26 DEF Next

(* The input thread is in the call it is doing. *)
LEMMA CallIsDoneNext ==
  ASSUME ControlTypes, ControlTypes', Places, Holdings, MonitorIsHeld, BuffersAreFresh,
         [Next]_vars
  PROVE  CallIsDone'
<1>1. ASSUME NEW t \in Threads, RaiseFromNone(t) PROVE CallIsDone'
  BY <1>1
     DEF CallIsDone, Holdings, ControlTypes, Handling, Threads, RaiseFromNone, At, Goto,
         frameVars, hdrVars, stopVars, errorVars, Waiting
<1>2. ASSUME NEW t \in Threads, Promote(t) PROVE CallIsDone'
  BY <1>2
     DEF CallIsDone, Holdings, ControlTypes, Handling, Threads, Promote, At, Goto, hdrVars,
         stopVars, errorVars, Waiting
<1>3. ASSUME NEW t \in Threads, FirstGet(t) PROVE CallIsDone'
  BY <1>3
     DEF CallIsDone, Holdings, ControlTypes, Handling, Threads, FirstGet, At, Goto,
         hdrVars, stopVars
<1>4. ASSUME NEW t \in Threads, SecondGet(t) PROVE CallIsDone'
  BY <1>4
     DEF CallIsDone, Holdings, ControlTypes, Handling, Threads, SecondGet, At, Goto,
         hdrVars, stopVars
<1>5. ASSUME NEW t \in Threads, Report(t) PROVE CallIsDone'
  BY <1>5
     DEF CallIsDone, Holdings, ControlTypes, Handling, Threads, Report, At, Goto, hdrVars,
         stopVars
<1>6. ASSUME NEW t \in Threads, VisitAfterError(t) PROVE CallIsDone'
  BY <1>6, AfterErrorValues DEF Holdings, CallIsDone, Handling, Threads
<1>7. ASSUME NEW t \in Threads, Enter(t) PROVE CallIsDone'
  BY <1>7
     DEF CallIsDone, Holdings, ControlTypes, Handling, Threads, Enter, Goto, hdrVars,
         stopVars, errorVars
<1>8. ASSUME NEW t \in Threads, LeaveWait(t) PROVE CallIsDone'
  BY <1>8, ReturnValues DEF CallIsDone, Holdings, ControlTypes, Handling, Threads, LeaveWait
<1>9. ASSUME NEW t \in Threads, Restart(t) PROVE CallIsDone'
  BY <1>9, ReconfigureValues
     DEF CallIsDone, Recovering, Handling, Threads, Waiting, AtRest, Reconfigures
<1>10. ASSUME NEW t \in Threads, Reset(t) PROVE CallIsDone'
  BY <1>10, ReconfigureValues
     DEF CallIsDone, Recovering, Handling, Threads, Waiting, AtRest, Reconfigures
<1>11. ASSUME NEW t \in Threads, Recreate(t) PROVE CallIsDone'
  BY <1>11, ReconfigureValues
     DEF CallIsDone, Recovering, Handling, Threads, Waiting, AtRest, Reconfigures
<1>12. ASSUME NEW t \in Threads, RecoveryDone(t) PROVE CallIsDone'
  BY <1>12
     DEF CallIsDone, Holdings, ControlTypes, Handling, Threads, RecoveryDone, Goto,
         stopVars, errorVars
<1>13. ASSUME NEW t \in Threads, Finish(t) PROVE CallIsDone'
  BY <1>13, ReturnValues DEF CallIsDone, Holdings, ControlTypes, Handling, Threads, Finish
<1>14. ASSUME Submit PROVE CallIsDone'
  BY <1>14 DEF CallIsDone, ControlTypes, Handling, Submit, Goto, stopVars, errorVars
<1>15. ASSUME Fetch PROVE CallIsDone'
  BY <1>15, VisitValues, ThrowValues
     DEF CallIsDone, ControlTypes, Handling, Threads, Fetch, ThrowInCall
<1>16. ASSUME Queue PROVE CallIsDone'
  BY <1>16, VisitValues, ThrowValues
     DEF CallIsDone, Handling, Threads, After, Queue, ThrowInCall
<1>17. ASSUME Dequeue PROVE CallIsDone'
  BY <1>17, ShowsValues DEF Holdings, CallIsDone, Recovering, Threads, Shows
<1>18. ASSUME Take PROVE CallIsDone'
  BY <1>18, ShowsValues DEF Holdings, CallIsDone, Recovering, Threads, Shows
<1>19. ASSUME Discard PROVE CallIsDone'
  BY <1>19, ShowsValues DEF Holdings, CallIsDone, Recovering, Threads, Shows
<1>20. ASSUME DoFrame PROVE CallIsDone'
  BY <1>20, ShowsValues DEF Holdings, CallIsDone, Recovering, Threads, Shows
<1>21. ASSUME Release PROVE CallIsDone'
  BY <1>21, ShowsValues DEF Holdings, CallIsDone, Recovering, Threads, Shows
<1>22. ASSUME SetHdr PROVE CallIsDone'
  BY <1>22 DEF CallIsDone, Holdings, SetHdr
<1>23. ASSUME RequestRestart PROVE CallIsDone'
  BY <1>23 DEF CallIsDone, Holdings, RequestRestart, errorVars, Waiting
<1>24. ASSUME StopStep PROVE CallIsDone'
  BY <1>24 DEF CallIsDone, Holdings, StopStep, hdrVars, errorVars
<1>25. CASE UNCHANGED vars
  BY <1>25 DEF CallIsDone, Holdings, vars, errorVars
<1> QED
  BY <1>1, <1>2, <1>3, <1>4, <1>5, <1>6, <1>7, <1>8, <1>9, <1>10, <1>11, <1>12, <1>13,
     <1>14, <1>15, <1>16, <1>17, <1>18, <1>19, <1>20, <1>21, <1>22, <1>23, <1>24, <1>25
     DEF Next, ThreadStep, ErrorStep, RecoveryStep

(* A thread holds a buffer exactly where it is about to use it. *)
LEMMA HandsAreUsedNext ==
  ASSUME ControlTypes, ControlTypes', Holdings, MonitorIsHeld, BuffersAreFresh, [Next]_vars
  PROVE  HandsAreUsed'
<1>1. ASSUME NEW t \in Threads, RaiseFromNone(t) PROVE HandsAreUsed'
  BY <1>1 DEF HandsAreUsed, Holdings, ControlTypes, RaiseFromNone, At, Goto
<1>2. ASSUME NEW t \in Threads, Promote(t) PROVE HandsAreUsed'
  BY <1>2 DEF HandsAreUsed, Holdings, ControlTypes, Promote, At, Goto
<1>3. ASSUME NEW t \in Threads, FirstGet(t) PROVE HandsAreUsed'
  BY <1>3 DEF HandsAreUsed, Holdings, ControlTypes, FirstGet, At, Goto
<1>4. ASSUME NEW t \in Threads, SecondGet(t) PROVE HandsAreUsed'
  BY <1>4 DEF HandsAreUsed, Holdings, ControlTypes, SecondGet, At, Goto
<1>5. ASSUME NEW t \in Threads, Report(t) PROVE HandsAreUsed'
  BY <1>5 DEF HandsAreUsed, Holdings, ControlTypes, Report, At, Goto
<1>6. ASSUME NEW t \in Threads, VisitAfterError(t) PROVE HandsAreUsed'
  BY <1>6, AfterErrorValues DEF Holdings, HandsAreUsed
<1>7. ASSUME NEW t \in Threads, Enter(t) PROVE HandsAreUsed'
  BY <1>7 DEF HandsAreUsed, Holdings, ControlTypes, Enter, At, Goto
<1>8. ASSUME NEW t \in Threads, LeaveWait(t) PROVE HandsAreUsed'
  <2>1. pc[t] \in {"waiting", "recover", "finish"} /\ hand' = hand
    BY <1>8 DEF LeaveWait, At, bufferVars
  <2>2. \A u \in Threads \ {t} : pc'[u] = pc[u]
    BY <1>8, ReturnValues DEF LeaveWait
  <2>3. pc'[t] \notin {"take", "discard", "release"}
    BY <1>8, ReturnValues DEF LeaveWait, Threads
  <2> QED
    BY <2>1, <2>2, <2>3 DEF Holdings, HandsAreUsed
<1>9. ASSUME NEW t \in Threads, Restart(t) PROVE HandsAreUsed'
  BY <1>9, ReconfigureValues DEF Holdings, HandsAreUsed, Recovering, Reconfigures
<1>10. ASSUME NEW t \in Threads, Reset(t) PROVE HandsAreUsed'
  BY <1>10, ReconfigureValues DEF Holdings, HandsAreUsed, Recovering, Reconfigures
<1>11. ASSUME NEW t \in Threads, Recreate(t) PROVE HandsAreUsed'
  BY <1>11, ReconfigureValues DEF Holdings, HandsAreUsed, Recovering, Reconfigures
<1>12. ASSUME NEW t \in Threads, RecoveryDone(t) PROVE HandsAreUsed'
  BY <1>12 DEF HandsAreUsed, Holdings, RecoveryDone, At, Goto, bufferVars
<1>13. ASSUME NEW t \in Threads, Finish(t) PROVE HandsAreUsed'
  <2>1. pc[t] \in {"waiting", "recover", "finish"} /\ hand' = hand
    BY <1>13 DEF Finish, At, bufferVars
  <2>2. \A u \in Threads \ {t} : pc'[u] = pc[u]
    BY <1>13, ReturnValues DEF Finish
  <2>3. pc'[t] \notin {"take", "discard", "release"}
    BY <1>13, ReturnValues DEF Finish, Threads
  <2> QED
    BY <2>1, <2>2, <2>3 DEF Holdings, HandsAreUsed
<1>14. ASSUME Submit PROVE HandsAreUsed'
  BY <1>14 DEF HandsAreUsed, Holdings, Submit, At, Goto, bufferVars
<1>15. ASSUME Fetch PROVE HandsAreUsed'
  BY <1>15, VisitValues, ThrowValues
     DEF HandsAreUsed, Holdings, ControlTypes, Threads, Fetch, ThrowInCall
<1>16. ASSUME Queue PROVE HandsAreUsed'
  BY <1>16, VisitValues, ThrowValues
     DEF HandsAreUsed, Holdings, Threads, After, Queue, At, ThrowInCall
<1>17. ASSUME Dequeue PROVE HandsAreUsed'
  BY <1>17, ShowsValues DEF HandsAreUsed, Threads, Shows
<1>18. ASSUME Take PROVE HandsAreUsed'
  BY <1>18, ShowsValues DEF HandsAreUsed, Threads, Shows
<1>19. ASSUME Discard PROVE HandsAreUsed'
  BY <1>19, ShowsValues DEF HandsAreUsed, Threads, Shows
<1>20. ASSUME DoFrame PROVE HandsAreUsed'
  BY <1>20, ShowsValues DEF HandsAreUsed, Threads, Shows
<1>21. ASSUME Release PROVE HandsAreUsed'
  BY <1>21, ShowsValues DEF HandsAreUsed, Threads, Shows
<1>22. ASSUME SetHdr PROVE HandsAreUsed'
  BY <1>22 DEF HandsAreUsed, Holdings, SetHdr, bufferVars
<1>23. ASSUME RequestRestart PROVE HandsAreUsed'
  BY <1>23 DEF HandsAreUsed, Holdings, RequestRestart, bufferVars
<1>24. ASSUME StopStep PROVE HandsAreUsed'
  BY <1>24 DEF HandsAreUsed, Holdings, StopStep, bufferVars
<1>25. CASE UNCHANGED vars
  BY <1>25 DEF HandsAreUsed, Holdings, vars, bufferVars
<1> QED
  BY <1>1, <1>2, <1>3, <1>4, <1>5, <1>6, <1>7, <1>8, <1>9, <1>10, <1>11, <1>12, <1>13,
     <1>14, <1>15, <1>16, <1>17, <1>18, <1>19, <1>20, <1>21, <1>22, <1>23, <1>24, <1>25
     DEF Next, ThreadStep, ErrorStep, RecoveryStep

(* The flags outlive the recovery they were set for only in a stop. *)
LEMMA ClearedByStopNext ==
  ASSUME ControlTypes, ControlTypes', RecoveryTypes, Places, Holdings, MonitorIsHeld,
         BuffersAreFresh, app \in 0 .. Len(StopScript), ClearedByStop, [Next]_vars
  PROVE  ClearedByStop'
<1>1. ASSUME NEW t \in Threads, RaiseFromNone(t) PROVE ClearedByStop'
  BY <1>1
     DEF ClearedByStop, RaiseFromNone, RaiseTo, Wanted, frameVars, hdrVars, stopVars,
         errorVars
<1>2. ASSUME NEW t \in Threads, Promote(t) PROVE ClearedByStop'
  BY <1>2
     DEF ClearedByStop, ControlTypes, Promote, Goto, RaiseTo, hdrVars, stopVars, errorVars
<1>3. ASSUME NEW t \in Threads, FirstGet(t) PROVE ClearedByStop'
  BY <1>3 DEF ClearedByStop, ControlTypes, FirstGet, Goto, recoveryVars, hdrVars, stopVars
<1>4. ASSUME NEW t \in Threads, SecondGet(t) PROVE ClearedByStop'
  BY <1>4 DEF ClearedByStop, SecondGet, recoveryVars, hdrVars, stopVars
<1>5. ASSUME NEW t \in Threads, Report(t) PROVE ClearedByStop'
  BY <1>5 DEF ClearedByStop, ControlTypes, Report, Goto, recoveryVars, hdrVars, stopVars
<1>6. ASSUME NEW t \in Threads, VisitAfterError(t) PROVE ClearedByStop'
  BY <1>6, AfterErrorValues DEF ClearedByStop
<1>7. ASSUME NEW t \in Threads, Enter(t) PROVE ClearedByStop'
  BY <1>7 DEF ClearedByStop, Enter, At, hdrVars, stopVars, errorVars
<1>8. ASSUME NEW t \in Threads, LeaveWait(t) PROVE ClearedByStop'
  BY <1>8, ReturnValues DEF ClearedByStop, Threads, LeaveWait, recoveryVars, stopVars
<1>9. ASSUME NEW t \in Threads, Restart(t) PROVE ClearedByStop'
  BY <1>9, ReconfigureValues DEF ClearedByStop, Recovering, Reconfigures
<1>10. ASSUME NEW t \in Threads, Reset(t) PROVE ClearedByStop'
  BY <1>10, ReconfigureValues DEF ClearedByStop, Recovering, Reconfigures
<1>11. ASSUME NEW t \in Threads, Recreate(t) PROVE ClearedByStop'
  BY <1>11, ReconfigureValues DEF ClearedByStop, Recovering, Reconfigures
<1>12. ASSUME NEW t \in Threads, RecoveryDone(t) PROVE ClearedByStop'
  <2>1. pc[t] = "configured" /\ pc'[t] = "finish" /\ \A u \in Threads \ {t} : pc'[u] = pc[u]
    BY <1>12 DEF RecoveryDone, At, Goto, ControlTypes
  <2>2. owner = t /\ owner # Nobody /\ UNCHANGED <<owner, stopping, interrupted, app>>
    BY <1>12, <2>1 DEF RecoveryDone, MonitorIsHeld, Recovering, Threads, Nobody, stopVars
  <2>3. \A u \in Threads \ {t} : Waiting(u) \/ AtRest(u)
    BY <2>2 DEF MonitorIsHeld
  <2> QED
    BY <2>1, <2>2, <2>3 DEF ClearedByStop, Waiting, AtRest
<1>13. ASSUME NEW t \in Threads, Finish(t) PROVE ClearedByStop'
  BY <1>13, ReturnValues DEF ClearedByStop, Threads, Finish, stopVars
<1>14. ASSUME Submit PROVE ClearedByStop'
  BY <1>14 DEF ClearedByStop, Submit, Goto, recoveryVars, stopVars, errorVars
<1>15. ASSUME Fetch PROVE ClearedByStop'
  BY <1>15, VisitValues, ThrowValues
     DEF ClearedByStop, Threads, Fetch, ThrowInCall, recoveryVars, stopVars
<1>16. ASSUME Queue PROVE ClearedByStop'
  BY <1>16, VisitValues, ThrowValues
     DEF ClearedByStop, Threads, Queue, ThrowInCall, recoveryVars, stopVars
<1>17. ASSUME Dequeue PROVE ClearedByStop'
  BY <1>17, ShowsValues DEF ClearedByStop, Threads, Shows
<1>18. ASSUME Take PROVE ClearedByStop'
  BY <1>18, ShowsValues DEF ClearedByStop, Threads, Shows
<1>19. ASSUME Discard PROVE ClearedByStop'
  BY <1>19, ShowsValues DEF ClearedByStop, Threads, Shows
<1>20. ASSUME DoFrame PROVE ClearedByStop'
  BY <1>20, ShowsValues DEF ClearedByStop, Threads, Shows
<1>21. ASSUME Release PROVE ClearedByStop'
  BY <1>21, ShowsValues DEF ClearedByStop, Threads, Shows
<1>22. ASSUME SetHdr PROVE ClearedByStop'
  BY <1>22 DEF ClearedByStop, SetHdr, stopVars
<1>23. ASSUME RequestRestart PROVE ClearedByStop'
  BY <1>23 DEF ClearedByStop, RequestRestart, stopVars
<1>24. ASSUME StopStep PROVE ClearedByStop'
  <2>1. stopping'
    <3>1. CASE app = 0
      <4>1. StopScript[app + 1] = "stopping"
        BY <3>1 DEF StopScript
      <4> QED
        BY <1>24, <4>1 DEF StopStep
    <3>2. CASE app > 0
      BY <1>24, <3>2 DEF StopStep, ClearedByStop
    <3> QED
      BY <3>1, <3>2
  <2> QED
    BY <2>1 DEF ClearedByStop
<1>25. CASE UNCHANGED vars
  BY <1>25 DEF ClearedByStop, vars, recoveryVars, stopVars, errorVars
<1> QED
  BY <1>1, <1>2, <1>3, <1>4, <1>5, <1>6, <1>7, <1>8, <1>9, <1>10, <1>11, <1>12, <1>13,
     <1>14, <1>15, <1>16, <1>17, <1>18, <1>19, <1>20, <1>21, <1>22, <1>23, <1>24, <1>25
     DEF Next, ThreadStep, ErrorStep, RecoveryStep

(* No buffer of the old codec is kept: the input buffer and the queue are   *)
(* empty when the monitor is taken, and a thread that holds a buffer is not *)
(* quiet.                                                                   *)
LEMMA BuffersAreFreshNext ==
  ASSUME ControlTypes, ControlTypes', Places, Holdings, MonitorIsHeld, BuffersAreFresh,
         [Next]_vars
  PROVE  BuffersAreFresh'
<1>1. ASSUME NEW t \in Threads, RaiseFromNone(t) PROVE BuffersAreFresh'
  BY <1>1
     DEF BuffersAreFresh, ControlTypes, Threads, RaiseFromNone, Goto, RaiseTo, Wanted,
         DropFailedBuffer, frameVars, hdrVars, stopVars, errorVars
<1>2. ASSUME NEW t \in Threads, Promote(t) PROVE BuffersAreFresh'
  BY <1>2
     DEF BuffersAreFresh, ControlTypes, Threads, Promote, Goto, RaiseTo, DropFailedBuffer,
         frameVars, hdrVars, stopVars, errorVars
<1>3. ASSUME NEW t \in Threads, FirstGet(t) PROVE BuffersAreFresh'
  BY <1>3
     DEF BuffersAreFresh, ControlTypes, Threads, FirstGet, Goto, DropFailedBuffer,
         recoveryVars, frameVars, hdrVars, stopVars
<1>4. ASSUME NEW t \in Threads, SecondGet(t) PROVE BuffersAreFresh'
  BY <1>4
     DEF BuffersAreFresh, ControlTypes, Threads, SecondGet, Goto, DropFailedBuffer,
         recoveryVars, frameVars, hdrVars, stopVars
<1>5. ASSUME NEW t \in Threads, Report(t) PROVE BuffersAreFresh'
  BY <1>5
     DEF BuffersAreFresh, ControlTypes, Threads, Report, Goto, DropFailedBuffer,
         recoveryVars, frameVars, hdrVars, stopVars
<1>6. ASSUME NEW t \in Threads, VisitAfterError(t) PROVE BuffersAreFresh'
  BY <1>6, AfterErrorValues DEF BuffersAreFresh, Threads
<1>7. ASSUME NEW t \in Threads, Enter(t) PROVE BuffersAreFresh'
  <2>1. hand' = hand /\ pc[t] = "enter" /\ \A u \in Threads \ {t} : pc'[u] = pc[u]
    BY <1>7 DEF Enter, At, Goto, ControlTypes
  <2>2. pc'[t] \in {"recover", "waiting"}
    BY <1>7 DEF Enter, Goto, ControlTypes
  <2>3. CASE flags' = Threads
    <3>1. inBuf' = "none" /\ outQ' = <<>>
      BY <1>7, <2>3 DEF Enter, ForgetsBuffers
    <3>2. "input" \in flags \/ t = "input"
      BY <1>7, <2>3 DEF Enter, Quiesced, Threads
    <3>3. pc["input"] # "queue"
      BY <2>1, <3>2 DEF MonitorIsHeld, Waiting, AtRest, Nobody
    <3> QED
      BY <2>1, <2>2, <3>1, <3>3 DEF BuffersAreFresh, Threads
  <2>4. CASE UNCHANGED <<owner, inBuf, outQ>>
    BY <2>1, <2>2, <2>4 DEF BuffersAreFresh, Threads
  <2> QED
    BY <1>7, <2>3, <2>4 DEF Enter
<1>8. ASSUME NEW t \in Threads, LeaveWait(t) PROVE BuffersAreFresh'
  BY <1>8, ReturnValues
     DEF BuffersAreFresh, Threads, LeaveWait, recoveryVars, bufferVars, hdrVars, stopVars
<1>9. ASSUME NEW t \in Threads, Restart(t) PROVE BuffersAreFresh'
  BY <1>9, ReconfigureValues DEF BuffersAreFresh, Recovering, Threads, Reconfigures
<1>10. ASSUME NEW t \in Threads, Reset(t) PROVE BuffersAreFresh'
  BY <1>10, ReconfigureValues DEF BuffersAreFresh, Recovering, Threads, Reconfigures
<1>11. ASSUME NEW t \in Threads, Recreate(t) PROVE BuffersAreFresh'
  BY <1>11, ReconfigureValues DEF BuffersAreFresh, Recovering, Threads, Reconfigures
<1>12. ASSUME NEW t \in Threads, RecoveryDone(t) PROVE BuffersAreFresh'
  BY <1>12
     DEF BuffersAreFresh, ControlTypes, RecoveryDone, Goto, bufferVars, frameVars, hdrVars,
         stopVars, errorVars
<1>13. ASSUME NEW t \in Threads, Finish(t) PROVE BuffersAreFresh'
  BY <1>13, ReturnValues DEF BuffersAreFresh, Threads, Finish, bufferVars, hdrVars, stopVars
<1>14. ASSUME Submit PROVE BuffersAreFresh'
  BY <1>14
     DEF BuffersAreFresh, ControlTypes, Submit, Goto, recoveryVars, bufferVars, hdrVars,
         stopVars, errorVars
<1>15. ASSUME Fetch PROVE BuffersAreFresh'
  BY <1>15, VisitValues, ThrowValues
     DEF BuffersAreFresh, Recovering, Threads, After, Waiting, AtRest, MonitorIsHeld,
         Fetch, ThrowInCall, recoveryVars, hdrVars, stopVars
<1>16. ASSUME Queue PROVE BuffersAreFresh'
  BY <1>16, VisitValues, ThrowValues
     DEF BuffersAreFresh, Threads, After, Queue, ThrowInCall, recoveryVars, hdrVars,
         stopVars
<1>17. ASSUME Dequeue PROVE BuffersAreFresh'
  BY <1>17, ShowsValues DEF BuffersAreFresh, Recovering, Threads, Waiting, AtRest, Shows
<1>18. ASSUME Take PROVE BuffersAreFresh'
  BY <1>18, ShowsValues DEF BuffersAreFresh, Recovering, Threads, Waiting, AtRest, Shows
<1>19. ASSUME Discard PROVE BuffersAreFresh'
  BY <1>19, ShowsValues DEF BuffersAreFresh, Recovering, Threads, Waiting, AtRest, Shows
<1>20. ASSUME DoFrame PROVE BuffersAreFresh'
  BY <1>20, ShowsValues DEF BuffersAreFresh, Recovering, Threads, Waiting, AtRest, Shows
<1>21. ASSUME Release PROVE BuffersAreFresh'
  BY <1>21, ShowsValues DEF BuffersAreFresh, Recovering, Threads, Waiting, AtRest, Shows
<1>22. ASSUME SetHdr PROVE BuffersAreFresh'
  BY <1>22 DEF BuffersAreFresh, SetHdr, bufferVars, frameVars, stopVars
<1>23. ASSUME RequestRestart PROVE BuffersAreFresh'
  BY <1>23 DEF BuffersAreFresh, RequestRestart, bufferVars, frameVars, stopVars, errorVars
<1>24. ASSUME StopStep PROVE BuffersAreFresh'
  BY <1>24
     DEF BuffersAreFresh, StopStep, Stopped, StopScript, bufferVars, frameVars, hdrVars,
         errorVars
<1>25. CASE UNCHANGED vars
  BY <1>25
     DEF BuffersAreFresh, vars, recoveryVars, bufferVars, frameVars, hdrVars, stopVars,
         errorVars
<1> QED
  BY <1>1, <1>2, <1>3, <1>4, <1>5, <1>6, <1>7, <1>8, <1>9, <1>10, <1>11, <1>12, <1>13,
     <1>14, <1>15, <1>16, <1>17, <1>18, <1>19, <1>20, <1>21, <1>22, <1>23, <1>24, <1>25
     DEF Next, ThreadStep, ErrorStep, RecoveryStep

(* The input thread asks for an IDR frame after a recovery, in whichever call *)
(* it met it.                                                                 *)
LEMMA IdrIsNextNext ==
  ASSUME ControlTypes, ControlTypes', Places, Holdings, MonitorIsHeld, BuffersAreFresh,
         ClearedByStop, IdrIsNext, [Next]_vars
  PROVE  IdrIsNext'
<1>1. ASSUME NEW t \in Threads, RaiseFromNone(t) PROVE IdrIsNext'
  BY <1>1
     DEF IdrIsNext, ControlTypes, Places, Own, Anyones, Recovering, Threads, ClearedByStop,
         RaiseFromNone, At, Goto, RaiseTo, Wanted, DropFailedBuffer, frameVars, hdrVars,
         stopVars, errorVars
<1>2. ASSUME NEW t \in Threads, Promote(t) PROVE IdrIsNext'
  BY <1>2
     DEF IdrIsNext, ControlTypes, Threads, ClearedByStop, Promote, At, Goto, RaiseTo,
         DropFailedBuffer, frameVars, hdrVars, stopVars, errorVars
<1>3. ASSUME NEW t \in Threads, FirstGet(t) PROVE IdrIsNext'
  BY <1>3
     DEF IdrIsNext, ControlTypes, Threads, ClearedByStop, FirstGet, At, Goto,
         DropFailedBuffer, recoveryVars, frameVars, hdrVars, stopVars
<1>4. ASSUME NEW t \in Threads, SecondGet(t) PROVE IdrIsNext'
  BY <1>4
     DEF IdrIsNext, ControlTypes, Threads, ClearedByStop, SecondGet, At, Goto,
         DropFailedBuffer, recoveryVars, frameVars, hdrVars, stopVars
<1>5. ASSUME NEW t \in Threads, Report(t) PROVE IdrIsNext'
  BY <1>5
     DEF IdrIsNext, ControlTypes, Threads, ClearedByStop, Report, At, Goto,
         DropFailedBuffer, recoveryVars, frameVars, hdrVars, stopVars
<1>6. ASSUME NEW t \in Threads, VisitAfterError(t) PROVE IdrIsNext'
  BY <1>6, AfterErrorValues DEF IdrIsNext, Threads, ClearedByStop
<1>7. ASSUME NEW t \in Threads, Enter(t) PROVE IdrIsNext'
  BY <1>7
     DEF IdrIsNext, ControlTypes, Threads, ClearedByStop, Enter, At, Goto, Quiesced,
         ForgetsBuffers, frameVars, hdrVars, stopVars, errorVars
<1>8. ASSUME NEW t \in Threads, LeaveWait(t) PROVE IdrIsNext'
  BY <1>8, ReturnValues
     DEF IdrIsNext, Threads, ClearedByStop, LeaveWait, At, recoveryVars, bufferVars,
         hdrVars, stopVars
<1>9. ASSUME NEW t \in Threads, Restart(t) PROVE IdrIsNext'
  BY <1>9, ReconfigureValues
     DEF IdrIsNext, Recovering, Threads, Waiting, AtRest, Reconfigures
<1>10. ASSUME NEW t \in Threads, Reset(t) PROVE IdrIsNext'
  BY <1>10, ReconfigureValues
     DEF IdrIsNext, Recovering, Threads, Waiting, AtRest, Reconfigures
<1>11. ASSUME NEW t \in Threads, Recreate(t) PROVE IdrIsNext'
  BY <1>11, ReconfigureValues
     DEF IdrIsNext, Recovering, Threads, Waiting, AtRest, Reconfigures
<1>12. ASSUME NEW t \in Threads, RecoveryDone(t) PROVE IdrIsNext'
  BY <1>12
     DEF IdrIsNext, ControlTypes, ClearedByStop, RecoveryDone, At, Goto, bufferVars,
         frameVars, hdrVars, stopVars, errorVars
<1>13. ASSUME NEW t \in Threads, Finish(t) PROVE IdrIsNext'
  BY <1>13, ReturnValues
     DEF IdrIsNext, ControlTypes, Threads, ClearedByStop, Finish, At, bufferVars, hdrVars,
         stopVars
<1>14. ASSUME Submit PROVE IdrIsNext'
  BY <1>14
     DEF IdrIsNext, ControlTypes, ClearedByStop, Submit, At, Goto, recoveryVars,
         bufferVars, hdrVars, stopVars, errorVars
<1>15. ASSUME Fetch PROVE IdrIsNext'
  BY <1>15, VisitValues, ThrowValues
     DEF IdrIsNext, Threads, After, Holdings, CallIsDone, ClearedByStop, Fetch,
         ThrowInCall, recoveryVars, hdrVars, stopVars
<1>16. ASSUME Queue PROVE IdrIsNext'
  BY <1>16, VisitValues, ThrowValues
     DEF IdrIsNext, Threads, ClearedByStop, Queue, At, ThrowInCall, recoveryVars, hdrVars,
         stopVars
<1>17. ASSUME Dequeue PROVE IdrIsNext'
  BY <1>17, ShowsValues DEF IdrIsNext, Recovering, Threads, Waiting, AtRest, Shows
<1>18. ASSUME Take PROVE IdrIsNext'
  BY <1>18, ShowsValues DEF IdrIsNext, Recovering, Threads, Waiting, AtRest, Shows
<1>19. ASSUME Discard PROVE IdrIsNext'
  BY <1>19, ShowsValues DEF IdrIsNext, Recovering, Threads, Waiting, AtRest, Shows
<1>20. ASSUME DoFrame PROVE IdrIsNext'
  BY <1>20, ShowsValues DEF IdrIsNext, Recovering, Threads, Waiting, AtRest, Shows
<1>21. ASSUME Release PROVE IdrIsNext'
  BY <1>21, ShowsValues DEF IdrIsNext, Recovering, Threads, Waiting, AtRest, Shows
<1>22. ASSUME SetHdr PROVE IdrIsNext'
  BY <1>22 DEF IdrIsNext, ClearedByStop, SetHdr, bufferVars, frameVars, stopVars
<1>23. ASSUME RequestRestart PROVE IdrIsNext'
  BY <1>23
     DEF IdrIsNext, ClearedByStop, RequestRestart, RaiseTo, bufferVars, frameVars,
         stopVars, errorVars
<1>24. ASSUME StopStep PROVE IdrIsNext'
  BY <1>24
     DEF IdrIsNext, ClearedByStop, StopStep, ClearsType, Stopped, StopScript, bufferVars,
         frameVars, hdrVars, errorVars
<1>25. CASE UNCHANGED vars
  BY <1>25
     DEF IdrIsNext, ClearedByStop, vars, recoveryVars, bufferVars, frameVars, hdrVars,
         stopVars, errorVars
<1> QED
  BY <1>1, <1>2, <1>3, <1>4, <1>5, <1>6, <1>7, <1>8, <1>9, <1>10, <1>11, <1>12, <1>13,
     <1>14, <1>15, <1>16, <1>17, <1>18, <1>19, <1>20, <1>21, <1>22, <1>23, <1>24, <1>25
     DEF Next, ThreadStep, ErrorStep, RecoveryStep

(* The initial states satisfy the invariant. *)
LEMMA InitIInv == Init => IInv
<1> SUFFICES ASSUME Init PROVE IInv
  OBVIOUS
<1>1. /\ pc["input"] = "idle" /\ pc["render"] = "dequeue"
      /\ pc["choreo"] = IF balanced THEN "idle" ELSE "gone"
      /\ pc \in [Threads -> {"idle", "dequeue", "gone"}]
  BY DEF Init, Threads
<1>2. ControlTypes
  BY DEF Init, ControlTypes, Positions
<1>3. RecoveryTypes
  BY CodecAssumption DEF Init, RecoveryTypes
<1>4. FlagTypes /\ BudgetTypes
  <2>1. app \in 0 .. Len(StopScript)
    BY DEF Init
  <2>2. FlagTypes
    BY <2>1 DEF Init, FlagTypes
  <2>3. /\ budget \in Budgets[balanced]
        /\ Budgets[balanced] \subseteq [errors : Nat, changes : Nat]
    BY CodecAssumption DEF Init
  <2> QED
    BY <2>2, <2>3 DEF BudgetTypes
<1>5. Places
  BY <1>1 DEF Places, Own, Threads
<1>6. Holdings
  BY <1>1 DEF Init, Holdings, CallIsDone, HandsAreUsed, Handling
<1>7. MonitorIsHeld
  BY DEF Init, MonitorIsHeld, Recovering, Nobody, Threads
<1>8. ClearedByStop
  BY DEF Init, ClearedByStop
<1>9. BuffersAreFresh /\ IdrIsNext
  BY <1>1 DEF Init, BuffersAreFresh, IdrIsNext
<1> QED
  BY <1>2, <1>3, <1>4, <1>5, <1>6, <1>7, <1>8, <1>9 DEF IInv

(* Every step keeps the invariant. *)
LEMMA IInvNext ==
  ASSUME IInv, [Next]_vars
  PROVE  IInv'
<1>1. ControlTypes'
  BY ControlTypesNext DEF IInv
<1>2. RecoveryTypes' /\ FlagTypes' /\ BudgetTypes'
  BY <1>1, RecoveryTypesNext, FlagTypesNext, BudgetTypesNext DEF IInv
<1>3. Places'
  BY PlacesNext DEF IInv
<1>4. Holdings'
  BY <1>1, CallIsDoneNext, HandsAreUsedNext DEF IInv, Holdings
<1>5. MonitorIsHeld'
  BY MonitorIsHeldNext DEF IInv
<1>6. ClearedByStop'
  BY <1>1, ClearedByStopNext DEF IInv, FlagTypes
<1>7. BuffersAreFresh'
  BY <1>1, BuffersAreFreshNext DEF IInv
<1>8. IdrIsNext'
  BY <1>1, IdrIsNextNext DEF IInv
<1> QED
  BY <1>1, <1>2, <1>3, <1>4, <1>5, <1>6, <1>7, <1>8 DEF IInv

(* The decoder can be described by IInv at all times. *)
THEOREM Invariance == Spec => []IInv
<1>1. Init => IInv
  BY InitIInv
<1>2. IInv /\ [Next]_vars => IInv'
  BY IInvNext
<1> QED
  BY <1>1, <1>2, PTL DEF Spec

(* Every variable keeps its type, whatever the settings, the limits and the *)
(* errors of the codec.                                                     *)
THEOREM TypeCorrect == Spec => []TypeOK
<1>1. IInv => TypeOK
  <2> SUFFICES ASSUME IInv PROVE TypeOK
    OBVIOUS
  <2>1. inBuf \in Buffers /\ outQ \in Seq(Buffers) /\ hand \in [Threads -> Buffers]
    <3>1. {"none", "fresh"} \subseteq Buffers /\ {"fresh"} \subseteq Buffers
      BY DEF Buffers
    <3>2. Seq({"fresh"}) \subseteq Seq(Buffers)
      BY <3>1
    <3> QED
      BY <3>1 DEF IInv, BuffersAreFresh
  <2> QED
    BY <2>1 DEF IInv, ControlTypes, RecoveryTypes, FlagTypes, BudgetTypes, TypeOK
<1> QED
  BY <1>1, Invariance, PTL

(* While a thread recovers the codec no other thread uses it: all flags are *)
(* set then, and a flag is set only of a thread that waits or is at rest.   *)
THEOREM RecoversAlone == Spec => []RecoveryIsExclusive
<1>1. IInv => RecoveryIsExclusive
  <2> SUFFICES ASSUME IInv, NEW t \in Threads, owner # Nobody, t # owner
               PROVE  ~UsesCodec(t)
    BY DEF RecoveryIsExclusive
  <2>1. Waiting(t) \/ AtRest(t)
    BY DEF IInv, MonitorIsHeld
  <2> QED
    BY <2>1 DEF Waiting, AtRest, UsesCodec
<1> QED
  BY <1>1, Invariance, PTL

(* No buffer survives a recovery: the input buffer and the queue are emptied *)
(* by the thread that takes the monitor, and the threads that are quiet hold *)
(* none.                                                                     *)
THEOREM KeepsNoBuffer == Spec => []BuffersAreTheCodecs
<1>1. IInv => BuffersAreTheCodecs
  BY DEF IInv, BuffersAreFresh, BuffersAreTheCodecs
<1> QED
  BY <1>1, Invariance, PTL

(* After a recovery the input thread has asked for an IDR frame, or the *)
(* decoder stops, before it can submit another frame.                   *)
THEOREM StartsWithIdr == Spec => []FirstFrameIsIdr
<1>1. IInv => FirstFrameIsIdr
  BY DEF IInv, IdrIsNext, FirstFrameIsIdr
<1> QED
  BY <1>1, Invariance, PTL
=============================================================================
